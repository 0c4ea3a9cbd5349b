------------------------ MODULE MCDoomslugConsensus ------------------------
(***************************************************************************)
(* Instances of DoomslugConsensus: the threshold of the code over given    *)
(* pledges, v3 the only validator that may sign anything.                  *)
(***************************************************************************)
EXTENDS DoomslugConsensus, FiniteSetsExt, TLC

CONSTANTS v1, v2, v3

\* approved > total * 2 / 3, as in get_block_production_readiness.
QuorumsOf(pledge) ==
    LET Sum(Q) == MapThenSumSet(LAMBDA v : pledge[v], Q)
    IN  {Q \in SUBSET DOMAIN pledge : Sum(Q) > (Sum(DOMAIN pledge) * 2) \div 3}

\* Three of unequal pledge: v1 is in every quorum, with v2 or with v3.
ThreeValidators == {v1, v2, v3}
ThreeQuorums    == QuorumsOf(v1 :> 2 @@ v2 :> 1 @@ v3 :> 1)

\* A numbering of headers without collisions: the genesis block is 0.
MCHash(p, h, c) == p * 16 + h * 2 + c

ThreeProducer(h) == IF h \in {2, 4} THEN v3 ELSE IF h = 3 THEN v2 ELSE v1

OneContent(v) == {0}

\* Only a faulty producer has two blocks to offer for one height and parent.
TwoContents(v) == IF v = v3 THEN {0, 1} ELSE {0}
=============================================================================
