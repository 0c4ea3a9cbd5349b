------------------------ MODULE MCApprovalCollection ------------------------
(***************************************************************************)
(* A node that produces heights 2 and 3.  Two blocks compete at height 1;  *)
(* the node's own blocks follow on one of them: o2, and then o3 or, with   *)
(* height 2 skipped, s3.                                                   *)
(***************************************************************************)
EXTENDS ApprovalCollection, TLC

CONSTANTS g, a1, b1, o2, o3, s3, u1, u2, u3

MCBlock == {g, a1, b1, o2, o3, s3}
MCPrev == g :> NoHash @@ a1 :> g @@ b1 :> g @@ o2 :> a1 @@ o3 :> o2 @@ s3 :> a1
MCHeightOf == g :> 0 @@ a1 :> 1 @@ b1 :> 1 @@ o2 :> 2 @@ o3 :> 3 @@ s3 :> 3

PledgeIs(this, next) == [this |-> this, next |-> next]

\* u3 only has pledge in the next epoch.  The pledges of the next epoch count after
\* the last block of an epoch.
Inside == u1 :> PledgeIs(3, 0) @@ u2 :> PledgeIs(1, 0)
AtTheEnd == u1 :> PledgeIs(3, 2) @@ u2 :> PledgeIs(1, 1) @@ u3 :> PledgeIs(0, 2)

PledgesAt(last) == [b \in MCBlock |-> IF b \in last THEN AtTheEnd ELSE Inside]

\* Both blocks of height 1 end the epoch.
MCPledges == PledgesAt({a1, b1})

ApprovalOf(account, p, target) ==
    [from |-> account, target |-> target, inner |-> Inner(p, target)]

\* For height 2: endorsements of the blocks of height 1, u1 of both of them.  For
\* height 3: endorsements of the own block, u3 without a right to, and skips.
MCOffered ==
    {ApprovalOf(c, a1, 2) : c \in {u1, u2, u3}}
        \cup {ApprovalOf(u1, b1, 2)}
        \cup {ApprovalOf(c, o2, 3) : c \in {u1, u3}}
        \cup {ApprovalOf(c, a1, 3) : c \in {u1, u3}}
=============================================================================
