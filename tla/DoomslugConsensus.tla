------------------------- MODULE DoomslugConsensus -------------------------
(***************************************************************************)
(* Block production, approval and finality across the validators of one    *)
(* epoch: Doomslug (chain/chain/src/doomslug.rs) driven by the client      *)
(* actor's triggers (chain/client/src/client_actor.rs, client.rs), header  *)
(* validation (chain/chain/src/chain.rs) and the head updates              *)
(* (chain/chain/src/chain_update.rs, store.rs).                            *)
(*                                                                         *)
(* Time is abstract: a delay may have elapsed at any call of the timer     *)
(* (DoomslugTimer.tla keeps the clock).  Messages are never removed from   *)
(* the network and receiving one is never forced, so loss, delay,          *)
(* duplication and reordering are all covered.                             *)
(***************************************************************************)
EXTENDS Integers

CONSTANTS
    Validator,       \* the block producers of the epoch
    Faulty,          \* those that may sign anything
    Failing,         \* honest ones whose process or disk may fail (a bound of the model)
    Quorum,          \* the sets holding more than 2/3 of the pledge
    Genesis,         \* hash of the genesis block
    NoHash,          \* CryptoHash::default()
    Content(_),      \* what tells apart a validator's blocks on one parent at one height
    Hash(_, _, _),   \* hash of a header, from its parent, height and content
    Producer(_),     \* EpochManager::get_block_producer at a height
    MaxHeight,       \* bound on the heights of the model
    NUM_PARENTS_TO_CHECK_FINALITY

Honest == Validator \ Faulty

ASSUME QuorumAssumption ==
    /\ Faulty \subseteq Validator
    /\ Failing \subseteq Honest
    /\ Quorum \subseteq SUBSET Validator
    /\ \A Q1, Q2 \in Quorum : Q1 \cap Q2 \cap Honest # {}

ASSUME HeightAssumption ==
    /\ Genesis # NoHash
    /\ MaxHeight \in Nat
    /\ NUM_PARENTS_TO_CHECK_FINALITY \in Nat \ {0}

VARIABLES
    hdr,             \* header of every block published by its height's producer
    sent,            \* approvals handed to the network
    store,           \* on disk, per honest node: the accepted blocks
    head,            \* on disk: the head of the chain
    final_head,      \* on disk: the last final block
    latest_known,    \* on disk: the height under LATEST_KNOWN_KEY
    disk_target,     \* on disk: LARGEST_TARGET_HEIGHT_KEY
    tip,             \* Doomslug::tip.block_hash
    timer_height,    \* Doomslug::timer.height
    pending,         \* Doomslug::endorsement_pending
    target,          \* Doomslug::largest_target_height
    largest_final    \* Doomslug::largest_final_height

chain == <<store, head, final_head, latest_known>>
slug  == <<tip, timer_height, pending, target, largest_final>>
vars  == <<hdr, sent, store, head, final_head, latest_known, disk_target,
           tip, timer_height, pending, target, largest_final>>

Height(b) == hdr[b].height

-----------------------------------------------------------------------------
(* Approvals and headers                                                   *)

\* ApprovalInner::new: an Endorsement names its parent, a Skip only carries the
\* parent's height.  The height of an endorsed block is one below the target.
ApprovalInner(p, parent_height, target_height) ==
    [parent |-> parent_height,
     hash   |-> IF parent_height + 1 = target_height THEN p ELSE NoHash]

Approval(n, p, parent_height, target_height) ==
    [from |-> n, target |-> target_height,
     inner |-> ApprovalInner(p, parent_height, target_height)]

\* Mutant: counts whatever was approved for the target height.
AnyApprovals(p, h) ==
    {n \in Validator : n \in Faulty \/ \E a \in sent : a.from = n /\ a.target = h}
        \in Quorum

\* The approvals a block at height h on p can carry reach the threshold.
EnoughApprovals(p, h) ==
    {n \in Validator : n \in Faulty \/ Approval(n, p, Height(p), h) \in sent}
        \in Quorum

LastDsFinal(p, h) ==
    IF Height(p) + 1 = h THEN p ELSE hdr[p].last_ds_final

\* Mutant: takes any two blocks in a row for a final one.
LastFinalOneConfirmation(p, h) ==
    IF Height(p) + 1 = h THEN hdr[p].prev ELSE hdr[p].last_final

LastFinal(p, h) ==
    IF Height(p) + 1 = h /\ hdr[p].last_ds_final = hdr[p].prev
    THEN hdr[p].prev
    ELSE hdr[p].last_final

NewHeader(p, h) ==
    [prev |-> p, height |-> h,
     last_ds_final |-> LastDsFinal(p, h), last_final |-> LastFinal(p, h)]

\* A block joins those that validate_header lets through.
Publish(b, p, h) ==
    /\ b \notin DOMAIN hdr \cup {NoHash}
    /\ hdr' = [x \in DOMAIN hdr \cup {b} |-> IF x = b THEN NewHeader(p, h) ELSE hdr[x]]

FinalHeight(b) == IF hdr[b].last_final = NoHash THEN 0 ELSE Height(hdr[b].last_final)

-----------------------------------------------------------------------------
(* One honest node                                                         *)

Init ==
    /\ hdr = [b \in {Genesis} |-> [prev |-> NoHash, height |-> 0,
                                   last_ds_final |-> NoHash, last_final |-> NoHash]]
    /\ sent = {}
    /\ store = [n \in Honest |-> {Genesis}]
    /\ head = [n \in Honest |-> Genesis]
    /\ final_head = [n \in Honest |-> Genesis]
    /\ latest_known = [n \in Honest |-> 0]
    /\ disk_target = [n \in Honest |-> 0]
    /\ tip = [n \in Honest |-> NoHash]
    /\ timer_height = [n \in Honest |-> 0]
    /\ pending = [n \in Honest |-> FALSE]
    /\ target = [n \in Honest |-> 0]
    /\ largest_final = [n \in Honest |-> 0]

\* Doomslug::set_tip, for the head b.
SetTip(n, b) ==
    /\ tip' = [tip EXCEPT ![n] = b]
    /\ timer_height' = [timer_height EXCEPT ![n] = Height(b) + 1]
    /\ pending' = [pending EXCEPT ![n] = TRUE]
    /\ largest_final' = [largest_final EXCEPT ![n] = FinalHeight(b)]
    /\ UNCHANGED target

\* Client::check_and_update_doomslug_tip on its own: the trigger that runs it
\* finds nothing else to do.  The actions below that need an up to date tip
\* say so in their guards.
UpdateTip(n) ==
    /\ tip[n] # head[n]
    /\ SetTip(n, head[n])
    /\ UNCHANGED <<hdr, sent, chain, disk_target>>

\* process_timer, an iteration in which the endorsement delay has elapsed: the
\* approvals it returns and the target height it leaves.
EndorseTarget(n) ==
    IF Height(tip[n]) >= target[n] THEN Height(tip[n]) + 1 ELSE target[n]

EndorseApprovals(n) ==
    IF Height(tip[n]) >= target[n]
    THEN {Approval(n, tip[n], Height(tip[n]), Height(tip[n]) + 1)}
    ELSE {}

\* An iteration in which the skip delay has elapsed.
SkipTarget(n) ==
    IF timer_height[n] + 1 > target[n] THEN timer_height[n] + 1 ELSE target[n]

SkipApprovals(n) == {Approval(n, tip[n], Height(tip[n]), timer_height[n] + 1)}

\* try_doomslug_timer commits the target height t and then sends; when the
\* commit fails nothing is sent.
SaveAndSend(n, t, approvals) ==
    \/ /\ disk_target' = [disk_target EXCEPT ![n] = t]
       /\ sent' = sent \cup approvals
    \/ /\ n \in Failing
       /\ UNCHANGED <<disk_target, sent>>

CanEndorse(n) ==
    /\ tip[n] = head[n]
    /\ pending[n]
    /\ Height(tip[n]) < MaxHeight

\* No endorsement is pending when the skip delay elapses: it is the longer one.
CanSkip(n) ==
    /\ tip[n] = head[n]
    /\ ~pending[n]
    /\ timer_height[n] < MaxHeight

TimerEndorse(n) ==
    /\ CanEndorse(n)
    /\ SaveAndSend(n, EndorseTarget(n), EndorseApprovals(n))
    /\ target' = [target EXCEPT ![n] = EndorseTarget(n)]
    /\ pending' = [pending EXCEPT ![n] = FALSE]
    /\ UNCHANGED <<hdr, chain, tip, timer_height, largest_final>>

TimerSkip(n) ==
    /\ CanSkip(n)
    /\ SaveAndSend(n, SkipTarget(n), SkipApprovals(n))
    /\ target' = [target EXCEPT ![n] = SkipTarget(n)]
    /\ timer_height' = [timer_height EXCEPT ![n] = timer_height[n] + 1]
    /\ UNCHANGED <<hdr, chain, tip, pending, largest_final>>

-----------------------------------------------------------------------------
(* Accepting and producing blocks                                          *)

\* The first k headers met when walking back from b, NoHash once past genesis.
Walk(b, k) ==
    LET path[i \in 0 .. k - 1] ==
            IF i = 0 THEN b
            ELSE LET x == path[i-1] IN IF x = NoHash THEN NoHash ELSE hdr[x].prev
    IN  path

\* Mutant: already rejects at the height of the final head.
CheckIfFinalizableStrict(n, b) ==
    LET path == Walk(b, NUM_PARENTS_TO_CHECK_FINALITY) IN
    \A i \in DOMAIN path :
        path[i] # NoHash /\ Height(path[i]) <= Height(final_head[n])
            => \E j \in DOMAIN path : j < i /\ path[j] = final_head[n]

\* Chain::check_if_finalizable: going below the final head before meeting it
\* rejects the block.
CheckIfFinalizable(n, b) ==
    LET path == Walk(b, NUM_PARENTS_TO_CHECK_FINALITY) IN
    \A i \in DOMAIN path :
        path[i] # NoHash /\ Height(path[i]) < Height(final_head[n])
            => \E j \in DOMAIN path : j < i /\ path[j] = final_head[n]

\* The blocks preprocess_block lets through: not known, the parent is in the
\* store, and finalizable.
Processable(n, b) ==
    /\ b \in DOMAIN hdr \ store[n]
    /\ hdr[b].prev \in store[n]
    /\ CheckIfFinalizable(n, b)

\* Mutant: an equally high block replaces the head.
NewHeadTies(n, b) == IF Height(b) >= Height(head[n]) THEN b ELSE head[n]

\* ChainUpdate::update_head, fork choice by height only.
NewHead(n, b) == IF Height(b) > Height(head[n]) THEN b ELSE head[n]

\* Mutant: the final head of the block, without comparing heights.
NewFinalHeadAny(n, b) ==
    IF hdr[b].last_final # NoHash THEN hdr[b].last_final ELSE final_head[n]

\* ChainUpdate::update_final_head_from_block.
NewFinalHead(n, b) ==
    IF hdr[b].last_final # NoHash /\ Height(hdr[b].last_final) > Height(final_head[n])
    THEN hdr[b].last_final
    ELSE final_head[n]

\* Mutant: only produced blocks raise latest_known.
NewLatestKnownKept(n, b) == latest_known[n]

\* save_body_head -> try_save_latest_known, in a commit of its own.
NewLatestKnown(n, b) ==
    IF NewHead(n, b) # head[n] /\ Height(b) > latest_known[n]
    THEN Height(b) ELSE latest_known[n]

\* postprocess_block and on_block_accepted.
AcceptBlock(n, b) ==
    /\ Processable(n, b)
    /\ store' = [store EXCEPT ![n] = store[n] \cup {b}]
    /\ final_head' = [final_head EXCEPT ![n] = NewFinalHead(n, b)]
    /\ head' = [head EXCEPT ![n] = NewHead(n, b)]
    /\ latest_known' = [latest_known EXCEPT ![n] = NewLatestKnown(n, b)]
    /\ IF tip[n] # NewHead(n, b) THEN SetTip(n, NewHead(n, b)) ELSE UNCHANGED slug
    /\ UNCHANGED <<hdr, sent, disk_target>>

\* The blocks Client::produce_block_on builds on the head at height h.
CanProduceBlock(n, h) ==
    /\ tip[n] = head[n]
    /\ n = Producer(h)
    /\ h > latest_known[n]
    /\ EnoughApprovals(head[n], h)

\* Mutant: the produced height is not saved.
ProduceBlockUnsaved(n, h, c) ==
    /\ CanProduceBlock(n, h)
    /\ Publish(Hash(head[n], h, c), head[n], h)
    /\ UNCHANGED <<sent, chain, disk_target, slug>>

\* latest_known is committed before the block leaves the node.
ProduceBlock(n, h, c) ==
    /\ CanProduceBlock(n, h)
    /\ Publish(Hash(head[n], h, c), head[n], h)
    /\ latest_known' = [latest_known EXCEPT ![n] = h]
    /\ UNCHANGED <<sent, store, head, final_head, disk_target, slug>>

\* A faulty producer builds any number of blocks, on any parent.
FaultyProduceBlock(p, h, c) ==
    /\ Producer(h) \in Faulty
    /\ EnoughApprovals(p, h)
    /\ Publish(Hash(p, h, c), p, h)
    /\ UNCHANGED <<sent, chain, disk_target, slug>>

-----------------------------------------------------------------------------
(* Crashes: Doomslug::new, with the target height read from the disk       *)

\* Mutant: starts again with a target height of zero.
RestartForgets(n, t) ==
    /\ n \in Failing
    /\ disk_target' = [disk_target EXCEPT ![n] = t]
    /\ sent' = sent
    /\ tip' = [tip EXCEPT ![n] = NoHash]
    /\ timer_height' = [timer_height EXCEPT ![n] = 0]
    /\ pending' = [pending EXCEPT ![n] = FALSE]
    /\ target' = [target EXCEPT ![n] = 0]
    /\ largest_final' = [largest_final EXCEPT ![n] = 0]
    /\ UNCHANGED <<hdr, store, head, final_head>>

Restart(n, t) ==
    /\ n \in Failing
    /\ disk_target' = [disk_target EXCEPT ![n] = t]
    /\ sent' = sent
    /\ tip' = [tip EXCEPT ![n] = NoHash]
    /\ timer_height' = [timer_height EXCEPT ![n] = 0]
    /\ pending' = [pending EXCEPT ![n] = FALSE]
    /\ target' = [target EXCEPT ![n] = t]
    /\ largest_final' = [largest_final EXCEPT ![n] = 0]
    /\ UNCHANGED <<hdr, store, head, final_head>>

\* Crash(n, t): with the target height t on the disk.  Between its commit and the
\* sending of the approvals, t is the one process_timer has just computed.
Crash(n, t) ==
    /\ Restart(n, t)
    /\ UNCHANGED latest_known

CrashBeforeSending(n) ==
    \/ CanEndorse(n) /\ Crash(n, EndorseTarget(n))
    \/ CanSkip(n) /\ Crash(n, SkipTarget(n))

\* Between save_latest_known and the broadcast of the produced block.
CrashProducing(n, h) ==
    /\ Restart(n, disk_target[n])
    /\ CanProduceBlock(n, h)
    /\ latest_known' = [latest_known EXCEPT ![n] = h]

\* Between the commit of latest_known and that of the chain update.
CrashAccepting(n, b) ==
    /\ Restart(n, disk_target[n])
    /\ Processable(n, b)
    /\ latest_known' = [latest_known EXCEPT ![n] = NewLatestKnown(n, b)]

-----------------------------------------------------------------------------

TimerStep(n) ==
    \/ UpdateTip(n)
    \/ TimerEndorse(n)
    \/ TimerSkip(n)
    \/ CrashBeforeSending(n)

BlockStep(n) ==
    \/ \E b \in DOMAIN hdr : AcceptBlock(n, b) \/ CrashAccepting(n, b)
    \/ \E h \in 1 .. MaxHeight : \E c \in Content(n) : ProduceBlock(n, h, c)
    \/ \E h \in 1 .. MaxHeight : CrashProducing(n, h)
    \/ Crash(n, disk_target[n])

Next ==
    \/ \E n \in Honest : TimerStep(n) \/ BlockStep(n)
    \/ \E p \in DOMAIN hdr, h \in 1 .. MaxHeight : \E c \in Content(Producer(h)) :
           FaultyProduceBlock(p, h, c)

Spec == Init /\ [][Next]_vars

-----------------------------------------------------------------------------
(* Properties                                                              *)

Block == DOMAIN hdr

ApprovalType ==
    [from : Honest, target : Nat,
     inner : [parent : Nat, hash : Block \cup {NoHash}]]

TypeOK ==
    /\ hdr \in [Block -> [prev : Block \cup {NoHash}, height : Nat,
                          last_ds_final : Block \cup {NoHash},
                          last_final : Block \cup {NoHash}]]
    /\ Genesis \in Block /\ NoHash \notin Block
    /\ sent \subseteq ApprovalType
    /\ store \in [Honest -> SUBSET Block]
    /\ head \in [Honest -> Block]
    /\ final_head \in [Honest -> Block]
    /\ latest_known \in [Honest -> Nat]
    /\ disk_target \in [Honest -> Nat]
    /\ tip \in [Honest -> Block \cup {NoHash}]
    /\ timer_height \in [Honest -> Nat]
    /\ pending \in [Honest -> BOOLEAN]
    /\ target \in [Honest -> Nat]
    /\ largest_final \in [Honest -> Nat]

\* What process_timer and the saved largest_target_height promise together: an
\* honest validator that endorsed a block at height h never lets another chain
\* pass it by.  Whatever else it signs, across crashes, is for a target at most h
\* or on a parent at least as high, and it endorses one block per height.
NeverPassesItsEndorsement ==
    \A e, a \in sent :
        e.from = a.from /\ e.inner.hash # NoHash
        => \/ a.target <= e.inner.parent
           \/ a.inner.parent > e.inner.parent
           \/ a.inner.parent = e.inner.parent
              /\ a.inner.hash \in {e.inner.hash, NoHash}

\* What finality rests on, and what every step preserves.  The approvals of
\* process_timer: below the target on the disk, on no parent above the head, and
\* endorsements only of the next height.
ApprovalsBelowTarget ==
    /\ \A a \in sent :
           /\ a.inner.parent < a.target
           /\ a.target <= disk_target[a.from]
           /\ a.inner.parent <= Height(head[a.from])
           /\ a.inner.hash # NoHash => a.target = a.inner.parent + 1
    /\ \A n \in Honest :
           /\ disk_target[n] <= target[n]
           /\ tip[n] # NoHash => /\ tip[n] = head[n]
                                 /\ Height(tip[n]) < timer_height[n]

\* The headers validate_header lets through: approved by a quorum, above their
\* parent, and what they call final has two children at consecutive heights.
Approved(b) ==
    \E Q \in Quorum : \A n \in Q \cap Honest :
        Approval(n, hdr[b].prev, Height(hdr[b].prev), Height(b)) \in sent

HasTwoConfirmations(f) ==
    \E c, d \in Block \ {Genesis} :
        /\ hdr[c].prev = f /\ Height(c) = Height(f) + 1
        /\ hdr[d].prev = c /\ Height(d) = Height(c) + 1

HeadersApproved ==
    /\ hdr[Genesis].last_ds_final = NoHash /\ hdr[Genesis].prev = NoHash
    /\ Height(Genesis) = 0
    /\ \A b \in Block \ {Genesis} :
           /\ hdr[b].prev # NoHash
           /\ Height(hdr[b].prev) < Height(b)
           /\ Approved(b)
           /\ hdr[b].last_ds_final = hdr[b].prev => Height(hdr[b].prev) + 1 = Height(b)
    /\ \A b \in Block :
           /\ hdr[b].last_ds_final # NoHash => Height(hdr[b].last_ds_final) < Height(b)
           /\ hdr[b].last_final # NoHash => HasTwoConfirmations(hdr[b].last_final)

\* The heights on the disk of a node: latest_known covers its head and the blocks it
\* produced, and the final head is what some header calls final, below the head.
HeadsInvariant ==
    /\ \A b \in Block :
           /\ Height(b) <= MaxHeight
           /\ hdr[b].last_final # NoHash => Height(hdr[b].last_final) < Height(b)
    /\ \A b \in Block \ {Genesis} :
           LET n == Producer(Height(b)) IN n \in Honest => Height(b) <= latest_known[n]
    /\ \A n \in Honest :
           /\ Height(head[n]) <= latest_known[n]
           /\ final_head[n] # Genesis => \E b \in Block : hdr[b].last_final = final_head[n]
           /\ \/ Height(final_head[n]) < Height(head[n])
              \/ final_head[n] = head[n]

FinalityInvariant == NeverPassesItsEndorsement /\ ApprovalsBelowTarget /\ HeadersApproved

\* The inductive invariant of the module.
ConsensusInvariant ==
    NeverPassesItsEndorsement /\ ApprovalsBelowTarget /\ HeadersApproved /\ HeadsInvariant

\* Doomslug finality (last_ds_final_block): once a block has a child at the next
\* height, no block above it is built on a parent below it.
DoomslugFinality ==
    \A c, x \in Block \ {Genesis} :
        LET p == hdr[c].prev IN
        Height(p) + 1 = Height(c) /\ Height(x) > Height(p)
            => Height(hdr[x].prev) >= Height(p)

FinalBlocks == {hdr[y].last_final : y \in DOMAIN hdr} \ {NoHash}

\* Finality (last_final_block): a chain that gets above a final block, whoever
\* produced it, goes through that block.
FinalityIrrevocable ==
    \A f \in FinalBlocks, x \in DOMAIN hdr :
        Height(x) > Height(f) =>
            \/ hdr[x].prev = f
            \/ Height(hdr[x].prev) > Height(f)

\* The chain of b down to the genesis block.
ChainOf(b) == LET path == Walk(b, MaxHeight + 1) IN {path[i] : i \in DOMAIN path} \ {NoHash}

\* update_head picks a head by height alone and update_final_head_from_block raises the
\* final head on its own: still the head is always built on the final head, and
\* check_if_finalizable never refuses a block above it.
HigherBlocksAreFinalizable ==
    \A n \in Honest :
        /\ final_head[n] \in ChainOf(head[n])
        /\ \A b \in DOMAIN hdr \ store[n] :
             Height(b) > Height(final_head[n]) => CheckIfFinalizable(n, b)

\* can_produce_block and the saved latest_known: an honest validator never signs
\* two blocks of one height, whatever it forgets in a crash.
HonestNeverSignsTwice ==
    \A b, c \in Block \ {Genesis} :
        Height(b) = Height(c) /\ Producer(Height(b)) \in Honest => b = c

\* The assertion of handle_block_production.
HeadBelowLatestKnown ==
    \A n \in Honest : Height(head[n]) <= latest_known[n]

\* The debug assertion of set_tip: within one run of the process the tip rises.
TipRises ==
    [][\A n \in Honest :
          tip[n] # NoHash /\ tip'[n] # NoHash /\ tip'[n] # tip[n]
              => hdr'[tip'[n]].height > hdr[tip[n]].height]_vars

\* The final head of a node is only ever replaced by one of its descendants.
FinalHeadExtends ==
    [][\A n \in Honest :
          final_head'[n] # final_head[n] => final_head[n] \in ChainOf(final_head[n])']_vars
=============================================================================
