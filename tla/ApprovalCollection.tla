------------------------- MODULE ApprovalCollection -------------------------
(***************************************************************************)
(* How one block producer collects approvals and builds blocks from them:  *)
(* Client::collect_block_approval, pending_approvals, on_block_accepted    *)
(* and produce_block_on (chain/client/src/client.rs), and the approval     *)
(* trackers of Doomslug (chain/chain/src/doomslug.rs).                     *)
(*                                                                         *)
(* Approvals come with valid signatures, in any order, any number of times *)
(* and before or after the blocks they approve.                            *)
(***************************************************************************)
EXTENDS Integers, Sequences, FiniteSets, FiniteSetsExt, Functions, Containers

CONSTANTS
    Block, Genesis, NoHash,
    Prev, HeightOf,       \* the parent and the height of each block
    Own,                  \* the blocks this node produces
    Pledges,              \* per parent block: the pledges [this, next] of the approvers
    MyTargets,            \* the heights this node produces
    Offered,              \* the approvals that may arrive
    Seats,                \* num_block_producer_seats: the size of pending_approvals
    MAX_HEIGHTS_BEFORE_TO_STORE_APPROVALS,
    MAX_HEIGHTS_AHEAD_TO_STORE_APPROVALS

Pledge == [this : Nat, next : Nat]

ASSUME BlockAssumption ==
    /\ Genesis \in Block /\ NoHash \notin Block /\ Own \subseteq Block
    /\ HeightOf \in [Block -> Nat]

ASSUME ApprovalAssumption ==
    /\ IsFiniteSet(Offered)
    /\ \A a \in Offered :
           a.target \in Nat /\ a.inner \in [parent : Nat, hash : Block \cup {NoHash}]
    /\ \A b \in Block : IsFiniteSet(DOMAIN Pledges[b]) /\ Pledges[b] \in [DOMAIN Pledges[b] -> Pledge]
    /\ {Seats, MAX_HEIGHTS_BEFORE_TO_STORE_APPROVALS} \subseteq Nat \ {0}
    /\ MAX_HEIGHTS_AHEAD_TO_STORE_APPROVALS \in Nat

\* collect_block_approval takes the approvers of any block at the height of a skip: "all
\* of them will be eligible to build the next block on, so we just pick one".
ASSUME PickOneAssumption ==
    \A b, c \in Block : HeightOf[b] = HeightOf[c] => Pledges[b] = Pledges[c]

VARIABLES
    known,                \* accepted blocks
    unrequested,          \* those that came unasked: Provenance::NONE
    head,                 \* the highest of them, and Doomslug's tip
    processing,           \* own blocks that were broadcast and are being applied
    tracking,             \* Doomslug::approval_tracking
    pending,              \* Client::pending_approvals, the oldest entry first
    latest_known,
    largest_threshold,    \* Doomslug::largest_threshold_height
    produced              \* history: own blocks, with the witnesses they were built from

vars == <<known, unrequested, head, processing, tracking, pending, latest_known,
          largest_threshold, produced>>

\* ApprovalInner::new.
Inner(p, target_height) ==
    [parent |-> HeightOf[p], hash |-> IF HeightOf[p] + 1 = target_height THEN p ELSE NoHash]

PledgeOf(pledges, account) ==
    IF account \in DOMAIN pledges THEN pledges[account] ELSE [this |-> 0, next |-> 0]

SumOf(amount, accounts) == MapThenSumSet(LAMBDA a : amount[a], accounts)

Total(pledges, accounts) ==
    [this |-> SumOf([a \in accounts |-> PledgeOf(pledges, a).this], accounts),
     next |-> SumOf([a \in accounts |-> PledgeOf(pledges, a).next], accounts)]

TwoThirds(n) == (n * 2) \div 3

-----------------------------------------------------------------------------
(* DoomslugApprovalsTracker, for one ApprovalInner at one target height    *)

NewTracker(pledges) ==
    [witness |-> {}, pledges |-> pledges, approved |-> [this |-> 0, next |-> 0]]

\* process_approval: a second approval of the account does not count.
AddApproval(t, account) ==
    IF account \in t.witness THEN t
    ELSE LET x == PledgeOf(t.pledges, account) IN
         [t EXCEPT !.witness = @ \cup {account},
                   !.approved.this = @ + x.this, !.approved.next = @ + x.next]

Withdraw(t, account) ==
    IF account \notin t.witness THEN t
    ELSE LET x == PledgeOf(t.pledges, account) IN
         [t EXCEPT !.witness = @ \ {account},
                   !.approved.this = @ - x.this, !.approved.next = @ - x.next]

\* More than half of the pledge approved (used as a mutant of Ready, too).
HalfReady(t) ==
    LET total == Total(t.pledges, DOMAIN t.pledges) IN
    /\ t.approved.this > total.this \div 2
    /\ t.approved.next > total.next \div 2 \/ total.next = 0

\* get_block_production_readiness, in the mode TwoThirds.
Ready(t) ==
    LET total == Total(t.pledges, DOMAIN t.pledges) IN
    /\ t.approved.this > TwoThirds(total.this)
    /\ t.approved.next > TwoThirds(total.next) \/ total.next = 0

\* Doomslug::can_approved_block_be_produced: what other nodes ask of a header.
CanApprovedBlockBeProduced(approvers, pledges) ==
    LET total == Total(pledges, DOMAIN pledges)
        approved == Total(pledges, approvers \cap DOMAIN pledges)
    IN  /\ approved.this > TwoThirds(total.this) \/ TwoThirds(total.this) = 0
        /\ approved.next > TwoThirds(total.next) \/ TwoThirds(total.next) = 0

-----------------------------------------------------------------------------
(* DoomslugApprovalsTrackersAtHeight: one approval per account             *)

EmptyMap == [x \in {} |-> 0]

NewAtHeight == [trackers |-> EmptyMap, last |-> EmptyMap]

\* Mutant: the approval before stays where it is.
KeepLast(x, account) == x.trackers

\* The trackers without the account's last approval, and without the tracker
\* this leaves empty.
WithdrawLast(x, account) ==
    IF account \notin DOMAIN x.last \/ x.last[account] \notin DOMAIN x.trackers
    THEN x.trackers
    ELSE LET inner == x.last[account]
             t == Withdraw(x.trackers[inner], account)
         IN  IF t.witness = {}
             THEN Restrict(x.trackers, DOMAIN x.trackers \ {inner})
             ELSE [x.trackers EXCEPT ![inner] = t]

ProcessAtHeight(x, a, pledges) ==
    LET trackers == WithdrawLast(x, a.from) IN
    IF a.from \notin DOMAIN pledges
    THEN [x EXCEPT !.trackers = trackers]
    ELSE LET t == IF a.inner \in DOMAIN trackers THEN trackers[a.inner]
                  ELSE NewTracker(pledges)
         IN  [trackers |-> Put(trackers, a.inner, AddApproval(t, a.from)),
              last |-> Put(x.last, a.from, a.inner)]

-----------------------------------------------------------------------------
(* Doomslug                                                                *)

InHorizon(a, tip) ==
    a.target >= HeightOf[tip]
        /\ a.target <= HeightOf[tip] + MAX_HEIGHTS_AHEAD_TO_STORE_APPROVALS

\* on_approval_message, with the approvers of the block p.
OnApproval(tr, a, p, tip) ==
    IF InHorizon(a, tip)
    THEN LET x == IF a.target \in DOMAIN tr THEN tr[a.target] ELSE NewAtHeight
         IN  Put(tr, a.target, ProcessAtHeight(x, a, Pledges[p]))
    ELSE tr

\* The retain of set_tip.
Retain(tr, tip) ==
    Restrict(tr, {h \in DOMAIN tr :
                    /\ h > Max({0, HeightOf[tip] - MAX_HEIGHTS_BEFORE_TO_STORE_APPROVALS})
                    /\ h <= HeightOf[tip] + MAX_HEIGHTS_AHEAD_TO_STORE_APPROVALS})

Crossed(tr, h) ==
    h \in DOMAIN tr /\ \E inner \in DOMAIN tr[h].trackers : Ready(tr[h].trackers[inner])

\* on_approval_message_internal raises largest_threshold_height to the targets that
\* become ready.
Threshold(tr, targets) ==
    Max({largest_threshold} \cup {h \in targets : Crossed(tr, h)})

-----------------------------------------------------------------------------
(* Client                                                                  *)

\* collect_block_approval looks for the parent: the endorsed block, or any block
\* at the height of a skip.
IsParent(b, inner) ==
    IF inner.hash = NoHash THEN HeightOf[b] = inner.parent ELSE b = inner.hash

Parents(a, blocks) == {b \in blocks : IsParent(b, a.inner)}

Entry(inner) == {i \in DOMAIN pending : pending[i].inner = inner}

\* Mutant: starts a new entry.
AddPendingAlone(a) ==
    LET new == Append(Keep(pending, {e \in Range(pending) : e.inner # a.inner}),
                      [inner |-> a.inner, approvals |-> {a}])
    IN  IF Len(new) > Seats THEN Tail(new) ELSE new

\* handle_process_approval_error: the entry of the ApprovalInner moves to the end of
\* the cache, with one approval per account.
AddPending(a) ==
    LET old == UNION {pending[i].approvals : i \in Entry(a.inner)}
        others == Keep(pending, {e \in Range(pending) : e.inner # a.inner})
        new == Append(others,
                      [inner |-> a.inner,
                       approvals |-> {o \in old : o.from # a.from} \cup {a}])
    IN  IF Len(new) > Seats THEN Tail(new) ELSE new

Init ==
    /\ known = {Genesis} /\ unrequested = {} /\ head = Genesis /\ processing = {}
    /\ tracking = EmptyMap
    /\ pending = <<>>
    /\ latest_known = 0 /\ largest_threshold = 0
    /\ produced = {}

\* An own block is endorsed after it was broadcast.
MayArrive(a) == a.inner.hash \in Own => a.inner.hash \in known \cup processing

\* The parent is unknown.
CollectEarly(a) ==
    /\ MayArrive(a)
    /\ Parents(a, known) = {}
    /\ pending' = AddPending(a)
    /\ UNCHANGED <<known, unrequested, head, processing, tracking, latest_known,
                   largest_threshold, produced>>

\* The parent is p.  An approval for another producer's height is of no use.
Collect(a, p) ==
    /\ MayArrive(a)
    /\ p \in Parents(a, known)
    /\ a.target \in MyTargets
    /\ tracking' = OnApproval(tracking, a, p, head)
    /\ largest_threshold' = IF InHorizon(a, head) THEN Threshold(tracking', {a.target})
                            ELSE largest_threshold
    /\ UNCHANGED <<known, unrequested, head, processing, pending, latest_known, produced>>

NewHead(b) == IF HeightOf[b] > HeightOf[head] THEN b ELSE head

\* The block is stored and the tip set to the head.
AcceptBlock(b) ==
    /\ known' = known \cup {b}
    /\ head' = NewHead(b)
    /\ latest_known' = Max({latest_known, HeightOf[NewHead(b)]})

\* set_tip is called when the head changes.
Retained(b) == IF NewHead(b) # head THEN Retain(tracking, NewHead(b)) ELSE tracking

\* The pending approvals on_block_accepted hands to collect_block_approval.
Popped(b) ==
    UNION {pending[i].approvals :
             i \in {i \in DOMAIN pending :
                      \/ pending[i].inner.hash = b
                      \/ pending[i].inner = [parent |-> HeightOf[b], hash |-> NoHash]}}

\* The approvals of b are collected one after the other; a skip with the block p the
\* store lists first at the height.
CollectAll(tr, approvals, b, p, tip) ==
    FoldSet(LAMBDA a, before :
                OnApproval(before, a, IF a.inner.hash = NoHash THEN p ELSE b, tip),
            tr, approvals)

\* A block that came unasked (Provenance::NONE) takes its pending approvals along.
AcceptUnrequestedBlock(b, p) ==
    LET useful == {a \in Popped(b) : a.target \in MyTargets} IN
    /\ b \in Block \ (known \cup Own)
    /\ Prev[b] \in known
    /\ p \in known \cup {b} /\ HeightOf[p] = HeightOf[b]
    /\ AcceptBlock(b)
    /\ unrequested' = unrequested \cup {b}
    /\ pending' = Keep(pending, {e \in Range(pending) : e.approvals \cap Popped(b) = {}})
    /\ tracking' = CollectAll(Retained(b), useful, b, p, head')
    /\ largest_threshold' =
           Threshold(tracking', {a.target : a \in {a \in useful : InHorizon(a, head')}})
    /\ UNCHANGED <<processing, produced>>

\* A requested block (Provenance::SYNC) and an own block that was applied
\* (Provenance::PRODUCED): the pending approvals stay.
AcceptOtherBlock(b) ==
    /\ b \in processing \cup (Block \ (known \cup Own))
    /\ Prev[b] \in known
    /\ processing' = processing \ {b}
    /\ AcceptBlock(b)
    /\ tracking' = Retained(b)
    /\ UNCHANGED <<unrequested, pending, largest_threshold, produced>>

\* get_witness.
Witness(h) ==
    IF h \in DOMAIN tracking /\ Inner(head, h) \in DOMAIN tracking[h].trackers
    THEN tracking[h].trackers[Inner(head, h)].witness
    ELSE {}

\* handle_block_production and produce_block_on.  Chunks may be missing, in which
\* case the block waits: it need not be produced as soon as it can be.
ProduceBlock(b) ==
    LET h == HeightOf[b] IN
    /\ b \in Own \ (known \cup processing)
    /\ Prev[b] = head
    /\ h \in MyTargets
    /\ h > latest_known /\ h <= largest_threshold
    /\ Witness(h) # {} /\ Ready(tracking[h].trackers[Inner(head, h)])
    /\ latest_known' = h
    /\ processing' = processing \cup {b}
    /\ produced' = produced \cup {[block |-> b, witness |-> Witness(h)]}
    /\ UNCHANGED <<known, unrequested, head, tracking, pending, largest_threshold>>

Next ==
    \/ \E a \in Offered : CollectEarly(a)
    \/ \E a \in Offered : \E p \in known : Collect(a, p)
    \/ \E b \in Block : \E p \in Block : AcceptUnrequestedBlock(b, p)
    \/ \E b \in Block : AcceptOtherBlock(b)
    \/ \E b \in Own : ProduceBlock(b)

Spec == Init /\ [][Next]_vars

-----------------------------------------------------------------------------
(* Properties                                                              *)

Accounts == {a.from : a \in Offered}
Inners   == {a.inner : a \in Offered}
Targets  == {a.target : a \in Offered}

TypeOK ==
    /\ known \subseteq Block /\ unrequested \subseteq known
    /\ head \in known /\ processing \subseteq Own
    /\ DOMAIN tracking \subseteq Targets
    /\ \A h \in DOMAIN tracking :
           /\ DOMAIN tracking[h].trackers \subseteq Inners
           /\ DOMAIN tracking[h].last \subseteq Accounts
           /\ \A i \in DOMAIN tracking[h].trackers :
                  LET t == tracking[h].trackers[i] IN
                  /\ t.witness \subseteq Accounts /\ t.witness # {}
                  /\ t.approved.this \in Nat /\ t.approved.next \in Nat
    /\ Len(pending) <= Seats
    /\ latest_known \in Nat /\ largest_threshold \in Nat

\* The struct comment on DoomslugApprovalsTrackersAtHeight: exactly one approval is
\* kept per target height and account, "whichever came last".
OneApprovalPerAccount ==
    \A h \in DOMAIN tracking : \A i \in DOMAIN tracking[h].trackers :
        \A account \in tracking[h].trackers[i].witness :
            /\ tracking[h].last[account] = i
            /\ \A j \in DOMAIN tracking[h].trackers \ {i} :
                   account \notin tracking[h].trackers[j].witness

\* The running sums process_approval and withdraw_approval keep are the pledges of
\* the witnesses, whatever was withdrawn, repeated or moved in between.
ApprovedPledgeIsThatOfWitnesses ==
    \A h \in DOMAIN tracking : \A i \in DOMAIN tracking[h].trackers :
        LET t == tracking[h].trackers[i] IN t.approved = Total(t.pledges, t.witness)

\* Approvals are only kept for heights around the tip.
TrackingInHorizon ==
    \A h \in DOMAIN tracking :
        /\ h + MAX_HEIGHTS_BEFORE_TO_STORE_APPROVALS > HeightOf[head]
        /\ h <= HeightOf[head] + MAX_HEIGHTS_AHEAD_TO_STORE_APPROVALS

\* No approval stays in pending_approvals once the block it is for has come unasked:
\* on_block_accepted hands on all of them.
PendingUntilUnrequestedBlock ==
    \A i \in DOMAIN pending : \A a \in pending[i].approvals : Parents(a, unrequested) = {}

\* Whichever block collect_block_approval found, a tracker has the approvers of a parent
\* of its ApprovalInner, and counts no one else; an entry of pending_approvals has only
\* approvals of its own ApprovalInner.
TrackersHaveApprovers ==
    /\ \A h \in DOMAIN tracking : \A i \in DOMAIN tracking[h].trackers :
           LET t == tracking[h].trackers[i] IN
           /\ t.witness \subseteq DOMAIN t.pledges
           /\ \E p \in Block : IsParent(p, i) /\ t.pledges = Pledges[p]
    /\ \A k \in DOMAIN pending : \A a \in pending[k].approvals :
           a \in Offered /\ a.inner = pending[k].inner

\* The trackers, their sums, their window of heights and the cache of pending approvals
\* are consistent after every approval and block, in whatever order they come.
TrackersInvariant ==
    /\ TypeOK
    /\ OneApprovalPerAccount /\ ApprovedPledgeIsThatOfWitnesses
    /\ TrackingInHorizon /\ PendingUntilUnrequestedBlock /\ TrackersHaveApprovers

\* The debug assertion of produce_block_on: every witness taken from the tracker is
\* among the approvers of the parent the block is built on.
WitnessesAreApprovers ==
    \A x \in produced : x.witness \subseteq DOMAIN Pledges[Prev[x.block]]

\* Every block this node builds from its trackers carries enough approvals for the
\* nodes that validate its header (can_approved_block_be_produced), and all of them
\* are of approvers of its parent.
ProducedBlocksAreApproved ==
    /\ WitnessesAreApprovers
    /\ \A x \in produced : CanApprovedBlockBeProduced(x.witness, Pledges[Prev[x.block]])

Counted(a) ==
    /\ a.target \in DOMAIN tracking
    /\ a.inner \in DOMAIN tracking[a.target].trackers
    /\ a.from \in tracking[a.target].trackers[a.inner].witness

Waiting(a) == \E i \in DOMAIN pending : a \in pending[i].approvals

\* No approval is lost on its way to a block.  One that waits for its parent
\* (pending_approvals) counts once the parent is there, unless it is of no use; it is
\* only given up for another of the account on the same parent, or when the cache is
\* full.  One that counts does so until the account sends another for the same
\* height, or the tip leaves the height behind.
ApprovalsAreKept ==
    [][\A a \in Offered :
         /\ Waiting(a) /\ ~Waiting(a)' =>
                \/ Counted(a)'
                \/ a.target \notin MyTargets \/ ~InHorizon(a, head')
                \/ \E p \in Parents(a, known') : a.from \notin DOMAIN Pledges[p]
                \/ \E o \in Offered \ {a} : o.from = a.from /\ o.inner = a.inner /\ Waiting(o)'
                \/ Len(pending) = Seats /\ pending[1].inner = a.inner /\ known' = known
         /\ Counted(a) /\ ~Counted(a)' =>
                \/ \E o \in Offered \ {a} :
                       /\ o.from = a.from /\ o.target = a.target
                       /\ \/ Counted(o)'
                          \/ \E p \in Parents(o, known) : o.from \notin DOMAIN Pledges[p]
                \/ a.target + MAX_HEIGHTS_BEFORE_TO_STORE_APPROVALS <= HeightOf[head']]_vars
=============================================================================
