---------------------------- MODULE DoomslugTimer ----------------------------
(***************************************************************************)
(* The clock of one validator's Doomslug (chain/chain/src/doomslug.rs):    *)
(* set_tip, process_timer with its bounded loop, and their callers         *)
(* try_doomslug_timer (chain/client/src/client_actor.rs) and               *)
(* check_and_update_doomslug_tip (chain/client/src/client.rs).             *)
(*                                                                         *)
(* An Instant is kept as the time that has passed since it.                *)
(***************************************************************************)
EXTENDS Integers, FiniteSetsExt

CONSTANTS
    endorsement_delay, min_delay, delay_step, max_delay,
    MAX_TIMER_ITERS,
    MaxHeight,       \* bound on the heights of the model
    MaxLate,         \* bound: the timer is called before its start is older than this
    MaxRestarts      \* bound on the restarts of the process

\* The debug assertion at the top of the loop of process_timer: the configured
\* delays are at least twice the endorsement delay.
ASSUME DelayAssumption ==
    /\ {endorsement_delay, min_delay, delay_step, max_delay, MAX_TIMER_ITERS} \subseteq Nat
    /\ {MaxHeight, MaxLate, MaxRestarts} \subseteq Nat
    /\ min_delay >= 2 * endorsement_delay /\ max_delay >= 2 * endorsement_delay
    /\ endorsement_delay > 0 /\ MAX_TIMER_ITERS > 0

VARIABLES
    head,            \* height of the chain's head
    head_final,      \* height of the last final block of the head
    disk_target,     \* LARGEST_TARGET_HEIGHT_KEY
    set,             \* Doomslug::tip.block_hash is that of a block
    tip,             \* Doomslug::tip.height
    final,           \* Doomslug::largest_final_height
    pending,         \* Doomslug::endorsement_pending
    target,          \* Doomslug::largest_target_height
    timer_height,    \* timer.height
    started,         \* time since timer.started
    endorsed,        \* time since timer.last_endorsement_sent, up to endorsement_delay
    issued,          \* approvals handed to send_approval, by parent and target height
    restarts,
    tip_set,         \* history: time since set_tip was last called
    skipped_pending  \* history: a skip was sent with the endorsement still pending

chain == <<head, head_final>>
clock == <<started, endorsed, tip_set>>
vars  == <<chain, disk_target, set, tip, final, pending, target, timer_height, clock,
           issued, restarts, skipped_pending>>

Smaller(a, b) == IF a < b THEN a ELSE b
Larger(a, b)  == IF a < b THEN b ELSE a
SaturatingSub(a, b) == IF a < b THEN 0 ELSE a - b

\* DoomslugTimer::get_delay.
GetDelay(n) == Smaller(max_delay, min_delay + delay_step * SaturatingSub(n, 2))

\* The delays of the heights from .. to, when the last final height is f.
Delays(from, to, f) ==
    LET sum[k \in Nat] ==
            IF k = 0 THEN 0 ELSE sum[k - 1] + GetDelay(SaturatingSub(from + k - 1, f))
    IN  sum[to - from + 1]

-----------------------------------------------------------------------------

\* Doomslug::new.
Init ==
    /\ head = 0 /\ head_final = 0 /\ disk_target = 0
    /\ set = FALSE /\ tip = 0 /\ final = 0 /\ pending = FALSE /\ target = 0
    /\ timer_height = 0 /\ started = 0 /\ endorsed = 0
    /\ issued = {}
    /\ restarts = 0
    /\ tip_set = 0 /\ skipped_pending = FALSE

Tick ==
    /\ started < MaxLate
    /\ started' = started + 1
    /\ endorsed' = Smaller(endorsed + 1, endorsement_delay)
    /\ tip_set' = tip_set + 1
    /\ UNCHANGED <<chain, disk_target, set, tip, final, pending, target, timer_height,
                   issued, restarts, skipped_pending>>

\* Doomslug::set_tip.
SetTip(height, last_final_height) ==
    /\ set' = TRUE
    /\ tip' = height
    /\ final' = last_final_height
    /\ timer_height' = height + 1
    /\ started' = 0
    /\ pending' = TRUE
    /\ tip_set' = 0
    /\ UNCHANGED <<endorsed, target>>

\* on_block_accepted with a new head: check_and_update_doomslug_tip sets the tip.
\* The last final block of a head is two blocks below it or more.
AcceptHead(height, last_final_height) ==
    /\ height > head
    /\ last_final_height <= SaturatingSub(height, 2)
    /\ head' = height
    /\ head_final' = last_final_height
    /\ SetTip(height, last_final_height)
    /\ UNCHANGED <<disk_target, issued, restarts, skipped_pending>>

-----------------------------------------------------------------------------
(* process_timer.  The time does not change in its loop, so an endorsement *)
(* can only be due in the first iteration and the skips that are due are   *)
(* those of the next few heights.                                          *)

\* Mutant: waits for more than the delay.
EndorsementOverdue == pending /\ endorsed > endorsement_delay

EndorsementDue == pending /\ endorsed >= endorsement_delay

Endorses == EndorsementDue /\ tip >= target

SkipTime(k) == Delays(timer_height, timer_height + k - 1, final)

\* Mutant: skips the first height only.
SkipsOnce == IF timer_height = tip + 1 /\ SkipTime(1) <= started THEN 1 ELSE 0

\* How many iterations of the loop send a skip.
Skips == Max({k \in 0 .. MAX_TIMER_ITERS : SkipTime(k) <= started})

Approvals ==
    (IF Endorses THEN {[parent |-> tip, target |-> tip + 1]} ELSE {})
        \cup {[parent |-> tip, target |-> timer_height + k] : k \in 1 .. Skips}

NewTarget ==
    LET t == IF Endorses THEN tip + 1 ELSE target
    IN  IF Skips > 0 THEN Larger(timer_height + Skips, t) ELSE t

\* Mutant: the timer starts again at the time of the call.
RestartedNow == IF Skips > 0 THEN 0 ELSE started

\* timer.started += skip_delay.
RestartedTimer == started - SkipTime(Skips)

\* try_doomslug_timer when the tip is the head: the timer runs, the target is
\* saved and the approvals are sent.
ProcessTimer ==
    /\ set /\ tip = head
    /\ timer_height <= MaxHeight
    /\ EndorsementDue \/ Skips > 0
    /\ issued' = issued \cup Approvals
    /\ target' = NewTarget
    /\ disk_target' = NewTarget
    /\ pending' = (pending /\ ~EndorsementDue)
    /\ endorsed' = IF EndorsementDue THEN 0 ELSE endorsed
    /\ started' = RestartedTimer
    /\ timer_height' = timer_height + Skips
    /\ skipped_pending' = (skipped_pending \/ (Skips > 0 /\ pending /\ ~EndorsementDue))
    /\ UNCHANGED <<chain, set, tip, final, tip_set, restarts>>

\* try_doomslug_timer after a restart: the tip is set first, which starts the timer,
\* so of its approvals only the endorsement can be due.
FirstTimer ==
    /\ ~set
    /\ LET due == endorsed >= endorsement_delay
           endorses == due /\ head >= target
       IN  /\ set' = TRUE /\ tip' = head /\ final' = head_final
           /\ timer_height' = head + 1
           /\ started' = 0 /\ tip_set' = 0
           /\ pending' = ~due
           /\ endorsed' = IF due THEN 0 ELSE endorsed
           /\ target' = IF endorses THEN head + 1 ELSE target
           /\ disk_target' = target'
           /\ issued' = IF endorses
                        THEN issued \cup {[parent |-> head, target |-> head + 1]}
                        ELSE issued
    /\ UNCHANGED <<chain, restarts, skipped_pending>>

\* Mutant: starts again with a target height of zero.
RestartForgets ==
    /\ restarts < MaxRestarts
    /\ restarts' = restarts + 1
    /\ set' = FALSE /\ tip' = 0 /\ final' = 0 /\ pending' = FALSE
    /\ target' = 0
    /\ timer_height' = 0 /\ started' = 0 /\ endorsed' = 0 /\ tip_set' = 0
    /\ UNCHANGED <<chain, disk_target, issued, skipped_pending>>

\* The process starts again, Doomslug::new with the target on the disk.
Restart ==
    /\ restarts < MaxRestarts
    /\ restarts' = restarts + 1
    /\ set' = FALSE /\ tip' = 0 /\ final' = 0 /\ pending' = FALSE
    /\ target' = disk_target
    /\ timer_height' = 0 /\ started' = 0 /\ endorsed' = 0 /\ tip_set' = 0
    /\ UNCHANGED <<chain, disk_target, issued, skipped_pending>>

Next ==
    \/ Tick
    \/ \E h \in 1 .. MaxHeight, f \in 0 .. MaxHeight : AcceptHead(h, f)
    \/ ProcessTimer
    \/ FirstTimer
    \/ Restart

\* The clock runs, and the triggers of the actor keep calling the timer.
Fairness == WF_vars(Tick) /\ WF_vars(ProcessTimer) /\ WF_vars(FirstTimer)

Spec == Init /\ [][Next]_vars /\ Fairness

-----------------------------------------------------------------------------
(* Properties                                                              *)

TypeOK ==
    /\ head \in 0 .. MaxHeight /\ head_final \in 0 .. MaxHeight
    /\ disk_target \in Nat /\ target \in Nat /\ timer_height \in Nat
    /\ set \in BOOLEAN /\ tip \in 0 .. MaxHeight /\ final \in 0 .. MaxHeight
    /\ pending \in BOOLEAN /\ skipped_pending \in BOOLEAN
    /\ started \in 0 .. MaxLate /\ endorsed \in 0 .. endorsement_delay /\ tip_set \in Nat
    /\ \A a \in issued : a.parent \in 0 .. MaxHeight /\ a.target \in Nat
    /\ restarts \in 0 .. MaxRestarts

\* The debug assertion of process_timer before a skip: by then the endorsement of
\* the tip has gone out, however late the timer is called.
NoSkipWithPendingEndorsement == ~skipped_pending

\* However late and however rarely process_timer runs, and with its loop cut off
\* after MAX_TIMER_ITERS, the skips keep to the schedule set_tip starts: the timer
\* of a height began when the delays of all the heights below it had passed.
TimerKeepsSchedule ==
    set => tip_set = started + Delays(tip + 1, timer_height - 1, final)

\* Once no endorsement is pending, the height above the tip has been approved: the
\* tip itself is endorsed or a higher height was approved before.
TipApproved == set /\ ~pending => target > tip

\* Between two calls the target on the disk is the one in memory, the timer is ahead
\* of the tip, which is the head, and an endorsement that is pending has waited as
\* long as the timer has run.
TimerFollowsTip ==
    /\ disk_target = target
    /\ set => tip = head /\ timer_height > tip
    /\ set /\ pending => endorsed >= Smaller(started, endorsement_delay)

\* The schedule of the skips and the approval of the tip hold in all states of the timer.
TimerInvariant == TypeOK /\ TimerKeepsSchedule /\ TipApproved

\* TimerInvariant with what makes it inductive.
TimerInductive == TypeOK /\ TimerKeepsSchedule /\ TipApproved /\ TimerFollowsTip

\* The approvals keep the validator's promise, across restarts.
A == INSTANCE Approver WITH target <- disk_target
KeepsPromise == A!ASpec

\* When no block comes, the validator goes on to skip one height after the other.
EveryHeightIsReached == <>(timer_height > MaxHeight)
=============================================================================
