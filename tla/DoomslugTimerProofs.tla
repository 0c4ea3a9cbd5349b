------------------------ MODULE DoomslugTimerProofs ------------------------
(***************************************************************************)
(* Proofs about DoomslugTimer: its schedule, the approval of its tip, the  *)
(* assertion of process_timer, and that it implements Approver.            *)
(***************************************************************************)
EXTENDS DoomslugTimer, Induction, TLAPS

(* The delays of a range of heights.                                       *)

\* The delay of every height, when the last final height is f.
DelayAt(f) == [h \in Int |-> GetDelay(SaturatingSub(h, f))]

LEMMA GetDelayBound ==
    ASSUME NEW n \in Nat
    PROVE  GetDelay(n) \in Nat /\ GetDelay(n) >= 2 * endorsement_delay
  <1>. DEFINE x == SaturatingSub(n, 2)
  <1>1. x \in Nat
    BY DEF SaturatingSub
  <1>. HIDE DEF x
  <1>2. delay_step \in Nat /\ min_delay \in Nat /\ max_delay \in Nat /\ endorsement_delay \in Nat
    BY DelayAssumption
  <1>3. delay_step * x \in Nat
    BY <1>1, <1>2
  <1>. DEFINE y == delay_step * x
  <1>4. GetDelay(n) = Smaller(max_delay, min_delay + y)
    BY DEF GetDelay, x
  <1>. HIDE DEF y
  <1>5. y \in Nat
    BY <1>3 DEF y
  <1>. QED
    BY <1>2, <1>4, <1>5, DelayAssumption DEF Smaller

LEMMA DelayAtBound ==
    ASSUME NEW f \in Nat, NEW h \in Int
    PROVE  DelayAt(f)[h] \in Nat /\ DelayAt(f)[h] >= 2 * endorsement_delay
  <1>1. h < f \/ h - f \in Nat
    OBVIOUS
  <1>2. SaturatingSub(h, f) \in Nat
    BY <1>1 DEF SaturatingSub
  <1>3. DelayAt(f)[h] = GetDelay(SaturatingSub(h, f))
    BY DEF DelayAt
  <1>. QED
    BY <1>2, <1>3, GetDelayBound

\* The equation of Delays: sum[k] is the sum of the k delays from a height on.
IsDelays(sum, from, f) ==
    sum = [k \in Nat |-> IF k = 0 THEN 0
                         ELSE sum[k - 1] + GetDelay(SaturatingSub(from + k - 1, f))]

LEMMA DelaysUnfold ==
    ASSUME NEW from \in Int, NEW f \in Nat
    PROVE  \E sum \in [Nat -> Int] :
              /\ sum[0] = 0
              /\ \A k \in Nat : sum[k + 1] = sum[k] + DelayAt(f)[from + k]
              /\ \A to \in Int : Delays(from, to, f) = sum[to - from + 1]
  <1>. DEFINE Root == {0}
              rank == [k \in Nat |-> k]
              parent == [k \in Nat \ Root |-> k - 1]
              base == [k \in Root |-> 0]
              step == [x \in Nat \X Int |-> x[2] + DelayAt(f)[from + x[1] - 1]]
  <1>1. /\ rank \in [Nat -> Nat] /\ Root \in SUBSET Nat /\ parent \in [Nat \ Root -> Nat]
        /\ base \in [Root -> Int]
        /\ \A k \in Nat \ Root : rank[parent[k]] < rank[k]
    OBVIOUS
  <1>2. \A k \in Nat, v \in Int :
          /\ <<k, v>> \in Nat \X Int
          /\ step[<<k, v>>] = v + DelayAt(f)[from + k - 1] /\ v + DelayAt(f)[from + k - 1] \in Int
    BY DelayAtBound
  <1>3. step \in [Nat \X Int -> Int]
    BY DelayAtBound
  <1>4. /\ \A k \in Nat \ Root : parent[k] = k - 1 /\ k - 1 \in Nat
        /\ \A k \in Root : base[k] = 0
        /\ \A k \in Nat : k \in Root <=> k = 0
    OBVIOUS
  <1>. HIDE DEF Root, rank, parent, base, step
  <1>5. PICK g \in [Nat -> Int] : \A k \in Nat : Follows(g, k, Root, parent, base, step)
    <2>1. IsRecursion(Nat, Int, rank, Root, parent, base, step)
      BY <1>1, <1>3 DEF IsRecursion
    <2>. QED
      BY <2>1, RecursionExists
  <1>6. \A k \in Nat : /\ k = 0 => g[k] = 0
                       /\ k # 0 => g[k] = g[k - 1] + DelayAt(f)[from + k - 1]
    <2>. TAKE k \in Nat
    <2>1. CASE k \in Root
      BY <1>4, <1>5, <2>1 DEF Follows
    <2>2. CASE k \notin Root
      <3>1. g[k] = step[<<k, g[k - 1]>>] /\ k - 1 \in Nat /\ k # 0
        BY <1>4, <1>5, <2>2 DEF Follows
      <3>2. g[k - 1] \in Int
        BY <1>5, <3>1
      <3>. QED
        BY <1>2, <3>1, <3>2
    <2>. QED
      BY <2>1, <2>2
  <1>7. \A k \in Nat : k # 0 => /\ DelayAt(f)[from + k - 1] = GetDelay(SaturatingSub(from + k - 1, f))
                                /\ DelayAt(f)[from + k - 1] \in Int /\ k - 1 \in Nat
    BY DelayAtBound DEF DelayAt
  <1>8. IsDelays(g, from, f)
    BY <1>5, <1>6, <1>7 DEF IsDelays
  <1>. DEFINE sum == CHOOSE h : IsDelays(h, from, f)
  <1>9. IsDelays(sum, from, f)
    BY <1>8, Zenon
  <1>10. \A to \in Int : Delays(from, to, f) = sum[to - from + 1]
    BY Zenon DEF Delays, IsDelays
  <1>. HIDE DEF sum
  <1>11. /\ sum = [k \in Nat |-> sum[k]] /\ sum[0] = 0
         /\ \A k \in Nat : k # 0 => sum[k] = sum[k - 1] + DelayAt(f)[from + k - 1]
    BY <1>7, <1>9 DEF IsDelays
  <1>12. \A k \in Nat : sum[k + 1] = sum[k] + DelayAt(f)[from + k] /\ DelayAt(f)[from + k] \in Int
    <2>. TAKE k \in Nat
    <2>1. k + 1 \in Nat /\ k + 1 # 0 /\ (k + 1) - 1 = k /\ from + (k + 1) - 1 = from + k
      OBVIOUS
    <2>. QED
      BY <1>7, <1>11, <2>1
  <1>13. \A k \in Nat : sum[k] \in Int
    <2>. DEFINE S == {k \in Nat : sum[k] \in Int}
    <2>1. 0 \in S
      BY <1>11
    <2>2. \A k \in Nat : k \in S => k + 1 \in S
      BY <1>12
    <2>. HIDE DEF S
    <2>3. \A k \in Nat : k \in S
      BY <2>1, <2>2, NaturalInduction
    <2>. QED
      BY <2>3 DEF S
  <1>. QED
    BY <1>10, <1>11, <1>12, <1>13

\* No height has no delay, and the next height adds its own.
LEMMA DelaysGrow ==
    ASSUME NEW from \in Int, NEW f \in Nat
    PROVE  /\ Delays(from, from - 1, f) = 0
           /\ \A to \in Int : to >= from - 1 =>
                /\ Delays(from, to, f) \in Int
                /\ Delays(from, to + 1, f) = DelayAt(f)[to + 1] + Delays(from, to, f)
  <1>1. PICK sum \in [Nat -> Int] :
           /\ sum[0] = 0
           /\ \A k \in Nat : sum[k + 1] = sum[k] + DelayAt(f)[from + k]
           /\ \A to \in Int : Delays(from, to, f) = sum[to - from + 1]
    BY DelaysUnfold
  <1>2. Delays(from, from - 1, f) = 0
    BY <1>1
  <1>3. ASSUME NEW to \in Int, to >= from - 1
        PROVE  /\ Delays(from, to, f) \in Int
               /\ Delays(from, to + 1, f) = DelayAt(f)[to + 1] + Delays(from, to, f)
    <2>. DEFINE k == to - from + 1
    <2>1. k \in Nat /\ (to + 1) - from + 1 = k + 1 /\ from + k = to + 1
      BY <1>3
    <2>2. Delays(from, to, f) = sum[k] /\ Delays(from, to + 1, f) = sum[(to + 1) - from + 1]
      BY <1>1
    <2>. HIDE DEF k
    <2>3. DelayAt(f)[to + 1] \in Int
      BY DelayAtBound
    <2>. QED
      BY <1>1, <2>1, <2>2, <2>3
  <1>. QED
    BY <1>2, <1>3

\* Delays add up, and a height or more takes at least twice the endorsement delay.
LEMMA DelaysSplit ==
    ASSUME NEW from \in Int, NEW mid \in Int, mid >= from - 1, NEW to \in Int, to >= mid,
           NEW f \in Nat
    PROVE  Delays(from, to, f) = Delays(from, mid, f) + Delays(mid + 1, to, f)
  <1>. DEFINE S == {k \in Nat : /\ Delays(from, mid + k, f) \in Int
                                /\ Delays(mid + 1, mid + k, f) \in Int
                                /\ Delays(from, mid + k, f)
                                     = Delays(from, mid, f) + Delays(mid + 1, mid + k, f)}
  <1>1. 0 \in S
    <2>1. mid + 0 = mid /\ (mid + 1) - 1 = mid
      OBVIOUS
    <2>2. Delays(mid + 1, (mid + 1) - 1, f) = 0
      BY DelaysGrow
    <2>3. Delays(from, mid, f) \in Int
      BY DelaysGrow
    <2>. QED
      BY <2>1, <2>2, <2>3
  <1>2. ASSUME NEW k \in Nat, k \in S PROVE k + 1 \in S
    <2>. DEFINE d == DelayAt(f)[(mid + k) + 1]
    <2>1. Delays(from, (mid + k) + 1, f) = d + Delays(from, mid + k, f)
      <3>1. mid + k \in Int /\ mid + k >= from - 1
        OBVIOUS
      <3>. QED
        BY <3>1, DelaysGrow
    <2>2. Delays(mid + 1, (mid + k) + 1, f) = d + Delays(mid + 1, mid + k, f)
      <3>1. mid + k \in Int /\ mid + 1 \in Int /\ mid + k >= (mid + 1) - 1
        OBVIOUS
      <3>. QED
        BY <3>1, DelaysGrow
    <2>3. d \in Int
      BY DelayAtBound
    <2>4. (mid + k) + 1 = mid + (k + 1)
      OBVIOUS
    <2>5. Delays(from, mid, f) \in Int
      BY DelaysGrow
    <2>. HIDE DEF d
    <2>. QED
      BY <1>2, <2>1, <2>2, <2>3, <2>4, <2>5
  <1>. HIDE DEF S
  <1>3. to - mid \in S /\ mid + (to - mid) = to
    BY <1>1, <1>2, NaturalInduction
  <1>. QED
    BY <1>3 DEF S

LEMMA DelaysBound ==
    ASSUME NEW from \in Int, NEW to \in Int, to >= from - 1, NEW f \in Nat
    PROVE  /\ Delays(from, to, f) \in Nat
           /\ to >= from => Delays(from, to, f) >= 2 * endorsement_delay
  <1>. DEFINE S == {k \in Nat :
                     /\ Delays(from, from + k - 1, f) \in Nat
                     /\ k > 0 => Delays(from, from + k - 1, f) >= 2 * endorsement_delay}
  <1>0. endorsement_delay \in Nat
    BY DelayAssumption
  <1>1. 0 \in S
    <2>1. from + 0 - 1 = from - 1
      OBVIOUS
    <2>. QED
      BY <2>1, DelaysGrow
  <1>2. ASSUME NEW k \in Nat, k \in S PROVE k + 1 \in S
    <2>. DEFINE last == from + k - 1
                d == DelayAt(f)[last + 1]
    <2>1. last \in Int /\ last >= from - 1 /\ from + (k + 1) - 1 = last + 1
      OBVIOUS
    <2>2. Delays(from, last, f) \in Nat
      BY <1>2
    <2>. HIDE DEF last
    <2>3. Delays(from, last + 1, f) = d + Delays(from, last, f)
      BY <2>1, DelaysGrow
    <2>4. d \in Nat /\ d >= 2 * endorsement_delay
      BY <2>1, DelayAtBound
    <2>. HIDE DEF d
    <2>5. Delays(from, last + 1, f) \in Nat /\ Delays(from, last + 1, f) >= 2 * endorsement_delay
      BY <1>0, <2>2, <2>3, <2>4
    <2>. QED
      BY <2>1, <2>5
  <1>. HIDE DEF S
  <1>. DEFINE n == to - from + 1
  <1>3. n \in Nat /\ from + n - 1 = to /\ (to >= from => n > 0)
    OBVIOUS
  <1>. HIDE DEF n
  <1>4. n \in S
    BY <1>1, <1>2, <1>3, NaturalInduction
  <1>. QED
    BY <1>3, <1>4 DEF S

\* The loop of process_timer never takes the start of the timer past the present.
LEMMA SkipsAreDue ==
    ASSUME timer_height \in Nat, final \in Nat, started \in Nat
    PROVE  Skips \in 0 .. MAX_TIMER_ITERS /\ SkipTime(Skips) <= started
  <1>. DEFINE S == {k \in 0 .. MAX_TIMER_ITERS : SkipTime(k) <= started}
  <1>1. MAX_TIMER_ITERS \in Nat
    BY DelayAssumption
  <1>2. 0 \in S
    <2>1. timer_height + 0 - 1 = timer_height - 1
      OBVIOUS
    <2>2. SkipTime(0) = 0
      BY <2>1, DelaysGrow DEF SkipTime
    <2>. QED
      BY <1>1, <2>2
  <1>3. S \in SUBSET Nat /\ \A k \in S : k <= MAX_TIMER_ITERS
    BY <1>1
  <1>4. Skips = Max(S)
    BY DEF Skips
  <1>5. S \subseteq 0 .. MAX_TIMER_ITERS /\ \A k \in S : SkipTime(k) <= started
    OBVIOUS
  <1>. HIDE DEF S
  <1>6. \E k \in S : \A j \in S : k >= j
    BY <1>1, <1>2, <1>3, GreatestNatural
  <1>7. Max(S) \in S
    BY <1>6, Zenon DEF Max
  <1>. QED
    BY <1>4, <1>5, <1>7

-----------------------------------------------------------------------------
(* The invariant of the timer.                                             *)

LEMMA ConstantsTyped ==
    /\ endorsement_delay \in Nat /\ endorsement_delay > 0 /\ MAX_TIMER_ITERS \in Nat
    /\ MaxHeight \in Nat /\ MaxLate \in Nat /\ MaxRestarts \in Nat
  BY DelayAssumption

LEMMA TickKeeps ==
    ASSUME TimerInductive, Tick
    PROVE  TimerInductive'
  <1>. USE ConstantsTyped DEF TimerInductive, Tick, chain
  <1>1. TypeOK'
    BY DEF TypeOK, Smaller
  <1>2. TimerKeepsSchedule'
    <2>. DEFINE d == Delays(tip + 1, timer_height - 1, final)
    <2>1. d' = d
      OBVIOUS
    <2>2. set => d \in Int
      <3>1. ASSUME set PROVE timer_height - 1 \in Int /\ timer_height - 1 >= (tip + 1) - 1
        BY <3>1 DEF TimerFollowsTip, TypeOK
      <3>. QED
        BY <3>1, DelaysGrow DEF TypeOK
    <2>. HIDE DEF d
    <2>. QED
      BY <2>1, <2>2 DEF TimerKeepsSchedule, d, TypeOK
  <1>3. TipApproved'
    BY DEF TipApproved
  <1>4. TimerFollowsTip'
    BY DEF TimerFollowsTip, TypeOK, Smaller
  <1>. QED
    BY <1>1, <1>2, <1>3, <1>4

\* A new tip starts its schedule.
LEMMA NewTipKeepsSchedule ==
    ASSUME NEW h \in Nat, NEW f \in Nat,
           tip' = h, timer_height' = h + 1, final' = f, started' = 0, tip_set' = 0
    PROVE  TimerKeepsSchedule'
  <1>1. Delays(h + 1, (h + 1) - 1, f) = 0
    BY DelaysGrow
  <1>. QED
    BY <1>1 DEF TimerKeepsSchedule

LEMMA AcceptHeadKeeps ==
    ASSUME TimerInductive, NEW h \in 1 .. MaxHeight, NEW f \in 0 .. MaxHeight, AcceptHead(h, f)
    PROVE  TimerInductive'
  <1>. USE ConstantsTyped DEF TimerInductive, AcceptHead, SetTip
  <1>1. TypeOK'
    BY DEF TypeOK
  <1>2. TimerKeepsSchedule'
    BY NewTipKeepsSchedule
  <1>3. TipApproved'
    BY DEF TipApproved
  <1>4. TimerFollowsTip'
    BY DEF TimerFollowsTip, TypeOK, Smaller
  <1>. QED
    BY <1>1, <1>2, <1>3, <1>4

LEMMA FirstTimerKeeps ==
    ASSUME TimerInductive, FirstTimer
    PROVE  TimerInductive'
  <1>. USE ConstantsTyped DEF TimerInductive, FirstTimer, chain
  <1>1. TypeOK'
    BY DEF TypeOK
  <1>2. TimerKeepsSchedule'
    BY NewTipKeepsSchedule DEF TypeOK
  <1>3. TipApproved'
    <2>1. CASE endorsed >= endorsement_delay
      <3>1. tip' = head /\ target' = (IF head >= target THEN head + 1 ELSE target)
        BY <2>1
      <3>. QED
        BY <3>1 DEF TipApproved, TypeOK
    <2>2. CASE ~(endorsed >= endorsement_delay)
      BY <2>2 DEF TipApproved
    <2>. QED
      BY <2>1, <2>2
  <1>4. TimerFollowsTip'
    BY DEF TimerFollowsTip, TypeOK, Smaller
  <1>. QED
    BY <1>1, <1>2, <1>3, <1>4

LEMMA RestartKeeps ==
    ASSUME TimerInductive, Restart
    PROVE  TimerInductive'
  <1>. USE ConstantsTyped DEF TimerInductive, Restart, chain
  <1>1. TypeOK'
    <2>1. set' \in BOOLEAN /\ pending' \in BOOLEAN /\ skipped_pending' \in BOOLEAN
      BY Zenon DEF TypeOK
    <2>2. restarts' \in 0 .. MaxRestarts
      BY DEF TypeOK
    <2>. QED
      BY <2>1, <2>2 DEF TypeOK
  <1>2. TimerKeepsSchedule' /\ TipApproved' /\ TimerFollowsTip'
    BY DEF TimerKeepsSchedule, TipApproved, TimerFollowsTip
  <1>. QED
    BY <1>1, <1>2

\* What process_timer does to the clock, the target and the pending endorsement.
LEMMA ProcessTimerFacts ==
    ASSUME TimerInductive, ProcessTimer
    PROVE  /\ Skips \in Nat
           /\ started' \in Nat /\ started' <= started
           /\ Skips > 0 => started >= 2 * endorsement_delay
           /\ NewTarget \in Nat /\ NewTarget >= target
           /\ Endorses => NewTarget > tip
           /\ Skips > 0 => NewTarget >= timer_height + Skips
           /\ \A a \in Approvals : /\ a.parent = tip
                                   /\ a.target \in Nat /\ a.target > tip /\ a.target <= NewTarget
                                   /\ a.target = tip + 1 => Endorses
  <1>. USE ConstantsTyped DEF TimerInductive
  <1>1. timer_height \in Nat /\ final \in Nat /\ started \in Nat /\ tip \in Nat /\ target \in Nat
    BY DEF TypeOK
  <1>2. Skips \in 0 .. MAX_TIMER_ITERS /\ SkipTime(Skips) <= started
    BY <1>1, SkipsAreDue
  <1>3. Skips \in Nat
    BY <1>2
  <1>4. SkipTime(Skips) \in Nat /\ (Skips > 0 => SkipTime(Skips) >= 2 * endorsement_delay)
    <2>. DEFINE to == timer_height + Skips - 1
    <2>1. to \in Int /\ to >= timer_height - 1 /\ (Skips > 0 => to >= timer_height)
      BY <1>1, <1>3
    <2>2. SkipTime(Skips) = Delays(timer_height, to, final)
      BY DEF SkipTime
    <2>. HIDE DEF to
    <2>. QED
      BY <1>1, <2>1, <2>2, DelaysBound
  <1>5. started' = started - SkipTime(Skips)
    BY DEF ProcessTimer, RestartedTimer
  <1>6. timer_height > tip
    BY DEF ProcessTimer, TimerFollowsTip
  <1>7. /\ NewTarget \in Nat /\ NewTarget >= target
        /\ Endorses => NewTarget > tip
        /\ Skips > 0 => NewTarget >= timer_height + Skips
    BY <1>1, <1>3 DEF NewTarget, Larger, Endorses
  <1>8. ASSUME NEW a \in Approvals
        PROVE  /\ a.parent = tip
               /\ a.target \in Nat /\ a.target > tip /\ a.target <= NewTarget
               /\ a.target = tip + 1 => Endorses
    <2>1. CASE Endorses /\ a = [parent |-> tip, target |-> tip + 1]
      BY <1>1, <1>7, <2>1
    <2>2. CASE \E k \in 1 .. Skips : a = [parent |-> tip, target |-> timer_height + k]
      BY <1>1, <1>3, <1>6, <1>7, <2>2
    <2>. QED
      BY <2>1, <2>2 DEF Approvals
  <1>. QED
    BY <1>1, <1>2, <1>3, <1>4, <1>5, <1>7, <1>8

LEMMA ProcessTimerKeeps ==
    ASSUME TimerInductive, ProcessTimer
    PROVE  TimerInductive'
  <1>. USE ConstantsTyped DEF TimerInductive
  <1>1. /\ Skips \in Nat /\ started' \in Nat /\ started' <= started
        /\ Skips > 0 => started >= 2 * endorsement_delay
        /\ NewTarget \in Nat /\ NewTarget >= target
        /\ Endorses => NewTarget > tip
        /\ \A a \in Approvals : a.parent = tip /\ a.target \in Nat
    BY ProcessTimerFacts
  <1>2. TypeOK'
    BY <1>1 DEF ProcessTimer, TypeOK, chain
  <1>3. TimerKeepsSchedule'
    <2>1. /\ tip \in Nat /\ timer_height \in Nat /\ final \in Nat /\ timer_height > tip
          /\ started \in Nat /\ tip' = tip /\ final' = final /\ set /\ tip_set' = tip_set
          /\ timer_height' = timer_height + Skips
          /\ started' = started - SkipTime(Skips)
      BY DEF ProcessTimer, TypeOK, TimerFollowsTip, RestartedTimer
    <2>. DEFINE from == tip + 1
                mid == timer_height - 1
                to == timer_height + Skips - 1
    <2>2. /\ from \in Int /\ mid \in Int /\ to \in Int
          /\ mid >= from - 1 /\ to >= mid /\ timer_height = mid + 1 /\ to = timer_height' - 1
      BY <1>1, <2>1
    <2>3. SkipTime(Skips) = Delays(timer_height, to, final)
      BY DEF SkipTime
    <2>4. tip_set = started + Delays(from, mid, final)
      BY <2>1 DEF TimerKeepsSchedule
    <2>5. timer_height \in Int /\ to >= timer_height - 1
      BY <1>1, <2>1
    <2>. HIDE DEF from, mid, to
    <2>6. Delays(from, to, final) = Delays(from, mid, final) + Delays(mid + 1, to, final)
      BY <2>1, <2>2, DelaysSplit
    <2>7. Delays(timer_height, to, final) \in Int /\ Delays(from, mid, final) \in Int
      <3>1. Delays(timer_height, to, final) \in Int
        BY <2>1, <2>2, <2>5, DelaysBound
      <3>2. Delays(from, mid, final) \in Int
        BY <2>1, <2>2, DelaysBound
      <3>. QED
        BY <3>1, <3>2
    <2>8. tip_set' = started' + Delays(from, to, final)
      BY <2>1, <2>2, <2>6, <2>3, <2>7, <2>4
    <2>. QED
      BY <2>1, <2>2, <2>8 DEF TimerKeepsSchedule, from
  <1>4. TipApproved'
    BY <1>1 DEF ProcessTimer, TipApproved, TypeOK, Endorses
  <1>5. TimerFollowsTip'
    <2>1. disk_target' = target'
      BY DEF ProcessTimer
    <2>2. tip' = head' /\ timer_height' > tip'
      BY <1>1 DEF ProcessTimer, TimerFollowsTip, TypeOK, chain
    <2>3. ASSUME pending' PROVE endorsed' >= Smaller(started', endorsement_delay)
      <3>1. pending /\ ~EndorsementDue
        BY <2>3 DEF ProcessTimer
      <3>2. endorsed' = endorsed /\ endorsed >= Smaller(started, endorsement_delay)
        BY <3>1 DEF ProcessTimer, TimerFollowsTip
      <3>. QED
        BY <1>1, <3>2 DEF TypeOK, Smaller
    <2>. QED
      BY <2>1, <2>2, <2>3 DEF TimerFollowsTip
  <1>. QED
    BY <1>2, <1>3, <1>4, <1>5

\* The schedule of the skips, the approval of the tip and what they rest on are kept by
\* every call of set_tip and process_timer and by every restart.
THEOREM TimerInductiveHolds == Spec => []TimerInductive
  <1>1. Init => TimerInductive
    <2>. SUFFICES ASSUME Init PROVE TimerInductive
      OBVIOUS
    <2>1. set \in BOOLEAN /\ pending \in BOOLEAN /\ skipped_pending \in BOOLEAN
      BY Zenon DEF Init
    <2>2. TypeOK
      BY <2>1, ConstantsTyped DEF Init, TypeOK
    <2>3. TimerKeepsSchedule /\ TipApproved /\ TimerFollowsTip
      BY DEF Init, TimerKeepsSchedule, TipApproved, TimerFollowsTip
    <2>. QED
      BY <2>2, <2>3 DEF TimerInductive
  <1>2. TimerInductive /\ [Next]_vars => TimerInductive'
    <2>. SUFFICES ASSUME TimerInductive, [Next]_vars PROVE TimerInductive'
      OBVIOUS
    <2>1. CASE Tick
      BY <2>1, TickKeeps
    <2>2. ASSUME NEW h \in 1 .. MaxHeight, NEW f \in 0 .. MaxHeight, AcceptHead(h, f)
          PROVE  TimerInductive'
      BY <2>2, AcceptHeadKeeps
    <2>3. CASE ProcessTimer
      BY <2>3, ProcessTimerKeeps
    <2>4. CASE FirstTimer
      BY <2>4, FirstTimerKeeps
    <2>5. CASE Restart
      BY <2>5, RestartKeeps
    <2>6. CASE UNCHANGED vars
      BY <2>6 DEF vars, chain, clock, TimerInductive, TypeOK, TimerKeepsSchedule,
                  TipApproved, TimerFollowsTip
    <2>. QED
      BY <2>1, <2>2, <2>3, <2>4, <2>5, <2>6 DEF Next
  <1>. QED
    BY <1>1, <1>2, PTL DEF Spec

\* The schedule of the skips and the approval of the tip (process_timer) hold for every
\* configuration of the delays and every order of the calls.
THEOREM TimerInvariantHolds == Spec => []TimerInvariant
  <1>1. TimerInductive => TimerInvariant
    BY DEF TimerInductive, TimerInvariant
  <1>. QED
    BY <1>1, TimerInductiveHolds, PTL

\* The debug assertion of process_timer before a skip never fails, for all delays the
\* configuration may have: a skip is due only once the endorsement is overdue.
THEOREM NoSkipWithPendingEndorsementHolds == Spec => []NoSkipWithPendingEndorsement
  <1>1. Init => NoSkipWithPendingEndorsement
    BY DEF Init, NoSkipWithPendingEndorsement
  <1>2. TimerInductive /\ NoSkipWithPendingEndorsement /\ [Next]_vars
          => NoSkipWithPendingEndorsement'
    <2>. SUFFICES ASSUME TimerInductive, NoSkipWithPendingEndorsement, [Next]_vars
                  PROVE  NoSkipWithPendingEndorsement'
      OBVIOUS
    <2>1. CASE ProcessTimer
      <3>. SUFFICES ASSUME Skips > 0, pending, ~EndorsementDue PROVE FALSE
        BY <2>1 DEF NoSkipWithPendingEndorsement, ProcessTimer
      <3>1. started >= 2 * endorsement_delay
        BY <2>1, ProcessTimerFacts
      <3>2. endorsed >= Smaller(started, endorsement_delay) /\ endorsed < endorsement_delay
        BY <2>1, ConstantsTyped
           DEF ProcessTimer, TimerInductive, TimerFollowsTip, TypeOK, EndorsementDue
      <3>. QED
        BY <3>1, <3>2, ConstantsTyped DEF TimerInductive, TypeOK, Smaller
    <2>2. CASE ~ProcessTimer
      BY <2>2 DEF Next, Tick, AcceptHead, FirstTimer, Restart, vars,
                  NoSkipWithPendingEndorsement
    <2>. QED
      BY <2>1, <2>2
  <1>. QED
    BY <1>1, <1>2, TimerInductiveHolds, PTL DEF Spec

\* The timer implements Approver: every approval it issues, however late it is called
\* and across restarts, keeps the promise of the validator.
THEOREM TimerKeepsPromise == Spec => KeepsPromise
  <1>1. Init => A!AInit
    BY DEF Init, A!AInit
  <1>2. TimerInductive /\ [Next]_vars => [A!ANext]_<<head, disk_target, issued>>
    <2>. SUFFICES ASSUME TimerInductive, [Next]_vars
                  PROVE  A!ANext \/ UNCHANGED <<head, disk_target, issued>>
      OBVIOUS
    <2>. USE ConstantsTyped
    <2>1. CASE Tick
      BY <2>1 DEF Tick, chain
    <2>2. ASSUME NEW h \in 1 .. MaxHeight, NEW f \in 0 .. MaxHeight, AcceptHead(h, f)
          PROVE  A!RaiseHead
      BY <2>2 DEF AcceptHead, A!RaiseHead
    <2>3. CASE ProcessTimer
      <3>1. /\ NewTarget \in Nat /\ NewTarget >= target
            /\ \A a \in Approvals : /\ a.parent = tip /\ a.target \in Nat
                                    /\ a.target > tip /\ a.target <= NewTarget
                                    /\ a.target = tip + 1 => Endorses
        BY <2>3, ProcessTimerFacts
      <3>2. /\ tip = head /\ head' = head /\ target = disk_target /\ disk_target' = NewTarget
            /\ issued' = issued \cup Approvals
        BY <2>3 DEF ProcessTimer, chain, TimerInductive, TimerFollowsTip
      <3>3. Endorses => disk_target <= head
        BY <3>2 DEF Endorses, TimerInductive, TypeOK
      <3>4. ASSUME NEW a \in issued' \ issued
            PROVE  /\ a.parent = head /\ a.target > head /\ a.target <= disk_target'
                   /\ A!IsEndorsement(a) => disk_target <= head
        <4>1. a \in Approvals
          BY <3>2
        <4>2. a.parent = head /\ a.target > head /\ a.target <= disk_target'
          <5>1. a.parent = tip /\ a.target > tip /\ a.target <= NewTarget
            BY <3>1, <4>1
          <5>. QED
            BY <3>2, <5>1
        <4>3. A!IsEndorsement(a) => Endorses
          BY <3>1, <3>2, <4>1, <4>2, Zenon DEF A!IsEndorsement
        <4>. QED
          BY <3>3, <4>2, <4>3
      <3>. QED
        BY <3>1, <3>2, <3>4, Zenon DEF A!ANext, A!Approve
    <2>4. CASE FirstTimer
      <3>. DEFINE endorses == endorsed >= endorsement_delay /\ head >= target
      <3>1. /\ disk_target = target /\ head' = head
            /\ disk_target' = IF endorses THEN head + 1 ELSE target
            /\ issued' = IF endorses
                         THEN issued \cup {[parent |-> head, target |-> head + 1]}
                         ELSE issued
        BY <2>4 DEF FirstTimer, chain, TimerInductive, TimerFollowsTip
      <3>. HIDE DEF endorses
      <3>2. head \in Nat /\ target \in Nat /\ (endorses => head >= target)
        BY DEF TimerInductive, TypeOK, endorses
      <3>3. CASE endorses
        BY <3>1, <3>2, <3>3 DEF A!ANext, A!Approve, A!IsEndorsement
      <3>4. CASE ~endorses
        BY <3>1, <3>4
      <3>. QED
        BY <3>3, <3>4
    <2>5. CASE Restart
      BY <2>5 DEF Restart, chain
    <2>6. CASE UNCHANGED vars
      BY <2>6 DEF vars, chain
    <2>. QED
      BY <2>1, <2>2, <2>3, <2>4, <2>5, <2>6 DEF Next, A!ANext
  <1>. QED
    BY <1>1, <1>2, TimerInductiveHolds, PTL DEF Spec, KeepsPromise, A!ASpec
=============================================================================
