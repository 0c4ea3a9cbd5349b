---------------------- MODULE DoomslugConsensusProofs ----------------------
(***************************************************************************)
(* Type correctness and finality of DoomslugConsensus, for any set of      *)
(* validators whose quorums pairwise share an honest member.               *)
(***************************************************************************)
EXTENDS DoomslugConsensus, Induction, TLAPS

USE DEF Block

-----------------------------------------------------------------------------
(* Headers are never changed once published                                *)

LEMMA PublishExtends ==
    ASSUME NEW b, NEW p, NEW h, Publish(b, p, h)
    PROVE  /\ Block' = Block \cup {b}
           /\ b \notin Block /\ b # NoHash
           /\ \A x \in Block : hdr'[x] = hdr[x]
           /\ hdr'[b] = NewHeader(p, h)
  BY DEF Publish

LEMMA NewHeaderFields ==
    ASSUME NEW p, NEW h
    PROVE  /\ NewHeader(p, h).prev = p /\ NewHeader(p, h).height = h
           /\ NewHeader(p, h).last_final = LastFinal(p, h)
  BY DEF NewHeader

LEMMA NewHeaderType ==
    ASSUME TypeOK, NEW p \in Block, NEW h \in Nat
    PROVE  NewHeader(p, h) \in [prev : Block \cup {NoHash}, height : Nat,
                                last_ds_final : Block \cup {NoHash},
                                last_final : Block \cup {NoHash}]
  BY DEF TypeOK, NewHeader, LastDsFinal, LastFinal, Height

LEMMA PublishType ==
    ASSUME TypeOK, NEW b, NEW p \in Block, NEW h \in Nat, Publish(b, p, h)
    PROVE  /\ hdr' \in [Block' -> [prev : Block' \cup {NoHash}, height : Nat,
                                   last_ds_final : Block' \cup {NoHash},
                                   last_final : Block' \cup {NoHash}]]
           /\ Genesis \in Block' /\ NoHash \notin Block'
           /\ Block \subseteq Block'
  <1>1. NewHeader(p, h) \in [prev : Block \cup {NoHash}, height : Nat,
                             last_ds_final : Block \cup {NoHash},
                             last_final : Block \cup {NoHash}]
    BY NewHeaderType
  <1>2. hdr' = [x \in Block \cup {b} |-> IF x = b THEN NewHeader(p, h) ELSE hdr[x]]
        /\ b # NoHash
    BY DEF Publish
  <1>3. Block' = Block \cup {b}
    BY <1>2
  <1>. QED
    BY <1>1, <1>2, <1>3 DEF TypeOK

LEMMA ApprovalHasType ==
    ASSUME TypeOK, NEW n \in Honest, NEW p \in Block, NEW h \in Nat, NEW t \in Nat
    PROVE  Approval(n, p, h, t) \in ApprovalType
  BY DEF Approval, ApprovalInner, ApprovalType

-----------------------------------------------------------------------------

\* Every variable keeps its type in every step of any number of validators.
THEOREM TypeCorrect == Spec => []TypeOK
  <1>1. Init => TypeOK
    BY HeightAssumption DEF Init, TypeOK, ApprovalType
  <1>2. TypeOK /\ [Next]_vars => TypeOK'
    <2>. SUFFICES ASSUME TypeOK, [Next]_vars PROVE TypeOK'
      OBVIOUS
    <2>1. ASSUME NEW n \in Honest, UpdateTip(n) PROVE TypeOK'
      BY <2>1 DEF TypeOK, ApprovalType, UpdateTip, SetTip, chain, FinalHeight, Height
    <2>2. ASSUME NEW n \in Honest, TimerEndorse(n) PROVE TypeOK'
      <3>. DEFINE h == Height(tip[n])
      <3>1. tip[n] \in Block /\ h \in Nat
        BY <2>2 DEF TypeOK, TimerEndorse, CanEndorse, Height
      <3>2. EndorseTarget(n) \in Nat /\ EndorseApprovals(n) \subseteq ApprovalType
        BY <3>1, ApprovalHasType DEF TypeOK, EndorseTarget, EndorseApprovals
      <3>. QED
        BY <2>2, <3>2 DEF TypeOK, ApprovalType, TimerEndorse, SaveAndSend, chain
    <2>3. ASSUME NEW n \in Honest, TimerSkip(n) PROVE TypeOK'
      <3>1. tip[n] \in Block /\ Height(tip[n]) \in Nat
        BY <2>3 DEF TypeOK, TimerSkip, CanSkip, Height
      <3>2. SkipTarget(n) \in Nat /\ SkipApprovals(n) \subseteq ApprovalType
        BY <3>1, ApprovalHasType DEF TypeOK, SkipTarget, SkipApprovals
      <3>. QED
        BY <2>3, <3>2 DEF TypeOK, ApprovalType, TimerSkip, SaveAndSend, chain
    <2>4. ASSUME NEW n \in Honest, NEW b \in Block, AcceptBlock(n, b) PROVE TypeOK'
      <3>1. NewHead(n, b) \in Block /\ NewFinalHead(n, b) \in Block
            /\ NewLatestKnown(n, b) \in Nat /\ FinalHeight(NewHead(n, b)) \in Nat
            /\ Height(NewHead(n, b)) \in Nat
        BY DEF TypeOK, NewHead, NewFinalHead, NewLatestKnown, FinalHeight, Height
      <3>2. /\ store' \in [Honest -> SUBSET Block]
            /\ head' \in [Honest -> Block] /\ final_head' \in [Honest -> Block]
            /\ latest_known' \in [Honest -> Nat]
            /\ UNCHANGED <<hdr, sent, disk_target, target>>
        BY <2>4, <3>1 DEF TypeOK, AcceptBlock, SetTip, slug
      <3>3. /\ tip' \in [Honest -> Block \cup {NoHash}] /\ timer_height' \in [Honest -> Nat]
            /\ pending' \in [Honest -> BOOLEAN] /\ largest_final' \in [Honest -> Nat]
        <4>1. CASE tip[n] # NewHead(n, b)
          <5>1. SetTip(n, NewHead(n, b))
            BY <2>4, <4>1 DEF AcceptBlock
          <5>. QED
            BY <3>1, <5>1 DEF TypeOK, SetTip
        <4>2. CASE tip[n] = NewHead(n, b)
          BY <2>4, <4>2 DEF TypeOK, AcceptBlock, slug
        <4>. QED
          BY <4>1, <4>2
      <3>. QED
        BY <3>2, <3>3 DEF TypeOK, ApprovalType
    <2>5. ASSUME NEW n \in Honest, NEW h \in 1 .. MaxHeight, NEW c, ProduceBlock(n, h, c)
          PROVE  TypeOK'
      <3>1. head[n] \in Block /\ h \in Nat
        BY DEF TypeOK
      <3>2. Publish(Hash(head[n], h, c), head[n], h)
        BY <2>5 DEF ProduceBlock
      <3>3. /\ hdr' \in [Block' -> [prev : Block' \cup {NoHash}, height : Nat,
                                   last_ds_final : Block' \cup {NoHash},
                                   last_final : Block' \cup {NoHash}]]
            /\ Genesis \in Block' /\ NoHash \notin Block'
            /\ Block \subseteq Block'
        BY <3>1, <3>2, PublishType
      <3>. QED
        BY <2>5, <3>1, <3>3 DEF TypeOK, ApprovalType, ProduceBlock, slug
    <2>6. ASSUME NEW p \in Block, NEW h \in 1 .. MaxHeight, NEW c,
                 FaultyProduceBlock(p, h, c)
          PROVE  TypeOK'
      <3>1. /\ hdr' \in [Block' -> [prev : Block' \cup {NoHash}, height : Nat,
                                   last_ds_final : Block' \cup {NoHash},
                                   last_final : Block' \cup {NoHash}]]
            /\ Genesis \in Block' /\ NoHash \notin Block'
            /\ Block \subseteq Block'
        BY <2>6, PublishType DEF FaultyProduceBlock
      <3>. QED
        BY <2>6, <3>1 DEF TypeOK, ApprovalType, FaultyProduceBlock, chain, slug
    <2>7. ASSUME NEW n \in Honest, NEW t \in Nat, Restart(n, t),
                 latest_known' \in [Honest -> Nat]
          PROVE  TypeOK'
      BY <2>7 DEF TypeOK, ApprovalType, Restart
    <2>8. ASSUME NEW n \in Honest, CrashBeforeSending(n) PROVE TypeOK'
      <3>1. EndorseTarget(n) \in Nat /\ SkipTarget(n) \in Nat
        BY <2>8 DEF TypeOK, CrashBeforeSending, CanEndorse, CanSkip, EndorseTarget,
               SkipTarget, Height
      <3>. QED
        BY <2>7, <2>8, <3>1 DEF TypeOK, CrashBeforeSending, Crash
    <2>9. ASSUME NEW n \in Honest, NEW b \in Block, CrashAccepting(n, b) PROVE TypeOK'
      <3>1. NewLatestKnown(n, b) \in Nat
        BY DEF TypeOK, NewLatestKnown, Height
      <3>. QED
        BY <2>7, <2>9, <3>1 DEF TypeOK, CrashAccepting
    <2>10. ASSUME NEW n \in Honest, NEW h \in 1 .. MaxHeight, CrashProducing(n, h)
           PROVE  TypeOK'
      BY <2>7, <2>10 DEF TypeOK, CrashProducing
    <2>11. ASSUME NEW n \in Honest, Crash(n, disk_target[n]) PROVE TypeOK'
      BY <2>7, <2>11 DEF TypeOK, Crash
    <2>12. CASE UNCHANGED vars
      BY <2>12 DEF vars, TypeOK, ApprovalType
    <2>. QED
      BY <2>1, <2>2, <2>3, <2>4, <2>5, <2>6, <2>8, <2>9, <2>10, <2>11, <2>12
         DEF Next, TimerStep, BlockStep
  <1>. QED
    BY <1>1, <1>2, PTL DEF Spec

-----------------------------------------------------------------------------
(* The inductive invariant, action by action                               *)

LEMMA HeadersKept ==
    ASSUME TypeOK, [Next]_vars
    PROVE  Block \subseteq Block' /\ \A x \in Block : hdr'[x] = hdr[x]
  <1>1. ASSUME NEW b, NEW p, NEW h, Publish(b, p, h)
        PROVE  Block \subseteq Block' /\ \A x \in Block : hdr'[x] = hdr[x]
    BY <1>1, PublishExtends, ZenonT(30)
  <1>2. CASE UNCHANGED hdr
    BY <1>2
  <1>3. \/ UNCHANGED hdr
        \/ \E b, p, h : Publish(b, p, h)
    BY DEF Next, vars, TimerStep, BlockStep, UpdateTip, TimerEndorse, TimerSkip,
           CrashBeforeSending, AcceptBlock, CrashAccepting, ProduceBlock, CrashProducing,
           Crash, Restart, FaultyProduceBlock
  <1>. QED
    BY <1>1, <1>2, <1>3

\* A node whose tip, target and approvals are as they were, and whose head has
\* not gone down.
LEMMA QuietStep ==
    ASSUME TypeOK, NeverPassesItsEndorsement, ApprovalsBelowTarget, [Next]_vars, TypeOK',
           sent' = sent,
           \A n \in Honest :
              /\ disk_target[n] <= disk_target'[n] /\ disk_target'[n] <= target'[n]
              /\ Height(head[n]) <= Height(head[n])'
              /\ tip'[n] # NoHash => /\ tip'[n] = head'[n]
                                     /\ Height(tip[n])' < timer_height'[n]
    PROVE  NeverPassesItsEndorsement' /\ ApprovalsBelowTarget'
  <1>1. NeverPassesItsEndorsement'
    BY DEF NeverPassesItsEndorsement
  <1>2. ASSUME NEW a \in sent
        PROVE  /\ a.inner.parent < a.target
               /\ a.target <= disk_target'[a.from]
               /\ a.inner.parent <= Height(head[a.from])'
               /\ a.inner.hash # NoHash => a.target = a.inner.parent + 1
    <2>1. a \in ApprovalType /\ a.from \in Honest /\ a.target \in Nat /\ a.inner.parent \in Nat
      BY DEF TypeOK, ApprovalType
    <2>2. /\ disk_target[a.from] \in Nat /\ disk_target'[a.from] \in Nat
          /\ Height(head[a.from]) \in Nat /\ Height(head[a.from])' \in Nat
      BY <2>1 DEF TypeOK, Height
    <2>. QED
      BY <2>1, <2>2 DEF ApprovalsBelowTarget
  <1>3. ApprovalsBelowTarget'
    BY <1>2 DEF ApprovalsBelowTarget
  <1>. QED
    BY <1>1, <1>3

\* A timer step that puts one new approval into the network and t on the disk.
LEMMA SendStep ==
    ASSUME TypeOK, TypeOK', NeverPassesItsEndorsement, ApprovalsBelowTarget,
           NEW n \in Honest, NEW t \in Nat, NEW new \in ApprovalType,
           new.from = n, new.inner.parent < new.target, new.target <= t,
           new.inner.parent = Height(head[n]),
           new.inner.hash # NoHash => new.target = new.inner.parent + 1,
           new.inner.hash # NoHash => target[n] <= new.inner.parent,
           target[n] <= t,
           UNCHANGED <<hdr, chain, tip>>,
           disk_target' = [disk_target EXCEPT ![n] = t],
           target' = [target EXCEPT ![n] = t],
           sent' = sent \cup {new},
           \A m \in Honest : timer_height[m] <= timer_height'[m]
    PROVE  NeverPassesItsEndorsement' /\ ApprovalsBelowTarget'
  <1>1. ASSUME NEW a \in sent
        PROVE  /\ a.from \in Honest /\ a.target \in Nat /\ a.inner.parent \in Nat
               /\ a.inner.parent < a.target
               /\ a.target <= disk_target[a.from] /\ disk_target[a.from] <= target[a.from]
               /\ a.inner.parent <= Height(head[a.from])
               /\ a.inner.hash # NoHash => a.target = a.inner.parent + 1
    BY DEF TypeOK, ApprovalType, ApprovalsBelowTarget
  <1>2. new.target \in Nat /\ new.inner.parent \in Nat
    BY DEF ApprovalType
  <1>3. \A m \in Honest : /\ target[m] \in Nat /\ disk_target[m] \in Nat
                          /\ Height(head[m]) \in Nat /\ timer_height[m] \in Nat
                          /\ timer_height'[m] \in Nat
    BY DEF TypeOK, Height
  <1>4. ASSUME NEW a \in sent, a.from = n
        PROVE  /\ new.inner.hash # NoHash => a.target <= new.inner.parent
               /\ a.inner.hash # NoHash => \/ new.inner.parent > a.inner.parent
                                           \/ /\ new.inner.parent = a.inner.parent
                                              /\ new.inner.hash = NoHash
    BY <1>1, <1>2, <1>3, <1>4
  <1>5. NeverPassesItsEndorsement'
    <2>. SUFFICES ASSUME NEW e \in sent \cup {new}, NEW a \in sent \cup {new},
                         e.from = a.from, e.inner.hash # NoHash
                  PROVE  \/ a.target <= e.inner.parent
                         \/ a.inner.parent > e.inner.parent
                         \/ a.inner.parent = e.inner.parent
                            /\ a.inner.hash \in {e.inner.hash, NoHash}
      BY DEF NeverPassesItsEndorsement
    <2>1. CASE e \in sent /\ a \in sent
      BY <2>1 DEF NeverPassesItsEndorsement
    <2>2. CASE e \in sent /\ a = new
      BY <1>4, <2>2
    <2>3. CASE e = new /\ a \in sent
      BY <1>4, <2>3
    <2>4. CASE e = new /\ a = new
      BY <2>4
    <2>. QED
      BY <2>1, <2>2, <2>3, <2>4
  <1>6. ASSUME NEW a \in sent'
        PROVE  /\ a.inner.parent < a.target
               /\ a.target <= disk_target'[a.from]
               /\ a.inner.parent <= Height(head[a.from])'
               /\ a.inner.hash # NoHash => a.target = a.inner.parent + 1
    <2>1. CASE a = new
      BY <2>1 DEF chain, Height, TypeOK
    <2>2. CASE a \in sent
      <3>1. a.target <= disk_target'[a.from]
        BY <1>1, <1>3, <2>2 DEF TypeOK
      <3>. QED
        BY <1>1, <2>2, <3>1 DEF chain, Height
    <2>. QED
      BY <2>1, <2>2
  <1>7. ASSUME NEW m \in Honest
        PROVE  /\ disk_target'[m] <= target'[m]
               /\ tip'[m] # NoHash => /\ tip'[m] = head'[m]
                                      /\ Height(tip[m])' < timer_height'[m]
    <2>1. disk_target'[m] <= target'[m]
      BY DEF TypeOK, ApprovalsBelowTarget
    <2>2. tip[m] # NoHash => tip[m] = head[m] /\ Height(tip[m]) < timer_height'[m]
      BY <1>3 DEF ApprovalsBelowTarget
    <2>. QED
      BY <2>1, <2>2 DEF chain, Height
  <1>. QED
    BY <1>5, <1>6, <1>7 DEF ApprovalsBelowTarget

LEMMA ApprovalsStep ==
    ASSUME TypeOK, TypeOK', NeverPassesItsEndorsement, ApprovalsBelowTarget, [Next]_vars
    PROVE  NeverPassesItsEndorsement' /\ ApprovalsBelowTarget'
  <1>. DEFINE Goal == NeverPassesItsEndorsement' /\ ApprovalsBelowTarget'
  <1>0. \A m \in Honest :
           /\ disk_target[m] \in Nat /\ target[m] \in Nat /\ timer_height[m] \in Nat
           /\ head[m] \in Block /\ Height(head[m]) \in Nat
           /\ Height(head[m])' \in Nat /\ (hdr'[head[m]]).height = Height(head[m])
           /\ disk_target[m] <= target[m]
           /\ tip[m] # NoHash => tip[m] = head[m] /\ Height(tip[m]) < timer_height[m]
    BY HeadersKept DEF TypeOK, Height, ApprovalsBelowTarget
  <1>1. ASSUME NEW n \in Honest, UpdateTip(n) PROVE Goal
    <2>1. \A m \in Honest : /\ disk_target[m] <= disk_target'[m] /\ disk_target'[m] <= target'[m]
                            /\ Height(head[m]) <= Height(head[m])'
      BY <1>0, <1>1 DEF UpdateTip, SetTip, chain, Height
    <2>2. ASSUME NEW m \in Honest, tip'[m] # NoHash
          PROVE  tip'[m] = head'[m] /\ Height(tip[m])' < timer_height'[m]
      BY <1>0, <1>1, <2>2 DEF UpdateTip, SetTip, chain, Height, TypeOK
    <2>. QED
      BY <1>1, <2>1, <2>2, QuietStep DEF UpdateTip
  <1>2. ASSUME NEW n \in Honest, NEW b \in Block, AcceptBlock(n, b) PROVE Goal
    <2>1. UNCHANGED <<hdr, sent, disk_target, target>>
      BY <1>2 DEF AcceptBlock, SetTip, slug
    <2>2. head' = [head EXCEPT ![n] = NewHead(n, b)] /\ NewHead(n, b) \in Block
          /\ Height(head[n]) <= Height(NewHead(n, b)) /\ Height(NewHead(n, b)) \in Nat
      BY <1>0, <1>2 DEF AcceptBlock, NewHead, TypeOK, Height
    <2>3. \A m \in Honest : Height(head[m]) <= Height(head[m])'
      BY <1>0, <2>1, <2>2 DEF TypeOK, Height
    <2>4. ASSUME NEW m \in Honest, tip'[m] # NoHash
          PROVE  tip'[m] = head'[m] /\ Height(tip[m])' < timer_height'[m]
      <3>1. CASE tip[n] # NewHead(n, b)
        <4>1. SetTip(n, NewHead(n, b))
          BY <1>2, <3>1 DEF AcceptBlock
        <4>. QED
          BY <1>0, <2>1, <2>2, <2>4, <4>1 DEF SetTip, Height, TypeOK
      <3>2. CASE tip[n] = NewHead(n, b)
        <4>1. UNCHANGED slug
          BY <1>2, <3>2 DEF AcceptBlock
        <4>. QED
          BY <1>0, <2>1, <2>2, <2>4, <3>2, <4>1 DEF slug, Height, TypeOK
      <3>. QED
        BY <3>1, <3>2
    <2>. QED
      BY <1>0, <2>1, <2>3, <2>4, QuietStep
  <1>3. ASSUME NEW n \in Honest, TimerEndorse(n) PROVE Goal
    <2>. DEFINE h == Height(head[n])
                new == Approval(n, head[n], h, h + 1)
    <2>1. /\ tip[n] = head[n] /\ UNCHANGED <<hdr, chain, tip, timer_height>>
          /\ SaveAndSend(n, EndorseTarget(n), EndorseApprovals(n))
          /\ target' = [target EXCEPT ![n] = EndorseTarget(n)]
      BY <1>3 DEF TimerEndorse, CanEndorse
    <2>2. CASE sent' = sent
      <3>1. /\ target[n] <= EndorseTarget(n) /\ EndorseTarget(n) \in Nat
            /\ disk_target' \in {disk_target, [disk_target EXCEPT ![n] = EndorseTarget(n)]}
        BY <1>0, <2>1 DEF EndorseTarget, SaveAndSend
      <3>2. \A m \in Honest : /\ disk_target[m] <= disk_target'[m]
                              /\ disk_target'[m] <= target'[m]
        BY <1>0, <2>1, <3>1 DEF TypeOK
      <3>3. \A m \in Honest : /\ Height(head[m]) <= Height(head[m])'
                              /\ tip'[m] # NoHash => /\ tip'[m] = head'[m]
                                                     /\ Height(tip[m])' < timer_height'[m]
        BY <1>0, <2>1 DEF chain, Height
      <3>. QED
        BY <2>2, <3>2, <3>3, QuietStep
    <2>3. CASE sent' # sent
      <3>1. /\ h >= target[n] /\ EndorseTarget(n) = h + 1
            /\ sent' = sent \cup {new}
            /\ disk_target' = [disk_target EXCEPT ![n] = h + 1]
        BY <2>1, <2>3 DEF SaveAndSend, EndorseApprovals, EndorseTarget
      <3>2. new \in ApprovalType
        BY <1>0, ApprovalHasType
      <3>3. /\ new.from = n /\ new.target = h + 1 /\ new.inner.parent = h
        BY DEF Approval, ApprovalInner
      <3>. HIDE DEF new
      <3>4. /\ new.inner.parent < new.target /\ new.target <= h + 1
            /\ new.inner.hash # NoHash => new.target = new.inner.parent + 1
            /\ new.inner.hash # NoHash => target[n] <= new.inner.parent
            /\ target[n] <= h + 1 /\ h + 1 \in Nat
        BY <1>0, <3>1, <3>3
      <3>5. \A m \in Honest : timer_height[m] <= timer_height'[m]
        BY <1>0, <2>1
      <3>. QED
        BY <2>1, <3>1, <3>2, <3>3, <3>4, <3>5, SendStep, ZenonT(30)
    <2>. QED
      BY <2>2, <2>3
  <1>4. ASSUME NEW n \in Honest, TimerSkip(n) PROVE Goal
    <2>. DEFINE h == Height(head[n])
                new == Approval(n, head[n], h, timer_height[n] + 1)
    <2>1. /\ tip[n] = head[n] /\ UNCHANGED <<hdr, chain, tip>>
          /\ SaveAndSend(n, SkipTarget(n), {new})
          /\ target' = [target EXCEPT ![n] = SkipTarget(n)]
          /\ timer_height' = [timer_height EXCEPT ![n] = timer_height[n] + 1]
      BY <1>4 DEF TimerSkip, CanSkip, SkipApprovals
    <2>2. /\ target[n] <= SkipTarget(n) /\ timer_height[n] + 1 <= SkipTarget(n)
          /\ SkipTarget(n) \in Nat
      BY <1>0, <2>1 DEF SkipTarget
    <2>3. \A m \in Honest : timer_height[m] <= timer_height'[m] /\ timer_height'[m] \in Nat
      BY <1>0, <2>1 DEF TypeOK
    <2>4. CASE sent' = sent /\ UNCHANGED disk_target
      <3>1. \A m \in Honest : /\ disk_target[m] <= disk_target'[m]
                              /\ disk_target'[m] <= target'[m]
        BY <1>0, <2>1, <2>2, <2>4 DEF TypeOK
      <3>2. \A m \in Honest : /\ Height(head[m]) <= Height(head[m])'
                              /\ tip'[m] # NoHash => /\ tip'[m] = head'[m]
                                                     /\ Height(tip[m])' < timer_height'[m]
        BY <1>0, <2>1, <2>3 DEF chain, Height
      <3>. QED
        BY <2>4, <3>1, <3>2, QuietStep
    <2>5. CASE /\ sent' = sent \cup {new}
               /\ disk_target' = [disk_target EXCEPT ![n] = SkipTarget(n)]
      <3>1. new \in ApprovalType
        BY <1>0, ApprovalHasType
      <3>2. h < timer_height[n]
        BY <1>0, <2>1 DEF TypeOK
      <3>3. /\ new.from = n /\ new.target = timer_height[n] + 1 /\ new.inner.parent = h
            /\ new.inner.hash = NoHash
        BY <1>0, <3>2 DEF Approval, ApprovalInner
      <3>. HIDE DEF new
      <3>4. new.inner.parent < new.target /\ new.target <= SkipTarget(n)
        BY <1>0, <2>2, <3>2, <3>3
      <3>. QED
        BY <2>1, <2>2, <2>3, <2>5, <3>1, <3>3, <3>4, SendStep, ZenonT(30)
    <2>. QED
      BY <2>1, <2>4, <2>5 DEF SaveAndSend
  <1>5. ASSUME NEW n \in Honest, NEW t \in Nat, Restart(n, t), disk_target[n] <= t PROVE Goal
    <2>1. sent' = sent /\ UNCHANGED <<hdr, head>>
      BY <1>5 DEF Restart
    <2>2. \A m \in Honest : /\ disk_target[m] <= disk_target'[m]
                            /\ disk_target'[m] <= target'[m]
      BY <1>0, <1>5 DEF Restart, TypeOK
    <2>3. \A m \in Honest : /\ Height(head[m]) <= Height(head[m])'
                            /\ tip'[m] # NoHash => /\ tip'[m] = head'[m]
                                                   /\ Height(tip[m])' < timer_height'[m]
      BY <1>0, <1>5 DEF Restart, TypeOK, Height
    <2>. QED
      BY <2>1, <2>2, <2>3, QuietStep
  <1>6. ASSUME NEW n \in Honest, CrashBeforeSending(n) PROVE Goal
    <2>1. CASE CanEndorse(n) /\ Crash(n, EndorseTarget(n))
      <3>1. EndorseTarget(n) \in Nat /\ disk_target[n] <= EndorseTarget(n)
        BY <1>0, <2>1 DEF CanEndorse, EndorseTarget
      <3>. QED
        BY <1>5, <2>1, <3>1 DEF Crash
    <2>2. CASE CanSkip(n) /\ Crash(n, SkipTarget(n))
      <3>1. SkipTarget(n) \in Nat /\ disk_target[n] <= SkipTarget(n)
        BY <1>0, <2>2 DEF CanSkip, SkipTarget
      <3>. QED
        BY <1>5, <2>2, <3>1 DEF Crash
    <2>. QED
      BY <1>6, <2>1, <2>2 DEF CrashBeforeSending
  <1>7. ASSUME NEW n \in Honest,
               \/ \E b \in Block : CrashAccepting(n, b)
               \/ \E h \in 1 .. MaxHeight : CrashProducing(n, h)
               \/ Crash(n, disk_target[n])
        PROVE  Goal
    <2>1. Restart(n, disk_target[n])
      BY <1>7 DEF CrashAccepting, CrashProducing, Crash
    <2>. QED
      BY <1>0, <1>5, <2>1
  <1>8. CASE UNCHANGED <<sent, head, disk_target, slug>>
    <2>1. \A m \in Honest : /\ disk_target[m] <= disk_target'[m]
                            /\ disk_target'[m] <= target'[m]
                            /\ Height(head[m]) <= Height(head[m])'
      BY <1>0, <1>8 DEF slug, Height
    <2>2. ASSUME NEW m \in Honest, tip'[m] # NoHash
          PROVE  tip'[m] = head'[m] /\ Height(tip[m])' < timer_height'[m]
      BY <1>0, <1>8, <2>2 DEF slug, Height
    <2>. QED
      BY <1>8, <2>1, <2>2, QuietStep
  <1>9. ASSUME NEW n \in Honest, NEW h, NEW c, ProduceBlock(n, h, c) PROVE Goal
    BY <1>8, <1>9 DEF ProduceBlock
  <1>10. ASSUME NEW p, NEW h, NEW c, FaultyProduceBlock(p, h, c) PROVE Goal
    BY <1>8, <1>10 DEF FaultyProduceBlock, chain
  <1>11. CASE UNCHANGED vars
    BY <1>8, <1>11 DEF vars, slug
  <1>. QED
    BY <1>1, <1>2, <1>3, <1>4, <1>6, <1>7, <1>9, <1>10, <1>11 DEF Next, TimerStep, BlockStep

-----------------------------------------------------------------------------
(* Headers                                                                 *)

LEMMA SentGrows ==
    ASSUME [Next]_vars
    PROVE  sent \subseteq sent'
  BY DEF Next, vars, TimerStep, BlockStep, UpdateTip, TimerEndorse, TimerSkip, SaveAndSend,
         CrashBeforeSending, AcceptBlock, CrashAccepting, ProduceBlock, CrashProducing,
         Crash, Restart, FaultyProduceBlock

\* What is known of a block that is already published stays known.
LEMMA OldHeader ==
    ASSUME TypeOK, HeadersApproved, [Next]_vars, NEW b \in Block
    PROVE  /\ b # Genesis =>
                 /\ hdr'[b].prev # NoHash /\ Height(hdr[b].prev)' < Height(b)'
                 /\ Approved(b)'
                 /\ hdr'[b].last_ds_final = hdr'[b].prev
                        => Height(hdr[b].prev)' + 1 = Height(b)'
           /\ hdr'[b].last_ds_final # NoHash => Height(hdr[b].last_ds_final)' < Height(b)'
           /\ hdr'[b].last_final # NoHash => HasTwoConfirmations(hdr[b].last_final)'
  <1>1. /\ Block \subseteq Block' /\ \A x \in Block : hdr'[x] = hdr[x]
        /\ sent \subseteq sent'
    BY HeadersKept, SentGrows
  <1>2. hdr[b].prev \in Block \cup {NoHash} /\ hdr[b].last_ds_final \in Block \cup {NoHash}
        /\ hdr[b].last_final \in Block \cup {NoHash}
    BY DEF TypeOK
  <1>3. ASSUME b # Genesis
        PROVE  /\ hdr'[b].prev # NoHash /\ Height(hdr[b].prev)' < Height(b)'
               /\ hdr'[b].last_ds_final = hdr'[b].prev
                      => Height(hdr[b].prev)' + 1 = Height(b)'
    BY <1>1, <1>2, <1>3 DEF HeadersApproved, Height
  <1>4. ASSUME b # Genesis PROVE Approved(b)'
    <2>1. PICK Q \in Quorum : \A n \in Q \cap Honest :
             Approval(n, hdr[b].prev, Height(hdr[b].prev), Height(b)) \in sent
      BY <1>4 DEF HeadersApproved, Approved
    <2>2. hdr[b].prev \in Block
      BY <1>2, <1>4 DEF HeadersApproved
    <2>3. hdr'[b].prev = hdr[b].prev /\ Height(hdr[b].prev)' = Height(hdr[b].prev)
          /\ Height(b)' = Height(b)
      BY <1>1, <2>2 DEF Height
    <2>4. \A n \in Q \cap Honest :
             Approval(n, hdr'[b].prev, Height(hdr[b].prev)', Height(b)') \in sent'
      BY <1>1, <2>1, <2>3
    <2>. QED
      BY <2>4 DEF Approved
  <1>5. hdr'[b].last_ds_final # NoHash => Height(hdr[b].last_ds_final)' < Height(b)'
    BY <1>1, <1>2 DEF HeadersApproved, Height
  <1>6. ASSUME hdr'[b].last_final # NoHash PROVE HasTwoConfirmations(hdr[b].last_final)'
    <2>. DEFINE f == hdr[b].last_final
    <2>1. f \in Block /\ hdr'[b].last_final = f
      BY <1>1, <1>2, <1>6
    <2>2. PICK c \in Block \ {Genesis}, d \in Block \ {Genesis} :
             /\ hdr[c].prev = f /\ Height(c) = Height(f) + 1
             /\ hdr[d].prev = c /\ Height(d) = Height(c) + 1
      BY <1>1, <1>6 DEF HeadersApproved, HasTwoConfirmations
    <2>. QED
      BY <1>1, <2>1, <2>2 DEF HasTwoConfirmations, Height
  <1>. QED
    BY <1>3, <1>4, <1>5, <1>6

\* A new block is approved by a quorum, and a quorum has an honest member.
LEMMA QuorumApproves ==
    ASSUME TypeOK, ApprovalsBelowTarget, NEW p \in Block, NEW h \in Nat, EnoughApprovals(p, h)
    PROVE  /\ Height(p) < h
           /\ \E Q \in Quorum : \A n \in Q \cap Honest : Approval(n, p, Height(p), h) \in sent
  <1>. DEFINE Q == {n \in Validator : n \in Faulty \/ Approval(n, p, Height(p), h) \in sent}
  <1>1. Q \in Quorum /\ \A n \in Q \cap Honest : Approval(n, p, Height(p), h) \in sent
    BY DEF EnoughApprovals, Honest
  <1>2. PICK n \in Q \cap Honest : TRUE
    BY <1>1, QuorumAssumption
  <1>3. Approval(n, p, Height(p), h) \in sent
    BY <1>1, <1>2
  <1>4. Height(p) < h
    BY <1>3, SMTT(30) DEF ApprovalsBelowTarget, Approval, ApprovalInner
  <1>. QED
    BY <1>1, <1>4

LEMMA PublishStep ==
    ASSUME TypeOK, TypeOK', ApprovalsBelowTarget, HeadersApproved, [Next]_vars,
           NEW b, NEW p \in Block, NEW h \in Nat, EnoughApprovals(p, h), Publish(b, p, h)
    PROVE  HeadersApproved'
  <1>1. /\ Block' = Block \cup {b} /\ b \notin Block /\ b # NoHash
        /\ \A x \in Block : hdr'[x] = hdr[x]
        /\ hdr'[b] = NewHeader(p, h)
    BY PublishExtends, ZenonT(30)
  <1>2. /\ hdr'[b].prev = p /\ hdr'[b].height = h
        /\ hdr'[b].last_ds_final = LastDsFinal(p, h)
        /\ hdr'[b].last_final = LastFinal(p, h)
    BY <1>1 DEF NewHeader
  <1>3. /\ p # NoHash /\ Height(p) \in Nat /\ Height(p)' = Height(p) /\ Height(b)' = h
        /\ hdr[p].prev \in Block \cup {NoHash}
        /\ hdr[p].last_ds_final \in Block \cup {NoHash}
        /\ hdr[p].last_final \in Block \cup {NoHash}
        /\ \A x \in Block : Height(x) \in Nat /\ Height(x)' = Height(x)
    BY <1>1, <1>2 DEF TypeOK, Height
  <1>4. Height(p) < h
    BY QuorumApproves
  <1>5. Approved(b)'
    <2>1. PICK Q \in Quorum : \A n \in Q \cap Honest : Approval(n, p, Height(p), h) \in sent
      BY QuorumApproves
    <2>2. \A n \in Q \cap Honest :
             Approval(n, hdr'[b].prev, Height(hdr[b].prev)', Height(b)') \in sent'
      BY <1>2, <1>3, <2>1, SentGrows DEF Height
    <2>. QED
      BY <2>2 DEF Approved
  <1>6. hdr[p].last_ds_final # NoHash => Height(hdr[p].last_ds_final) < Height(p)
    BY DEF HeadersApproved
  <1>7. /\ hdr'[b].last_ds_final # NoHash => Height(hdr[b].last_ds_final)' < h
        /\ hdr'[b].last_ds_final = p => Height(p) + 1 = h
    BY <1>2, <1>3, <1>4, <1>6 DEF LastDsFinal, Height
  <1>8. ASSUME hdr'[b].last_final # NoHash PROVE HasTwoConfirmations(hdr[b].last_final)'
    <2>1. CASE Height(p) + 1 = h /\ hdr[p].last_ds_final = hdr[p].prev
      <3>1. hdr'[b].last_final = hdr[p].prev
        BY <1>2, <2>1 DEF LastFinal
      <3>2. p # Genesis /\ b # Genesis /\ hdr[p].prev \in Block
        BY <1>1, <1>3, <1>8, <3>1, SMTT(30) DEF HeadersApproved, TypeOK
      <3>3. Height(hdr[p].prev) + 1 = Height(p)
        BY <2>1, <3>2 DEF HeadersApproved
      <3>4. /\ p \in Block' \ {Genesis} /\ b \in Block' \ {Genesis}
            /\ hdr'[p].prev = hdr'[b].last_final /\ hdr'[b].prev = p
            /\ Height(p)' = Height(hdr[b].last_final)' + 1 /\ Height(b)' = Height(p)' + 1
        BY <1>1, <1>2, <1>3, <2>1, <3>1, <3>2, <3>3 DEF Height
      <3>. QED
        BY <3>4 DEF HasTwoConfirmations
    <2>2. CASE ~(Height(p) + 1 = h /\ hdr[p].last_ds_final = hdr[p].prev)
      <3>1. hdr'[b].last_final = hdr'[p].last_final
        BY <1>1, <1>2, <2>2 DEF LastFinal
      <3>. QED
        BY <1>8, <3>1, OldHeader DEF HasTwoConfirmations, Height
    <2>. QED
      BY <2>1, <2>2
  <1>9. Height(hdr[b].prev)' = Height(p)
    BY <1>2, <1>3 DEF Height
  <1>10. /\ hdr'[Genesis].last_ds_final = NoHash /\ hdr'[Genesis].prev = NoHash
         /\ Height(Genesis)' = 0
    BY <1>1 DEF TypeOK, HeadersApproved, Height
  <1>11. \A x \in Block' \ {Genesis} :
            /\ hdr'[x].prev # NoHash /\ Height(hdr[x].prev)' < Height(x)' /\ Approved(x)'
            /\ hdr'[x].last_ds_final = hdr'[x].prev => Height(hdr[x].prev)' + 1 = Height(x)'
    <2>. TAKE x \in Block' \ {Genesis}
    <2>1. CASE x = b
      BY <1>2, <1>3, <1>4, <1>5, <1>7, <1>9, <2>1
    <2>2. CASE x \in Block
      BY <2>2, OldHeader
    <2>. QED
      BY <1>1, <2>1, <2>2
  <1>12. \A x \in Block' :
            /\ hdr'[x].last_ds_final # NoHash => Height(hdr[x].last_ds_final)' < Height(x)'
            /\ hdr'[x].last_final # NoHash => HasTwoConfirmations(hdr[x].last_final)'
    <2>. TAKE x \in Block'
    <2>1. CASE x = b
      BY <1>3, <1>7, <1>8, <2>1
    <2>2. CASE x \in Block
      BY <2>2, OldHeader
    <2>. QED
      BY <1>1, <2>1, <2>2
  <1>. QED
    BY <1>10, <1>11, <1>12 DEF HeadersApproved

LEMMA HeadersStep ==
    ASSUME TypeOK, TypeOK', ApprovalsBelowTarget, HeadersApproved, [Next]_vars
    PROVE  HeadersApproved'
  <1>1. CASE UNCHANGED hdr
    BY <1>1, OldHeader DEF HeadersApproved, Height
  <1>2. ASSUME NEW n \in Honest, NEW h \in 1 .. MaxHeight, NEW c, ProduceBlock(n, h, c)
        PROVE  HeadersApproved'
    <2>1. head[n] \in Block /\ h \in Nat
      BY SMTT(30) DEF TypeOK
    <2>2. EnoughApprovals(head[n], h) /\ Publish(Hash(head[n], h, c), head[n], h)
      BY <1>2, ZenonT(30) DEF ProduceBlock, CanProduceBlock
    <2>. QED
      BY <2>1, <2>2, PublishStep
  <1>3. ASSUME NEW p \in Block, NEW h \in 1 .. MaxHeight, NEW c, FaultyProduceBlock(p, h, c)
        PROVE  HeadersApproved'
    <2>1. h \in Nat /\ EnoughApprovals(p, h) /\ Publish(Hash(p, h, c), p, h)
      BY <1>3 DEF FaultyProduceBlock
    <2>. QED
      BY <2>1, PublishStep
  <1>4. \/ UNCHANGED hdr
        \/ \E n \in Honest, h \in 1 .. MaxHeight : \E c \in Content(n) : ProduceBlock(n, h, c)
        \/ \E p \in Block, h \in 1 .. MaxHeight : \E c \in Content(Producer(h)) :
               FaultyProduceBlock(p, h, c)
    BY DEF Next, vars, TimerStep, BlockStep, UpdateTip, TimerEndorse, TimerSkip,
           CrashBeforeSending, AcceptBlock, CrashAccepting, CrashProducing, Crash, Restart
  <1>. QED
    BY <1>1, <1>2, <1>3, <1>4, SMTT(30)

-----------------------------------------------------------------------------
(* Heads                                                                   *)

LEMMA LessIrreflexive ==
    ASSUME NEW x \in Nat
    PROVE  ~(x < x)
  OBVIOUS

LEMMA LeqTransitive ==
    ASSUME NEW x \in Nat, NEW y \in Nat, NEW z \in Nat, x <= y, y <= z
    PROVE  x <= z
  OBVIOUS

\* A step that publishes nothing, lowers no head and no latest_known.
LEMMA QuietHeads ==
    ASSUME TypeOK, TypeOK', HeadsInvariant, UNCHANGED hdr,
           \A n \in Honest :
              /\ latest_known[n] <= latest_known'[n]
              /\ Height(head'[n]) <= latest_known'[n]
              /\ final_head'[n] # Genesis => \E b \in Block : hdr[b].last_final = final_head'[n]
              /\ \/ Height(final_head'[n]) < Height(head'[n])
                 \/ final_head'[n] = head'[n]
    PROVE  HeadsInvariant'
  <1>1. \A b \in Block \ {Genesis} :
           LET n == Producer(Height(b)) IN n \in Honest => Height(b) <= latest_known'[n]
    <2>. TAKE b \in Block \ {Genesis}
    <2>. DEFINE n == Producer(Height(b))
    <2>. SUFFICES ASSUME n \in Honest PROVE Height(b) <= latest_known'[n]
      OBVIOUS
    <2>1. Height(b) \in Nat /\ latest_known[n] \in Nat /\ latest_known'[n] \in Nat
      BY DEF TypeOK, Height
    <2>2. Height(b) <= latest_known[n]
      BY DEF HeadsInvariant
    <2>3. latest_known[n] <= latest_known'[n]
      OBVIOUS
    <2>. HIDE DEF n
    <2>. QED
      BY <2>1, <2>2, <2>3, LeqTransitive, Zenon
  <1>. QED
    BY <1>1 DEF HeadsInvariant, Height

\* A step that publishes a block of height h, saved as known by an honest producer.
LEMMA PublishHeads ==
    ASSUME TypeOK, TypeOK', HeadersApproved, HeadsInvariant,
           NEW b, NEW p \in Block, NEW h \in 1 .. MaxHeight, Publish(b, p, h), Height(p) < h,
           UNCHANGED <<head, final_head>>,
           \A n \in Honest : latest_known[n] <= latest_known'[n],
           Producer(h) \in Honest => h <= latest_known'[Producer(h)]
    PROVE  HeadsInvariant'
  <1>1. /\ Block' = Block \cup {b} /\ b \notin Block
        /\ \A x \in Block : hdr'[x] = hdr[x]
        /\ hdr'[b] = NewHeader(p, h)
    BY PublishExtends, ZenonT(30)
  <1>2. hdr'[b].prev = p /\ hdr'[b].height = h /\ hdr'[b].last_final = LastFinal(p, h)
    <2>. DEFINE new == NewHeader(p, h)
    <2>1. new.prev = p /\ new.height = h /\ new.last_final = LastFinal(p, h)
      BY NewHeaderFields, Zenon
    <2>. HIDE DEF new
    <2>2. hdr'[b] = new
      BY <1>1, Zenon DEF new
    <2>. QED
      BY <2>1, <2>2, Zenon
  <1>3. \A x \in Block : /\ Height(x) \in Nat /\ Height(x)' = Height(x)
                         /\ hdr[x].prev \in Block \cup {NoHash}
                         /\ hdr[x].last_final \in Block \cup {NoHash}
    BY <1>1 DEF TypeOK, Height
  <1>4. Height(b)' = h /\ h \in Nat /\ Height(p) \in Nat
    BY <1>2, <1>3 DEF Height
  <1>5. LastFinal(p, h) # NoHash => /\ LastFinal(p, h) \in Block
                                    /\ Height(LastFinal(p, h)) < Height(p)
    <2>1. hdr[p].prev # NoHash => hdr[p].prev \in Block /\ Height(hdr[p].prev) < Height(p)
      BY <1>3 DEF HeadersApproved
    <2>2. hdr[p].last_final # NoHash => /\ hdr[p].last_final \in Block
                                        /\ Height(hdr[p].last_final) < Height(p)
      BY <1>3 DEF HeadsInvariant
    <2>. QED
      BY <2>1, <2>2 DEF LastFinal
  <1>6. ASSUME NEW x \in Block'
        PROVE  /\ Height(x)' <= MaxHeight
               /\ hdr'[x].last_final # NoHash => Height(hdr[x].last_final)' < Height(x)'
    <2>1. CASE x = b
      <3>1. LastFinal(p, h) # NoHash => (hdr'[LastFinal(p, h)]).height < h
        BY <1>3, <1>4, <1>5 DEF Height
      <3>. QED
        BY <1>2, <1>4, <2>1, <3>1 DEF Height
    <2>2. CASE x \in Block
      BY <1>1, <1>3, <2>2 DEF HeadsInvariant, Height
    <2>. QED
      BY <1>1, <2>1, <2>2
  <1>7. ASSUME NEW x \in Block' \ {Genesis}, Producer(Height(x)') \in Honest
        PROVE  Height(x)' <= latest_known'[Producer(Height(x)')]
    <2>1. CASE x = b
      BY <1>4, <1>7, <2>1
    <2>2. CASE x \in Block
      <3>. DEFINE n == Producer(Height(x))
      <3>1. n \in Honest /\ Height(x)' = Height(x) /\ Height(x) \in Nat
        BY <1>3, <1>7, <2>2
      <3>2. /\ Height(x) <= latest_known[n] /\ latest_known[n] <= latest_known'[n]
            /\ latest_known[n] \in Nat /\ latest_known'[n] \in Nat
        BY <2>2, <3>1 DEF HeadsInvariant, TypeOK
      <3>. HIDE DEF n
      <3>3. Height(x) <= latest_known'[n]
        BY <3>1, <3>2
      <3>. QED
        BY <3>1, <3>3 DEF n
    <2>. QED
      BY <1>1, <2>1, <2>2
  <1>8. ASSUME NEW n \in Honest
        PROVE  /\ Height(head[n])' <= latest_known'[n]
               /\ final_head'[n] # Genesis =>
                     \E x \in Block' : hdr'[x].last_final = final_head'[n]
               /\ \/ Height(final_head[n])' < Height(head[n])'
                  \/ final_head'[n] = head'[n]
    <2>1. /\ head[n] \in Block /\ final_head[n] \in Block
          /\ latest_known[n] \in Nat /\ latest_known'[n] \in Nat
      BY DEF TypeOK
    <2>2. /\ Height(head[n])' = Height(head[n]) /\ Height(head[n]) \in Nat
          /\ Height(final_head[n])' = Height(final_head[n])
      BY <1>3, <2>1 DEF Height
    <2>3. Height(head[n]) <= latest_known[n] /\ latest_known[n] <= latest_known'[n]
      BY DEF HeadsInvariant
    <2>4. final_head[n] # Genesis => \E x \in Block' : hdr'[x].last_final = final_head[n]
      BY <1>1 DEF HeadsInvariant
    <2>5. Height(final_head[n]) < Height(head[n]) \/ final_head[n] = head[n]
      BY DEF HeadsInvariant
    <2>. QED
      BY <2>1, <2>2, <2>3, <2>4, <2>5
  <1>. QED
    BY <1>6, <1>7, <1>8 DEF HeadsInvariant

\* What postprocess_block does to the heads of a node.
LEMMA AcceptHeads ==
    ASSUME TypeOK, HeadsInvariant, NEW n \in Honest, NEW b \in Block
    PROVE  /\ Height(head[n]) <= Height(NewHead(n, b)) /\ Height(b) <= Height(NewHead(n, b))
           /\ latest_known[n] <= NewLatestKnown(n, b)
           /\ Height(NewHead(n, b)) <= NewLatestKnown(n, b)
           /\ NewFinalHead(n, b) # Genesis =>
                 \E x \in Block : hdr[x].last_final = NewFinalHead(n, b)
           /\ \/ Height(NewFinalHead(n, b)) < Height(NewHead(n, b))
              \/ NewFinalHead(n, b) = NewHead(n, b)
  <1>1. /\ Height(b) \in Nat /\ Height(head[n]) \in Nat /\ Height(final_head[n]) \in Nat
        /\ latest_known[n] \in Nat
        /\ hdr[b].last_final # NoHash => Height(hdr[b].last_final) \in Nat
    BY DEF TypeOK, Height
  <1>2. /\ Height(head[n]) <= latest_known[n]
        /\ final_head[n] # Genesis => \E x \in Block : hdr[x].last_final = final_head[n]
        /\ Height(final_head[n]) < Height(head[n]) \/ final_head[n] = head[n]
        /\ hdr[b].last_final # NoHash => Height(hdr[b].last_final) < Height(b)
    BY DEF HeadsInvariant
  <1>3. /\ Height(head[n]) <= Height(NewHead(n, b)) /\ Height(b) <= Height(NewHead(n, b))
        /\ latest_known[n] <= NewLatestKnown(n, b)
        /\ Height(NewHead(n, b)) <= NewLatestKnown(n, b)
    BY <1>1, <1>2 DEF NewHead, NewLatestKnown
  <1>4. NewFinalHead(n, b) # Genesis =>
           \E x \in Block : hdr[x].last_final = NewFinalHead(n, b)
    BY <1>2 DEF NewFinalHead
  <1>5. \/ Height(NewFinalHead(n, b)) < Height(NewHead(n, b))
        \/ NewFinalHead(n, b) = NewHead(n, b)
    BY <1>1, <1>2 DEF NewFinalHead, NewHead
  <1>. QED
    BY <1>3, <1>4, <1>5

LEMMA HeadsStep ==
    ASSUME TypeOK, TypeOK', ApprovalsBelowTarget, HeadersApproved, HeadsInvariant, [Next]_vars
    PROVE  HeadsInvariant'
  <1>0. \A m \in Honest :
           /\ latest_known[m] \in Nat /\ Height(head[m]) \in Nat
           /\ Height(head[m]) <= latest_known[m]
           /\ final_head[m] # Genesis => \E b \in Block : hdr[b].last_final = final_head[m]
           /\ Height(final_head[m]) < Height(head[m]) \/ final_head[m] = head[m]
    BY DEF TypeOK, HeadsInvariant, Height
  <1>1. ASSUME UNCHANGED <<hdr, head, final_head>>,
               \A m \in Honest : latest_known[m] <= latest_known'[m] /\ latest_known'[m] \in Nat
        PROVE  HeadsInvariant'
    <2>1. \A m \in Honest : Height(head'[m]) <= latest_known'[m]
      BY <1>0, <1>1
    <2>. QED
      BY <1>0, <1>1, <2>1, QuietHeads
  <1>2. ASSUME UNCHANGED <<hdr, chain>> PROVE HeadsInvariant'
    <2>1. \A m \in Honest : latest_known[m] <= latest_known'[m] /\ latest_known'[m] \in Nat
      BY <1>0, <1>2 DEF chain
    <2>. QED
      BY <1>1, <1>2, <2>1 DEF chain
  <1>3. ASSUME NEW n \in Honest, NEW b \in Block, AcceptBlock(n, b) PROVE HeadsInvariant'
    <2>1. /\ head' = [head EXCEPT ![n] = NewHead(n, b)]
          /\ final_head' = [final_head EXCEPT ![n] = NewFinalHead(n, b)]
          /\ latest_known' = [latest_known EXCEPT ![n] = NewLatestKnown(n, b)]
          /\ UNCHANGED hdr
      BY <1>3 DEF AcceptBlock
    <2>. DEFINE Good(m) ==
              /\ latest_known[m] <= latest_known'[m]
              /\ Height(head'[m]) <= latest_known'[m]
              /\ final_head'[m] # Genesis => \E x \in Block : hdr[x].last_final = final_head'[m]
              /\ \/ Height(final_head'[m]) < Height(head'[m])
                 \/ final_head'[m] = head'[m]
    <2>2. ASSUME NEW m \in Honest, m # n PROVE Good(m)
      <3>1. head'[m] = head[m] /\ final_head'[m] = final_head[m]
            /\ latest_known'[m] = latest_known[m]
        BY <2>1, <2>2 DEF TypeOK
      <3>. QED
        BY <1>0, <3>1
    <2>3. Good(n)
      <3>1. head'[n] = NewHead(n, b) /\ final_head'[n] = NewFinalHead(n, b)
            /\ latest_known'[n] = NewLatestKnown(n, b)
        BY <2>1 DEF TypeOK
      <3>. QED
        BY <3>1, AcceptHeads
    <2>4. \A m \in Honest : Good(m)
      BY <2>2, <2>3
    <2>. QED
      BY <2>1, <2>4, QuietHeads
  <1>4. ASSUME NEW n \in Honest, NEW h \in 1 .. MaxHeight, NEW c, ProduceBlock(n, h, c)
        PROVE  HeadsInvariant'
    <2>1. /\ n = Producer(h) /\ h > latest_known[n] /\ EnoughApprovals(head[n], h)
          /\ Publish(Hash(head[n], h, c), head[n], h)
          /\ latest_known' = [latest_known EXCEPT ![n] = h]
          /\ UNCHANGED <<head, final_head>>
      BY <1>4 DEF ProduceBlock, CanProduceBlock
    <2>2. head[n] \in Block /\ h \in Nat
      BY DEF TypeOK
    <2>3. Height(head[n]) < h
      BY <2>1, <2>2, QuorumApproves
    <2>4. /\ \A m \in Honest : latest_known[m] <= latest_known'[m]
          /\ Producer(h) \in Honest => h <= latest_known'[Producer(h)]
      BY <1>0, <2>1, <2>2 DEF TypeOK
    <2>. QED
      BY <2>1, <2>2, <2>3, <2>4, PublishHeads
  <1>5. ASSUME NEW p \in Block, NEW h \in 1 .. MaxHeight, NEW c, FaultyProduceBlock(p, h, c)
        PROVE  HeadsInvariant'
    <2>1. /\ Producer(h) \in Faulty /\ EnoughApprovals(p, h) /\ Publish(Hash(p, h, c), p, h)
          /\ UNCHANGED <<head, final_head, latest_known>>
      BY <1>5 DEF FaultyProduceBlock, chain
    <2>2. h \in Nat /\ Height(p) < h
      BY <2>1, QuorumApproves
    <2>3. /\ \A m \in Honest : latest_known[m] <= latest_known'[m]
          /\ Producer(h) \notin Honest
      BY <1>0, <2>1 DEF Honest
    <2>. QED
      BY <2>1, <2>2, <2>3, PublishHeads
  <1>6. ASSUME NEW n \in Honest, NEW b \in Block, CrashAccepting(n, b) PROVE HeadsInvariant'
    <2>1. /\ UNCHANGED <<hdr, head, final_head>>
          /\ latest_known' = [latest_known EXCEPT ![n] = NewLatestKnown(n, b)]
      BY <1>6 DEF CrashAccepting, Restart
    <2>2. latest_known[n] <= NewLatestKnown(n, b) /\ NewLatestKnown(n, b) \in Nat
      BY AcceptHeads DEF NewLatestKnown, TypeOK, Height
    <2>. QED
      BY <1>0, <1>1, <2>1, <2>2 DEF TypeOK
  <1>7. ASSUME NEW n \in Honest, NEW h \in 1 .. MaxHeight, CrashProducing(n, h)
        PROVE  HeadsInvariant'
    <2>1. /\ UNCHANGED <<hdr, head, final_head>> /\ h > latest_known[n]
          /\ latest_known' = [latest_known EXCEPT ![n] = h]
      BY <1>7 DEF CrashProducing, Restart, CanProduceBlock
    <2>. QED
      BY <1>0, <1>1, <2>1 DEF TypeOK
  <1>8. \/ UNCHANGED <<hdr, chain>>
        \/ \E n \in Honest, b \in Block : AcceptBlock(n, b) \/ CrashAccepting(n, b)
        \/ \E n \in Honest, h \in 1 .. MaxHeight : \E c \in Content(n) : ProduceBlock(n, h, c)
        \/ \E n \in Honest, h \in 1 .. MaxHeight : CrashProducing(n, h)
        \/ \E p \in Block, h \in 1 .. MaxHeight : \E c \in Content(Producer(h)) :
               FaultyProduceBlock(p, h, c)
    BY DEF Next, vars, chain, TimerStep, BlockStep, UpdateTip, TimerEndorse, TimerSkip,
           CrashBeforeSending, Crash, Restart
  <1>. QED
    BY <1>2, <1>3, <1>4, <1>5, <1>6, <1>7, <1>8

\* The approvals process_timer lets out, across crashes and failed commits, and
\* the headers validate_header lets through keep to the invariant of the module.
THEOREM ConsensusInvariantHolds == Spec => []ConsensusInvariant
  <1>1. Init => ConsensusInvariant
    <2>. SUFFICES ASSUME Init PROVE ConsensusInvariant
      BY SMTT(30)
    <2>1. NeverPassesItsEndorsement
      BY DEF Init, NeverPassesItsEndorsement
    <2>2. ApprovalsBelowTarget
      BY DEF Init, ApprovalsBelowTarget
    <2>3. HeadersApproved
      BY DEF Init, HeadersApproved, Height
    <2>4. HeadsInvariant
      BY HeightAssumption DEF Init, HeadsInvariant, Height
    <2>. QED
      BY <2>1, <2>2, <2>3, <2>4 DEF ConsensusInvariant
  <1>2. TypeOK /\ TypeOK' /\ ConsensusInvariant /\ [Next]_vars => ConsensusInvariant'
    BY ApprovalsStep, HeadersStep, HeadsStep DEF ConsensusInvariant
  <1>. QED
    BY <1>1, <1>2, TypeCorrect, PTL DEF Spec

\* The approvals that were sent stay behind the saved target heights, and the headers that
\* validate_header lets through are approved and name final blocks with two confirmations.
THEOREM FinalityInvariantHolds == Spec => []FinalityInvariant
  <1>1. ConsensusInvariant => FinalityInvariant
    BY DEF ConsensusInvariant, FinalityInvariant
  <1>. QED
    BY <1>1, ConsensusInvariantHolds, PTL

\* An honest validator never lets another chain pass by a block it endorsed.
THEOREM EndorsementsBind == Spec => []NeverPassesItsEndorsement
  <1>1. ConsensusInvariant => NeverPassesItsEndorsement
    BY DEF ConsensusInvariant
  <1>. QED
    BY <1>1, ConsensusInvariantHolds, PTL

-----------------------------------------------------------------------------
(* Finality                                                                *)

\* Two approved blocks have an honest approver in common.
LEMMA CommonApprover ==
    ASSUME TypeOK, ConsensusInvariant, NEW c \in Block \ {Genesis}, NEW x \in Block \ {Genesis}
    PROVE  \E n \in Honest :
              /\ Approval(n, hdr[c].prev, Height(hdr[c].prev), Height(c)) \in sent
              /\ Approval(n, hdr[x].prev, Height(hdr[x].prev), Height(x)) \in sent
  <1>1. PICK Q1 \in Quorum : \A n \in Q1 \cap Honest :
           Approval(n, hdr[c].prev, Height(hdr[c].prev), Height(c)) \in sent
    BY DEF ConsensusInvariant, HeadersApproved, Approved
  <1>2. PICK Q2 \in Quorum : \A n \in Q2 \cap Honest :
           Approval(n, hdr[x].prev, Height(hdr[x].prev), Height(x)) \in sent
    BY DEF ConsensusInvariant, HeadersApproved, Approved
  <1>3. PICK n \in Q1 \cap Q2 \cap Honest : TRUE
    BY QuorumAssumption, SMTT(30)
  <1>. QED
    BY <1>1, <1>2, <1>3

\* The heights of an endorsement of p, whose height is hp, by a block at hc, and of an
\* approval of q, with its hash, by a block at hx.
LEMMA TwoApprovals ==
    ASSUME NEW hp \in Nat, NEW hq \in Nat, NEW hx \in Nat, NEW hc \in Nat,
           NEW p, NEW q, NEW hash,
           hp + 1 = hc, hx > hp, q # NoHash,
           hash = IF hq + 1 = hx THEN q ELSE NoHash,
           \/ hx <= hp
           \/ hq > hp
           \/ hq = hp /\ hash \in {p, NoHash}
    PROVE  /\ hq >= hp
           /\ hx = hc /\ hq = hp => q = p
  OBVIOUS

\* What the common approver of a block c right above its parent and of a block x
\* above that parent says about x.
LEMMA PastAnEndorsedParent ==
    ASSUME TypeOK, ConsensusInvariant, NEW c \in Block \ {Genesis}, NEW x \in Block \ {Genesis},
           Height(hdr[c].prev) + 1 = Height(c), Height(x) > Height(hdr[c].prev)
    PROVE  /\ Height(hdr[x].prev) >= Height(hdr[c].prev)
           /\ Height(x) = Height(c) /\ Height(hdr[x].prev) = Height(hdr[c].prev)
                 => hdr[x].prev = hdr[c].prev
  <1>. DEFINE p == hdr[c].prev
              q == hdr[x].prev
  <1>1. p \in Block /\ q \in Block /\ p # NoHash /\ q # NoHash
        /\ Height(p) \in Nat /\ Height(q) \in Nat /\ Height(x) \in Nat /\ Height(c) \in Nat
    BY DEF ConsensusInvariant, HeadersApproved, TypeOK, Height
  <1>2. PICK n \in Honest : /\ Approval(n, p, Height(p), Height(c)) \in sent
                            /\ Approval(n, q, Height(q), Height(x)) \in sent
    BY CommonApprover, ZenonT(30)
  <1>. DEFINE e == Approval(n, p, Height(p), Height(c))
              a == Approval(n, q, Height(q), Height(x))
  <1>3. /\ e.from = n /\ e.inner.parent = Height(p) /\ e.inner.hash = p
        /\ a.from = n /\ a.inner.parent = Height(q) /\ a.target = Height(x)
        /\ a.inner.hash = IF Height(q) + 1 = Height(x) THEN q ELSE NoHash
    BY <1>1 DEF Approval, ApprovalInner
  <1>. HIDE DEF e, a
  <1>4. e \in sent /\ a \in sent
    BY <1>2 DEF e, a
  <1>5. \/ Height(x) <= Height(p)
        \/ Height(q) > Height(p)
        \/ Height(q) = Height(p) /\ a.inner.hash \in {p, NoHash}
    BY <1>1, <1>3, <1>4 DEF ConsensusInvariant, NeverPassesItsEndorsement
  <1>. DEFINE hash == a.inner.hash
  <1>6. hash = IF Height(q) + 1 = Height(x) THEN q ELSE NoHash
    BY <1>3, Zenon
  <1>7. \/ Height(x) <= Height(p)
        \/ Height(q) > Height(p)
        \/ Height(q) = Height(p) /\ hash \in {p, NoHash}
    BY <1>5, Zenon
  <1>. HIDE DEF p, q, hash
  <1>. QED
    <2>1. Height(p) + 1 = Height(c) /\ Height(x) > Height(p)
      BY DEF p
    <2>2. Height(q) >= Height(p) /\ (Height(x) = Height(c) /\ Height(q) = Height(p) => q = p)
      BY <1>1, <1>6, <1>7, <2>1, TwoApprovals
    <2>. QED
      BY <2>2, Zenon DEF p, q

\* Once a block has a child at the next height, which is when headers call it
\* doomslug final, no chain gets above it without a block at its height or higher.
THEOREM DoomslugFinalityHolds == Spec => []DoomslugFinality
  <1>1. TypeOK /\ ConsensusInvariant => DoomslugFinality
    BY PastAnEndorsedParent DEF DoomslugFinality
  <1>. QED
    BY <1>1, TypeCorrect, ConsensusInvariantHolds, PTL

\* Once some header calls a block final, every chain that gets above it goes
\* through it.
THEOREM FinalityHolds == Spec => []FinalityIrrevocable
  <1>1. ASSUME TypeOK, ConsensusInvariant PROVE FinalityIrrevocable
    <2>. SUFFICES ASSUME NEW y \in Block, NEW x \in Block, hdr[y].last_final # NoHash,
                         Height(x) > Height(hdr[y].last_final)
                  PROVE  \/ hdr[x].prev = hdr[y].last_final
                         \/ Height(hdr[x].prev) > Height(hdr[y].last_final)
      BY DEF FinalityIrrevocable, FinalBlocks
    <2>. DEFINE f == hdr[y].last_final
                q == hdr[x].prev
    <2>1. PICK c \in Block \ {Genesis}, d \in Block \ {Genesis} :
             /\ hdr[c].prev = f /\ Height(c) = Height(f) + 1
             /\ hdr[d].prev = c /\ Height(d) = Height(c) + 1
      BY <1>1 DEF ConsensusInvariant, HeadersApproved, HasTwoConfirmations
    <2>2. /\ f \in Block /\ Height(f) \in Nat /\ Height(c) \in Nat
          /\ Height(d) \in Nat /\ Height(x) \in Nat
      BY <1>1 DEF TypeOK, Height
    <2>3. x # Genesis
      <3>1. Height(Genesis) = 0
        BY <1>1 DEF ConsensusInvariant, HeadersApproved
      <3>. QED
        BY <2>2, <3>1
    <2>4. q \in Block /\ Height(q) \in Nat
      BY <1>1, <2>3 DEF TypeOK, ConsensusInvariant, HeadersApproved, Height
    <2>5. /\ Height(q) >= Height(f)
          /\ Height(x) = Height(c) /\ Height(q) = Height(f) => q = f
      BY <1>1, <2>1, <2>2, <2>3, PastAnEndorsedParent
    <2>6. Height(x) > Height(c) => Height(q) >= Height(c)
      BY <1>1, <2>1, <2>2, <2>3, PastAnEndorsedParent
    <2>. QED
      BY <2>1, <2>2, <2>4, <2>5, <2>6
  <1>. QED
    BY <1>1, TypeCorrect, ConsensusInvariantHolds, PTL

-----------------------------------------------------------------------------
(* Heads, tips and produced blocks                                         *)

\* The assertion of handle_block_production never fires: whatever is accepted, saved
\* or lost in a crash, the head never gets above the latest known height.
THEOREM HeadBelowLatestKnownHolds == Spec => []HeadBelowLatestKnown
  <1>1. ConsensusInvariant => HeadBelowLatestKnown
    BY DEF ConsensusInvariant, HeadsInvariant, HeadBelowLatestKnown
  <1>. QED
    BY <1>1, ConsensusInvariantHolds, PTL

\* An honest producer signs at most one block of a height, however often it crashes
\* between the commit of latest_known and the broadcast.
THEOREM HonestNeverSignsTwiceHolds == Spec => []HonestNeverSignsTwice
  <1>1. Init => HonestNeverSignsTwice
    BY DEF Init, HonestNeverSignsTwice
  <1>2. ASSUME TypeOK, ConsensusInvariant, HonestNeverSignsTwice, [Next]_vars
        PROVE  HonestNeverSignsTwice'
    <2>1. CASE UNCHANGED hdr
      BY <1>2, <2>1 DEF HonestNeverSignsTwice, Height
    <2>2. ASSUME NEW b, NEW p \in Block, NEW h \in 1 .. MaxHeight, Publish(b, p, h),
                 Producer(h) \in Honest => h > latest_known[Producer(h)]
          PROVE  HonestNeverSignsTwice'
      <3>1. /\ Block' = Block \cup {b} /\ b \notin Block
            /\ \A x \in Block : hdr'[x] = hdr[x]
            /\ hdr'[b] = NewHeader(p, h)
        BY <2>2, PublishExtends, ZenonT(30)
      <3>2. Height(b)' = h /\ \A x \in Block : Height(x)' = Height(x) /\ Height(x) \in Nat
        BY <1>2, <3>1 DEF NewHeader, Height, TypeOK
      <3>3. ASSUME NEW x \in Block \ {Genesis}, Height(x) = h PROVE Producer(h) \notin Honest
        BY <1>2, <2>2, <3>3 DEF ConsensusInvariant, HeadsInvariant, TypeOK
      <3>. QED
        BY <1>2, <3>1, <3>2, <3>3 DEF HonestNeverSignsTwice
    <2>3. ASSUME NEW n \in Honest, NEW h \in 1 .. MaxHeight, NEW c, ProduceBlock(n, h, c)
          PROVE  HonestNeverSignsTwice'
      <3>1. /\ Publish(Hash(head[n], h, c), head[n], h) /\ head[n] \in Block
            /\ Producer(h) \in Honest => h > latest_known[Producer(h)]
        BY <1>2, <2>3 DEF ProduceBlock, CanProduceBlock, TypeOK
      <3>. QED
        BY <2>2, <3>1
    <2>4. ASSUME NEW p \in Block, NEW h \in 1 .. MaxHeight, NEW c, FaultyProduceBlock(p, h, c)
          PROVE  HonestNeverSignsTwice'
      <3>1. Publish(Hash(p, h, c), p, h) /\ Producer(h) \notin Honest
        BY <2>4 DEF FaultyProduceBlock, Honest
      <3>. QED
        BY <2>2, <3>1
    <2>5. \/ UNCHANGED hdr
          \/ \E n \in Honest, h \in 1 .. MaxHeight : \E c \in Content(n) : ProduceBlock(n, h, c)
          \/ \E p \in Block, h \in 1 .. MaxHeight : \E c \in Content(Producer(h)) :
                 FaultyProduceBlock(p, h, c)
      BY <1>2 DEF Next, vars, TimerStep, BlockStep, UpdateTip, TimerEndorse, TimerSkip,
             CrashBeforeSending, AcceptBlock, CrashAccepting, CrashProducing, Crash, Restart
    <2>. QED
      BY <2>1, <2>3, <2>4, <2>5
  <1>. QED
    BY <1>1, <1>2, TypeCorrect, ConsensusInvariantHolds, PTL DEF Spec

\* The debug assertion of set_tip never fires: within one run of the process, a tip is
\* only replaced by a higher one.
THEOREM TipRisesHolds == Spec => TipRises
  <1>. DEFINE Rises == \A n \in Honest :
                          tip[n] # NoHash /\ tip'[n] # NoHash /\ tip'[n] # tip[n]
                              => hdr'[tip'[n]].height > hdr[tip[n]].height
  <1>1. ASSUME TypeOK, ApprovalsBelowTarget, [Next]_vars PROVE Rises
    <2>. SUFFICES ASSUME NEW m \in Honest,
                         tip[m] # NoHash, tip'[m] # NoHash, tip'[m] # tip[m]
                  PROVE  hdr'[tip'[m]].height > hdr[tip[m]].height
      OBVIOUS
    <2>1. tip[m] = head[m]
      BY <1>1 DEF ApprovalsBelowTarget
    <2>2. ASSUME NEW n \in Honest, NEW b \in Block, AcceptBlock(n, b)
          PROVE  hdr'[tip'[m]].height > hdr[tip[m]].height
      <3>1. tip[n] # NewHead(n, b) /\ SetTip(n, NewHead(n, b)) /\ UNCHANGED hdr
        BY <2>2 DEF AcceptBlock, slug
      <3>2. m = n /\ tip'[m] = NewHead(n, b)
        BY <1>1, <3>1 DEF SetTip, TypeOK
      <3>3. Height(NewHead(n, b)) > Height(head[n])
        BY <2>1, <3>1, <3>2 DEF NewHead
      <3>. QED
        BY <2>1, <3>1, <3>2, <3>3 DEF Height
    <2>3. ASSUME NEW n \in Honest, UpdateTip(n)
          PROVE  hdr'[tip'[m]].height > hdr[tip[m]].height
      BY <1>1, <2>1, <2>3 DEF UpdateTip, SetTip, TypeOK
    <2>4. ASSUME NEW n \in Honest, NEW t, Restart(n, t)
          PROVE  hdr'[tip'[m]].height > hdr[tip[m]].height
      BY <1>1, <2>4 DEF Restart, TypeOK
    <2>5. \/ UNCHANGED tip
          \/ \E n \in Honest, b \in Block : AcceptBlock(n, b)
          \/ \E n \in Honest : UpdateTip(n)
          \/ \E n \in Honest : \E t : Restart(n, t)
      BY <1>1 DEF Next, vars, TimerStep, BlockStep, TimerEndorse, TimerSkip, ProduceBlock,
             CrashBeforeSending, CrashAccepting, CrashProducing, Crash, FaultyProduceBlock, slug
    <2>. QED
      BY <2>2, <2>3, <2>4, <2>5
  <1>2. TypeOK /\ ConsensusInvariant /\ [Next]_vars => [Rises]_vars
    BY <1>1 DEF ConsensusInvariant
  <1>. QED
    BY <1>2, TypeCorrect, ConsensusInvariantHolds, PTL DEF Spec, TipRises

-----------------------------------------------------------------------------
(* Walking back from a header                                              *)

\* The walk starts at b and goes from each header to its parent.
LEMMA WalkUnfolds ==
    ASSUME TypeOK, NEW b \in Block, NEW k \in Nat
    PROVE  /\ Walk(b, k) \in [0 .. k - 1 -> Block \cup {NoHash}]
           /\ \A i \in 0 .. k - 1 :
                Walk(b, k)[i] = IF i = 0 THEN b
                                ELSE IF Walk(b, k)[i - 1] = NoHash THEN NoHash
                                ELSE hdr[Walk(b, k)[i - 1]].prev
  <1>. DEFINE V == Block \cup {NoHash}
              back == [x \in V |-> IF x = NoHash THEN NoHash ELSE hdr[x].prev]
              Eq(f) == f = [i \in 0 .. k - 1 |->
                              IF i = 0 THEN b
                              ELSE IF f[i - 1] = NoHash THEN NoHash ELSE hdr[f[i - 1]].prev]
  <1>1. back \in [V -> V] /\ b \in V
    BY DEF TypeOK
  <1>2. \A x \in V : back[x] = IF x = NoHash THEN NoHash ELSE hdr[x].prev
    OBVIOUS
  <1>. HIDE DEF back, V
  <1>3. PICK f \in [0 .. k - 1 -> V] :
           \A i \in 0 .. k - 1 : f[i] = IF i = 0 THEN b ELSE back[f[i - 1]]
    BY <1>1, IterationExists
  <1>4. Eq(f)
    <2>1. ASSUME NEW i \in 0 .. k - 1, i # 0 PROVE f[i - 1] \in V
      BY <1>3, <2>1
    <2>2. \A i \in 0 .. k - 1 :
             f[i] = IF i = 0 THEN b
                    ELSE IF f[i - 1] = NoHash THEN NoHash ELSE hdr[f[i - 1]].prev
      BY <1>2, <1>3, <2>1
    <2>. QED
      BY <1>3, <2>2
  <1>5. Walk(b, k) = CHOOSE g : Eq(g)
    BY DEF Walk
  <1>. HIDE DEF Eq
  <1>6. Eq(Walk(b, k))
    BY <1>4, <1>5, Zenon
  <1>7. \A i \in 0 .. k - 1 :
           Walk(b, k)[i] = IF i = 0 THEN b
                           ELSE IF Walk(b, k)[i - 1] = NoHash THEN NoHash
                           ELSE hdr[Walk(b, k)[i - 1]].prev
    BY <1>6 DEF Eq
  <1>8. \A i \in 0 .. k - 1 : Walk(b, k)[i] \in Block \cup {NoHash}
    <2>. DEFINE S == {i \in Nat : i \in 0 .. k - 1 => Walk(b, k)[i] \in Block \cup {NoHash}}
    <2>1. 0 \in S
      BY <1>7
    <2>2. ASSUME NEW i \in Nat, i \in S PROVE i + 1 \in S
      <3>. SUFFICES ASSUME i + 1 \in 0 .. k - 1
                    PROVE  Walk(b, k)[i + 1] \in Block \cup {NoHash}
        OBVIOUS
      <3>1. i \in 0 .. k - 1 /\ Walk(b, k)[i] \in Block \cup {NoHash}
        BY <2>2
      <3>2. Walk(b, k)[i + 1] = IF Walk(b, k)[i] = NoHash THEN NoHash
                                ELSE hdr[Walk(b, k)[i]].prev
        BY <1>7
      <3>. QED
        BY <3>1, <3>2 DEF TypeOK
    <2>. HIDE DEF S
    <2>3. \A i \in Nat : i \in S
      BY <2>1, <2>2, NaturalInduction
    <2>. QED
      BY <2>3 DEF S
  <1>9. Walk(b, k) = [i \in 0 .. k - 1 |-> Walk(b, k)[i]]
    BY <1>6 DEF Eq
  <1>. QED
    BY <1>7, <1>8, <1>9

\* A final block or the genesis block, seen from any block above it.
LEMMA ThroughFinal ==
    ASSUME TypeOK, ConsensusInvariant, FinalityIrrevocable,
           NEW f \in FinalBlocks \cup {Genesis}, NEW x \in Block, Height(x) > Height(f)
    PROVE  /\ hdr[x].prev \in Block /\ Height(hdr[x].prev) < Height(x)
           /\ hdr[x].prev = f \/ Height(hdr[x].prev) > Height(f)
  <1>1. f \in Block /\ Height(f) \in Nat /\ Height(x) \in Nat
    BY DEF TypeOK, FinalBlocks, Height
  <1>2. x # Genesis
    BY <1>1 DEF ConsensusInvariant, HeadersApproved
  <1>3. hdr[x].prev \in Block /\ Height(hdr[x].prev) < Height(x) /\ Height(hdr[x].prev) \in Nat
    BY <1>2 DEF ConsensusInvariant, HeadersApproved, TypeOK, Height
  <1>4. CASE f \in FinalBlocks
    BY <1>3, <1>4 DEF FinalityIrrevocable
  <1>5. CASE f = Genesis
    <2>1. \A y \in Block \ {Genesis} : Height(y) > 0
      BY DEF ConsensusInvariant, HeadersApproved, TypeOK, Height
    <2>2. Height(Genesis) = 0
      BY DEF ConsensusInvariant, HeadersApproved
    <2>. QED
      BY <1>3, <1>5, <2>1, <2>2
  <1>. QED
    BY <1>3, <1>4, <1>5

\* Walking back from a block above a final one, every header is above it too until
\* the final one is met.
LEMMA WalkMeetsFinal ==
    ASSUME TypeOK, ConsensusInvariant, FinalityIrrevocable,
           NEW f \in FinalBlocks \cup {Genesis}, NEW b \in Block, Height(b) > Height(f),
           NEW k \in Nat, NEW i \in 0 .. k - 1
    PROVE  \/ \E j \in 0 .. i : Walk(b, k)[j] = f
           \/ /\ Walk(b, k)[i] \in Block
              /\ Height(Walk(b, k)[i]) > Height(f) /\ Height(Walk(b, k)[i]) + i <= Height(b)
  <1>. DEFINE path == Walk(b, k)
              Met(n) == \E j \in 0 .. n : path[j] = f
              Above(n) == /\ path[n] \in Block
                          /\ Height(path[n]) > Height(f) /\ Height(path[n]) + n <= Height(b)
              S == {n \in Nat : n \in 0 .. k - 1 => Met(n) \/ Above(n)}
  <1>1. \A n \in 0 .. k - 1 :
           path[n] = IF n = 0 THEN b
                     ELSE IF path[n - 1] = NoHash THEN NoHash ELSE hdr[path[n - 1]].prev
    BY WalkUnfolds
  <1>2. \A x \in Block : Height(x) \in Nat
    BY DEF TypeOK, Height
  <1>. HIDE DEF path
  <1>3. 0 \in S
    BY <1>1, <1>2
  <1>4. ASSUME NEW n \in Nat, n \in S PROVE n + 1 \in S
    <2>. SUFFICES ASSUME n + 1 \in 0 .. k - 1 PROVE Met(n + 1) \/ Above(n + 1)
      OBVIOUS
    <2>1. n \in 0 .. k - 1 /\ (Met(n) \/ Above(n))
      BY <1>4
    <2>2. CASE Met(n)
      BY <2>2
    <2>3. CASE Above(n)
      <3>1. path[n + 1] = hdr[path[n]].prev
        BY <1>1, <2>1, <2>3 DEF TypeOK
      <3>2. /\ hdr[path[n]].prev \in Block /\ Height(hdr[path[n]].prev) < Height(path[n])
            /\ hdr[path[n]].prev = f \/ Height(hdr[path[n]].prev) > Height(f)
        BY <2>3, ThroughFinal
      <3>3. Met(n + 1) \/ Height(path[n + 1]) > Height(f)
        BY <3>1, <3>2
      <3>. QED
        BY <1>2, <2>3, <3>1, <3>2, <3>3
    <2>. QED
      BY <2>1, <2>2, <2>3
  <1>. HIDE DEF S
  <1>5. \A n \in Nat : n \in S
    BY <1>3, <1>4, NaturalInduction
  <1>. QED
    BY <1>5 DEF S, path

\* A block above a final one has it in its chain.
LEMMA FinalInChain ==
    ASSUME TypeOK, ConsensusInvariant, FinalityIrrevocable,
           NEW f \in FinalBlocks \cup {Genesis}, NEW b \in Block, Height(b) > Height(f)
    PROVE  f \in ChainOf(b)
  <1>. DEFINE path == Walk(b, MaxHeight + 1)
  <1>1. MaxHeight \in Nat /\ MaxHeight + 1 \in Nat /\ MaxHeight \in 0 .. (MaxHeight + 1) - 1
    BY HeightAssumption
  <1>2. /\ f \in Block /\ f # NoHash /\ Height(f) \in Nat /\ Height(b) <= MaxHeight
        /\ \A x \in Block : Height(x) \in Nat
    BY DEF TypeOK, FinalBlocks, Height, ConsensusInvariant, HeadsInvariant
  <1>3. DOMAIN path = 0 .. MaxHeight
    BY <1>1, WalkUnfolds
  <1>4. \/ \E j \in 0 .. MaxHeight : path[j] = f
        \/ /\ path[MaxHeight] \in Block
           /\ Height(path[MaxHeight]) > Height(f) /\ Height(path[MaxHeight]) + MaxHeight <= Height(b)
    BY <1>1, WalkMeetsFinal
  <1>. HIDE DEF path
  <1>5. \E j \in 0 .. MaxHeight : path[j] = f
    BY <1>1, <1>2, <1>4
  <1>. QED
    BY <1>2, <1>3, <1>5, Zenon DEF ChainOf, path

LEMMA FinalHeadIsFinal ==
    ASSUME TypeOK, ConsensusInvariant, NEW n \in Honest
    PROVE  final_head[n] \in FinalBlocks \cup {Genesis}
  <1>1. final_head[n] # Genesis => \E b \in Block : hdr[b].last_final = final_head[n]
    BY DEF ConsensusInvariant, HeadsInvariant
  <1>2. final_head[n] # NoHash
    BY DEF TypeOK
  <1>. QED
    BY <1>1, <1>2 DEF FinalBlocks

\* Fork choice by height alone and finality fit together: the head of every node is
\* built on its final head, and check_if_finalizable lets every higher block through.
THEOREM HigherBlocksAreFinalizableHolds == Spec => []HigherBlocksAreFinalizable
  <1>1. ASSUME TypeOK, ConsensusInvariant, FinalityIrrevocable PROVE HigherBlocksAreFinalizable
    <2>. TypeOK /\ ConsensusInvariant /\ FinalityIrrevocable
      BY <1>1
    <2>. SUFFICES ASSUME NEW n \in Honest
                  PROVE  /\ final_head[n] \in ChainOf(head[n])
                         /\ \A b \in Block \ store[n] :
                              Height(b) > Height(final_head[n]) => CheckIfFinalizable(n, b)
      BY DEF HigherBlocksAreFinalizable
    <2>. DEFINE f == final_head[n]
    <2>1. f \in FinalBlocks \cup {Genesis} /\ f \in Block /\ head[n] \in Block
      BY FinalHeadIsFinal DEF TypeOK
    <2>2. f \in ChainOf(head[n])
      <3>1. CASE Height(f) < Height(head[n])
        BY <2>1, <3>1, FinalInChain DEF TypeOK, Height
      <3>2. CASE f = head[n]
        <4>. DEFINE path == Walk(f, MaxHeight + 1)
        <4>1. MaxHeight + 1 \in Nat /\ 0 \in 0 .. (MaxHeight + 1) - 1
          BY HeightAssumption
        <4>2. 0 \in DOMAIN path /\ path[0] = f
          BY <2>1, <4>1, WalkUnfolds
        <4>3. f # NoHash
          BY <2>1 DEF TypeOK
        <4>. QED
          BY <3>2, <4>2, <4>3, Zenon DEF ChainOf
      <3>. QED
        BY <3>1, <3>2 DEF ConsensusInvariant, HeadsInvariant
    <2>3. ASSUME NEW b \in Block, Height(b) > Height(f) PROVE CheckIfFinalizable(n, b)
      <3>. DEFINE k == NUM_PARENTS_TO_CHECK_FINALITY
                  path == Walk(b, k)
      <3>1. k \in Nat /\ DOMAIN path = 0 .. k - 1
        BY HeightAssumption, WalkUnfolds
      <3>2. ASSUME NEW i \in 0 .. k - 1, path[i] # NoHash, Height(path[i]) < Height(f)
            PROVE  \E j \in 0 .. k - 1 : j < i /\ path[j] = f
        <4>1. Height(f) \in Nat
          BY <2>1 DEF TypeOK, Height
        <4>2. \/ \E j \in 0 .. i : path[j] = f
              \/ path[i] \in Block /\ Height(path[i]) > Height(f)
          BY <2>1, <2>3, <3>1, <3>2, WalkMeetsFinal
        <4>. HIDE DEF path
        <4>3. PICK j \in 0 .. i : path[j] = f
          BY <3>2, <4>1, <4>2 DEF TypeOK, Height
        <4>4. j # i
          BY <3>2, <4>1, <4>3, LessIrreflexive, Zenon
        <4>. QED
          BY <3>1, <3>2, <4>3, <4>4
      <3>. QED
        BY <3>1, <3>2 DEF CheckIfFinalizable
    <2>. QED
      BY <2>2, <2>3
  <1>. QED
    BY <1>1, TypeCorrect, ConsensusInvariantHolds, FinalityHolds, PTL

\* update_final_head_from_block compares heights only: still the final head of a node
\* is only ever replaced by one of its descendants.
THEOREM FinalHeadExtendsHolds == Spec => FinalHeadExtends
  <1>. DEFINE Extends == \A n \in Honest : final_head'[n] # final_head[n]
                                              => final_head[n] \in ChainOf(final_head[n])'
  <1>1. ASSUME TypeOK, ConsensusInvariant, FinalityIrrevocable, [Next]_vars PROVE Extends
    <2>. TypeOK /\ ConsensusInvariant /\ FinalityIrrevocable
      BY <1>1
    <2>. SUFFICES ASSUME NEW m \in Honest, final_head'[m] # final_head[m]
                  PROVE  final_head[m] \in ChainOf(final_head[m])'
      OBVIOUS
    <2>1. PICK n \in Honest, b \in Block : AcceptBlock(n, b)
      BY <1>1 DEF Next, vars, chain, TimerStep, BlockStep, UpdateTip, TimerEndorse, TimerSkip,
             CrashBeforeSending, CrashAccepting, ProduceBlock, CrashProducing, Crash, Restart,
             FaultyProduceBlock
    <2>2. /\ UNCHANGED hdr
          /\ final_head' = [final_head EXCEPT ![n] = NewFinalHead(n, b)]
      BY <2>1 DEF AcceptBlock
    <2>3. m = n /\ final_head'[m] = NewFinalHead(n, b)
      BY <2>2 DEF TypeOK
    <2>. DEFINE g == hdr[b].last_final
    <2>4. final_head'[m] = g /\ g \in Block /\ Height(g) > Height(final_head[m])
      BY <2>2, <2>3 DEF NewFinalHead, TypeOK
    <2>5. final_head[m] \in ChainOf(g)
      BY <2>4, FinalHeadIsFinal, FinalInChain
    <2>6. ChainOf(final_head[m])' = ChainOf(g)
      <3>. DEFINE W(H, b0, k) ==
                    LET path[i \in 0 .. k - 1] ==
                          IF i = 0 THEN b0
                          ELSE LET x == path[i-1] IN IF x = NoHash THEN NoHash ELSE H[x].prev
                    IN  path
                  C(p) == {p[i] : i \in DOMAIN p} \ {NoHash}
      <3>1. /\ ChainOf(g) = C(W(hdr, g, MaxHeight + 1))
            /\ ChainOf(final_head[m])' = C(W(hdr', final_head'[m], MaxHeight + 1))
        BY DEF ChainOf, Walk
      <3>. HIDE DEF W, C
      <3>. QED
        BY <2>2, <2>4, <3>1
    <2>. QED
      BY <2>5, <2>6
  <1>2. TypeOK /\ ConsensusInvariant /\ FinalityIrrevocable /\ [Next]_vars => [Extends]_vars
    BY <1>1
  <1>. QED
    BY <1>2, TypeCorrect, ConsensusInvariantHolds, FinalityHolds, PTL DEF Spec, FinalHeadExtends
=============================================================================
