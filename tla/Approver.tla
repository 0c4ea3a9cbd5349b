------------------------------ MODULE Approver ------------------------------
(***************************************************************************)
(* What a validator promises about the approvals it issues, without the    *)
(* timer that decides when (implemented by DoomslugTimer).                 *)
(***************************************************************************)
EXTENDS Integers

VARIABLES
    head,        \* height of the validator's head
    target,      \* the largest height it approved
    issued       \* its approvals: the height of the parent and the target height

IsEndorsement(a) == a.target = a.parent + 1

AInit ==
    /\ head = 0
    /\ target = 0
    /\ issued = {}

RaiseHead ==
    /\ head' \in Nat /\ head' > head
    /\ UNCHANGED <<target, issued>>

\* Approvals on the head: an endorsement only as long as nothing at or above the
\* next height was approved before, skips of any of the heights above.
Approve ==
    LET new == issued' \ issued IN
    /\ issued \subseteq issued'
    /\ \A a \in new : a.parent = head /\ a.target > head
    /\ \A a \in new : IsEndorsement(a) => target <= head
    /\ target' >= target
    /\ \A a \in new : a.target <= target'
    /\ UNCHANGED head

ANext == RaiseHead \/ Approve

ASpec == AInit /\ [][ANext]_<<head, target, issued>>
=============================================================================
