CONSTANTS
    endorsement_delay = 1
    min_delay = 2
    delay_step = 1
    max_delay = 3
    MAX_TIMER_ITERS = 2
    MaxHeight = 3
    MaxLate = 7
    MaxRestarts = 1
SPECIFICATION Spec
CHECK_DEADLOCK FALSE
INVARIANTS
    TimerInvariant
    NoSkipWithPendingEndorsement
PROPERTIES
    KeepsPromise
    EveryHeightIsReached
