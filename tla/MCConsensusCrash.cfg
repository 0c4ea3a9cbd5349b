CONSTANTS
    v1 = v1
    v2 = v2
    v3 = v3
    Validator <- ThreeValidators
    Faulty = {v3}
    Failing = {v1}
    Quorum <- ThreeQuorums
    Genesis = 0
    NoHash = NoHash
    Content <- TwoContents
    Hash <- MCHash
    Producer <- ThreeProducer
    MaxHeight = 3
    NUM_PARENTS_TO_CHECK_FINALITY = 5
SPECIFICATION Spec
CHECK_DEADLOCK FALSE
INVARIANTS
    FinalityInvariant
    HonestNeverSignsTwice
    HeadBelowLatestKnown
PROPERTIES
    TipRises
