CONSTANTS
    v1 = v1
    v2 = v2
    v3 = v3
    Validator <- ThreeValidators
    Faulty = {v3}
    Failing = {}
    Quorum <- ThreeQuorums
    Genesis = 0
    NoHash = NoHash
    Content <- OneContent
    Hash <- MCHash
    Producer <- ThreeProducer
    MaxHeight = 4
    NUM_PARENTS_TO_CHECK_FINALITY = 5
SPECIFICATION Spec
CHECK_DEADLOCK FALSE
INVARIANTS
    DoomslugFinality
    FinalityIrrevocable
    HigherBlocksAreFinalizable
PROPERTIES
    FinalHeadExtends
