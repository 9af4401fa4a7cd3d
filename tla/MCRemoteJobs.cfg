SPECIFICATION Spec
CONSTANTS
    j1 = j1
    j2 = j2
    Jobs <- TwoJobs
    Kinds = {"compress", "uncompress", "encode", "decode"}
    Lengths = {2, 3}
    Dense = {3}
    Keys = {"word"}
    Faults = {"in", "out", "throw"}
    BlockSize = 2
    SourceLimit = 2
    CompressedLimit = 3
    LibDirs <- MCLibDirs
INVARIANTS TypeOK ServesAll TakesTurns AnswersInOrder OneAnswerEach RoundTrip KeyIsNoData
PROPERTIES EveryCallEnds ImplementsPromise
ACTION_CONSTRAINT Asked
CHECK_DEADLOCK FALSE
