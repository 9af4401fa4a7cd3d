SPECIFICATION USpec
CONSTANTS
    j1 = j1
    j2 = j2
    Jobs <- OneJob
    Names = {"a"}
    Sizes = {1, 3}
    Kinds = {"plain"}
    Settings <- OneOrTwoCores
    MaySet = TRUE
    Faults = {"archive", "prepare", "temp", "out", "block", "write", "throw", "dense", "dearchive"}
INVARIANTS SingleThreadWhole NothingLeft RestoresAllBlocks
PROPERTIES EveryOperationEnds
ACTION_CONSTRAINT FewFail
CHECK_DEADLOCK FALSE
