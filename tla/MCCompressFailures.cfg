SPECIFICATION USpec
CONSTANTS
    j1 = j1
    j2 = j2
    Jobs <- OneJob
    Names = {"a"}
    Sizes = {2}
    Kinds = {"plain"}
    Settings <- TwoCores
    MaySet = FALSE
    Faults = {"block"}
INVARIANTS FailuresReported
CHECK_DEADLOCK FALSE
