SPECIFICATION Pass
CONSTANTS
    j1 = j1
    j2 = j2
    Jobs <- TwoJobs
    Names = {"a", "b"}
    Sizes = {0, 1, 2, 3, 5}
    Kinds <- AllKinds
    Settings <- CoresAndBuffs
    MaySet = FALSE
    Faults = {}
INVARIANTS TypeOK ResultsApart RestoresInOrder Uncompressible
PROPERTIES ImplementsPromise
ACTION_CONSTRAINT OneAtATime
CHECK_DEADLOCK FALSE
