SPECIFICATION Spec
CONSTANTS
    j1 = j1
    j2 = j2
    j3 = j3
    Jobs <- ThreeJobs
    Bits <- TwoBits
    EncodeKey <- EncodeKeyDef
    Keys <- AllKeys
    KeyRoom = 3
    HeadSize = 2
    Inputs <- AllInputs
    Buffs = {2, 3}
    MaxSets = 1
INVARIANTS SameKeyRestores
ACTION_CONSTRAINT Asked
CHECK_DEADLOCK FALSE
