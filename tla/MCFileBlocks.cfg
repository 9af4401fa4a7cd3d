SPECIFICATION Spec
CONSTANTS
    Sizes <- MCSizes
    Buffs <- MCBuffs
    Word = 16
INVARIANTS PackedWhole RestoredWhole
PROPERTIES Ends
CHECK_DEADLOCK FALSE
