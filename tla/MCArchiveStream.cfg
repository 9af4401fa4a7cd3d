SPECIFICATION Spec
CONSTANTS
    Trees <- MCTrees
    NewSizes <- MCNewSizes
    Buff = 2
INVARIANTS TypeOK PrefixIntact OnlyChangesUnsettle
CHECK_DEADLOCK FALSE
