SPECIFICATION PoolSpec
CONSTANTS
    w1 = w1
    w2 = w2
    t1 = t1
    t2 = t2
    t3 = t3
    NoTask = NoTask
    Workers <- MCWorkers
    Tasks <- MCTasks
INVARIANTS EarlyNotStranded
PROPERTIES FirstJoinDrains JoinTerminates ImplementsAsyncOps
CHECK_DEADLOCK FALSE
