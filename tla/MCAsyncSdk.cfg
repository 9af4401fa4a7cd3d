SPECIFICATION SdkSpec
CONSTANTS
    w1 = w1
    w2 = w2
    t1 = t1
    t2 = t2
    u1 = u1
    u2 = u2
    o1 = o1
    o2 = o2
    NoTask = NoTask
    NoOut = NoOut
    Workers <- TwoWorkers
    Tasks <- TwoTasks
    Utils <- TwoUtils
    Outs <- TwoOuts
    Misuse = {}
INVARIANTS SdkTypeOK OwnCallback NoUseAfterRelease OwnOutput
PROPERTIES CallsBack SdkImplementsAsyncOps
CHECK_DEADLOCK FALSE
