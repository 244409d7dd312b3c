SPECIFICATION FairQueueSpec
CONSTANTS
    Streams = {s1, s2}
    Threads = {t1, t2}
    Buffers = {b1}
    NoTimeline = NoTimeline
    OtherTimeline = OtherTimeline
    MaxStreamLength = 6
    MaxSubmits = 2
    CallsMayThrow = TRUE
INVARIANTS QueueTypeOK WorkFollowsDependencies WorkKeepsItsMemory
PROPERTY SubmitsEnd
CHECK_DEADLOCK FALSE
