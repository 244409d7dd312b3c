SPECIFICATION FairStreamTimelineSpec
CONSTANTS
    Streams = {s1, s2}
    Threads = {t1, t2}
    NoThread = NoThread
    MaxStreamLength = 1
    MaxCommands = 1
    CallsMayThrow = FALSE
PROPERTIES WaitsEnd CommandTimelineSpec
CHECK_DEADLOCK FALSE
