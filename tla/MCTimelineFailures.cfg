SPECIFICATION StreamTimelineSpec
CONSTANTS
    Streams = {s1}
    Threads = {t1, t2, t3}
    NoThread = NoThread
    MaxStreamLength = 2
    MaxCommands = 2
    CallsMayThrow = TRUE
SYMMETRY Symmetry
INVARIANTS StreamTimelineTypeOK PointsStandForCommands WaitersKeepTheirPoint EventsHaveOneOwner GivingBackNeverAllocates WaiterCountIsWaiters
PROPERTY CommandTimelineSpec
CHECK_DEADLOCK FALSE
