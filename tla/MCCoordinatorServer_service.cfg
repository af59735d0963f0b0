CONSTANTS
    t1 = t1
    t2 = t2
    Threads = {t1, t2}
    Clients <- Single
    Frames <- AllFrames
    MaxIncarnations = 1
    MaxFrames = 2
    SavesMayFail = TRUE
SPECIFICATION Spec
PROPERTIES ServedIsAnswered
CHECK_DEADLOCK FALSE
