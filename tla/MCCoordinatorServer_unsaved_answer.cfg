CONSTANTS
    t1 = t1
    t2 = t2
    Threads = {t1, t2}
    Clients <- Restarted
    Frames <- RetriedFrame
    MaxIncarnations = 2
    MaxFrames = 2
    SavesMayFail = FALSE
SPECIFICATION Spec
INVARIANT SuccessIsDurable
CHECK_DEADLOCK FALSE
