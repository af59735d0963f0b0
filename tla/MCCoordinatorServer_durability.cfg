CONSTANTS
    t1 = t1
    t2 = t2
    Threads = {t1, t2}
    Clients <- Single
    Frames <- RacingFrames
    MaxIncarnations = 3
    MaxFrames = 2
    SavesMayFail = TRUE
SPECIFICATION Spec
INVARIANTS TypeOK OwnSuccessIsDurable IncarnationsAreFenced CleanIsSaved
PROPERTIES FileNeverGoesBack
SYMMETRY ConnectionSymmetry
CHECK_DEADLOCK FALSE
