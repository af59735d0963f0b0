CONSTANTS
    Clients <- Restarted
    Calls = {"Promotion"}
    Sockets = {1, 2, 3}
    MaxIncarnations = 2
    StrangerFrames <- Strange
    SendBuffer = 1
    MaxDisturbances = 1
SPECIFICATION Spec
INVARIANTS TypeOK FramesCarryCurrentAuthority
PROPERTIES OlderBootNeverReturns StopReturns CallReturns OutcomeIsLearned
CHECK_DEADLOCK FALSE
