CONSTANTS
    UsedStages = {"Candidate", "Verified", "Staged", "Quarantined", "Retired"}
    Entry = "Candidate"
    MaxEdges = 6
SPECIFICATION Spec
INVARIANTS AcceptedGraphIsSound AcceptedCyclesAreHeld WellFormedGraphIsAccepted
CHECK_DEADLOCK FALSE
