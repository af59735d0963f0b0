CONSTANTS
    ArtifactIds = {"a"}
    Registrations <- OneRevision
    Submissions <- OneSubmission
    Requests <- RacingRequests
    Policies <- TwoGenerations
    InitialPolicy <- PolicyA1
    Instants = {0}
    Epochs = {2}
    CompatibilityGenerations = {2}
    QuarantineIds = {}
    WithdrawalIds = {}
    VetoIds = {}
    RevocationTargets = {}
    AdmissionStates = {}
    MaxArtifacts = 1
    MaxRevisions = 1
    MaxEvidence = 2
    MaxEvidencePerRevision = 2
    MaxPending = 1
    MaxPlans = 3
    MaxRecords = 4
    PlanTtl = 2
    FutureSkew = 1
    WordSize = 16
    InternalRequest = InternalRequest
    NoRequest = NoRequest
    DecisionLimit = 3
    EvidenceLimit = 1
SPECIFICATION Spec
INVARIANTS TypeOK PlanInvariant IdempotencyAgreesWithRecords
PROPERTIES OldAuthorityNeverCommits ImplementsExclusivePromotion
CHECK_DEADLOCK FALSE
