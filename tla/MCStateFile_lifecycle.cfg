CONSTANTS
    ArtifactIds = {"a"}
    Registrations <- TwoRevisions
    Submissions <- OneSubmission
    Requests <- LifecycleRequests
    Policies <- OnePolicy
    InitialPolicy <- PolicyA1
    Instants = {0}
    Epochs = {}
    CompatibilityGenerations = {}
    QuarantineIds = {"a"}
    WithdrawalIds = {"a"}
    VetoIds = {}
    RevocationTargets = {0}
    AdmissionStates = {}
    MaxArtifacts = 1
    MaxRevisions = 2
    MaxEvidence = 2
    MaxEvidencePerRevision = 2
    MaxPending = 1
    MaxPlans = 3
    MaxRecords = 8
    PlanTtl = 2
    FutureSkew = 1
    WordSize = 16
    InternalRequest = InternalRequest
    NoRequest = NoRequest
    DecisionLimit = 3
    EvidenceLimit = 1
    kMaxDecisionGates = 18
    kMaxDecisionReasons = 3
    kMaxChains = 1
    kMaxEntries = 3
    kMaxSnapshotBytes = 58
    ByteSize <- EntryCount
SPECIFICATION FileSpec
INVARIANTS SavedStateLoads ReservationsAccount PlanCommitsOnce RequestCommitsOnce RecordsFormAPath PromotedHasRecord NoAuthorityWithoutTrust
PROPERTIES CommitsFromPlannedStage OnlyCurrentRevisionIsPromoted WithdrawnTrustIsFinal
CHECK_DEADLOCK FALSE
