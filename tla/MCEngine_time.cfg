CONSTANTS
    ArtifactIds = {"a"}
    Registrations <- OneRevision
    Submissions <- TimedSubmissions
    Requests <- TimedRequests
    Policies <- FreshPolicies
    InitialPolicy <- FreshPolicy
    Instants = {0, 1, 3, 6}
    Epochs = {}
    CompatibilityGenerations = {}
    QuarantineIds = {}
    WithdrawalIds = {}
    VetoIds = {}
    RevocationTargets = {}
    AdmissionStates = {}
    MaxArtifacts = 1
    MaxRevisions = 1
    MaxEvidence = 2
    MaxEvidencePerRevision = 1
    MaxPending = 1
    MaxPlans = 3
    MaxRecords = 4
    PlanTtl = 2
    FutureSkew = 1
    WordSize = 16
    InternalRequest = InternalRequest
    NoRequest = NoRequest
    DecisionLimit = 2
    EvidenceLimit = 2
SPECIFICATION Spec
INVARIANTS OneRecordPerEvidenceKey LiveEvidenceIsBounded
PROPERTIES StaleEvidenceNeverCommits
CHECK_DEADLOCK FALSE
