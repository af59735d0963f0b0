CONSTANTS
    ArtifactIds = {"a"}
    Registrations <- TwoRevisions
    Submissions = {}
    Requests <- RevisionRequests
    Policies <- OpenPolicies
    InitialPolicy <- OpenPolicy
    Instants = {0}
    Epochs = {}
    CompatibilityGenerations = {}
    QuarantineIds = {}
    WithdrawalIds = {}
    VetoIds = {}
    RevocationTargets = {}
    AdmissionStates = {}
    MaxArtifacts = 1
    MaxRevisions = 2
    MaxEvidence = 2
    MaxEvidencePerRevision = 2
    MaxPending = 1
    MaxPlans = 3
    MaxRecords = 4
    PlanTtl = 2
    FutureSkew = 1
    WordSize = 16
    InternalRequest = InternalRequest
    NoRequest = NoRequest
    DecisionLimit = 3
    EvidenceLimit = 1
SPECIFICATION Spec
INVARIANTS OneAuthoritativeRevision
CHECK_DEADLOCK FALSE
