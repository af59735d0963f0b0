CONSTANTS
    ArtifactIds = {"a", "b"}
    Registrations <- Dependents
    Submissions = {}
    Requests <- DependentRequests
    Policies <- DependencyPolicies
    InitialPolicy <- DependencyPolicy
    Instants = {0}
    Epochs = {}
    CompatibilityGenerations = {}
    QuarantineIds = {"a"}
    WithdrawalIds = {"a"}
    VetoIds = {"b"}
    RevocationTargets = {0, 1}
    AdmissionStates = {TRUE, FALSE}
    MaxArtifacts = 2
    MaxRevisions = 1
    MaxEvidence = 2
    MaxEvidencePerRevision = 2
    MaxPending = 1
    MaxPlans = 1
    MaxRecords = 1
    PlanTtl = 2
    FutureSkew = 1
    WordSize = 16
    InternalRequest = InternalRequest
    NoRequest = NoRequest
    DecisionLimit = 3
    EvidenceLimit = 1
SPECIFICATION Spec
INVARIANTS BoundsHold PromotedHasRecord
PROPERTIES DependenciesHoldAuthority
CHECK_DEADLOCK FALSE
