CONSTANTS
    ArtifactIds = {"a"}
    Registrations <- Executable
    Submissions <- EvidenceSet
    Requests <- PipelineRequests
    Policies <- ReferencePolicies
    InitialPolicy <- Reference
    Instants = {1, 4}
    Epochs = {2}
    CompatibilityGenerations = {}
    QuarantineIds = {}
    WithdrawalIds = {}
    VetoIds = {}
    RevocationTargets = {}
    AdmissionStates = {}
    MaxArtifacts = 1
    MaxRevisions = 1
    MaxEvidence = 7
    MaxEvidencePerRevision = 7
    MaxPending = 1
    MaxPlans = 20
    MaxRecords = 20
    PlanTtl = 2
    FutureSkew = 1
    WordSize = 16
    InternalRequest = InternalRequest
    NoRequest = NoRequest
    DecisionLimit = 30
    EvidenceLimit = 7
    Evidence <- ExecutableEvidence
    Subject = "a"
SPECIFICATION PipelineSpec
PROPERTIES PipelineCompletes
CHECK_DEADLOCK FALSE
