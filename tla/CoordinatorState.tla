--------------------------- MODULE CoordinatorState ---------------------------
(***************************************************************************)
(* The authoritative state of the promotion coordinator (CoordinatorState  *)
(* of domain/store.cpp, and the records it holds), its bounds              *)
(* (EngineConfig) and its lookups.                                         *)
(*                                                                         *)
(* Identities.  A revision is named by its place in its artifact's chain   *)
(* and a decision or an evidence record by its place in its sequence: the  *)
(* generators of the code issue increasing identities and these three      *)
(* collections only grow.  Plans, reservations, promotion records and      *)
(* idempotency records are sets of records that carry their key.  0 is the *)
(* invalid identity, as in the code.                                       *)
(*                                                                         *)
(* Left out: the audit history, sequence numbers, explanations and free    *)
(* text, which no guard of the engine reads, and the digest of a request,  *)
(* which only tells two answers apart that both change nothing.            *)
(***************************************************************************)
EXTENDS PromotionPolicy

CONSTANTS
    ArtifactIds,             \* artifact identities
    Registrations,           \* the ArtifactRegistration values offered
    Submissions,             \* the EvidenceSubmission values offered
    Requests,                \* the PromotionRequest values offered
    Policies,                \* the policies offered to publish_policy()
    InitialPolicy,           \* the policy in force at the start: the reference
                             \* policy of the constructor, or one published
                             \* before anything else happened
    Instants,                \* the readings of the system clock
    Epochs,                  \* the epochs offered to restart()
    CompatibilityGenerations,
    QuarantineIds,           \* the artifacts offered to quarantine() and to
                             \* release_quarantine(),
    WithdrawalIds,           \* to revoke(), supersede() and retire(),
    VetoIds,                 \* and to the two vetoes
    RevocationTargets,       \* the decisions revoke() is given, 0 for none
    AdmissionStates,         \* the changes of admission that may happen
    MaxArtifacts, MaxRevisions,           \* EngineConfig
    MaxEvidence, MaxEvidencePerRevision,
    MaxPending, MaxPlans, MaxRecords,
    PlanTtl, FutureSkew,
    WordSize,                \* 2^64 in the code: the modulus of an age
    InternalRequest,         \* the request identity the engine issues to
                             \* itself to release a quarantine
    NoRequest,               \* in the record of an operation without a request
    DecisionLimit, EvidenceLimit  \* bounds of the model, on collections the
                                  \* code lets grow

RequestIds == {q.request : q \in Requests}

\* Submissions and requests may name an artifact or a revision that does not
\* exist; everything else the code's types and validate() functions require is
\* assumed.
ASSUME InputsAssumption ==
    /\ \A r \in Registrations :
          /\ r.id \in ArtifactIds
          /\ r.dependencies \in Seq(Range(r.dependencies))
    /\ \A s \in Submissions :
          /\ s.subject \in ArtifactIds
          /\ {s.produced, s.valid_from, s.valid_until} \subseteq Nat
          /\ s.has_window \in BOOLEAN
    /\ \A q \in Requests :
          /\ q.artifact \in ArtifactIds
          /\ q.to \in Stage
          /\ q.artifact_revision \in Nat /\ q.attempt \in Nat /\ q.epoch \in Nat
    /\ RequestIds \cap {InternalRequest, NoRequest} = {}
    /\ QuarantineIds \cup WithdrawalIds \cup VetoIds \subseteq ArtifactIds
    /\ RevocationTargets \subseteq Nat
    /\ AdmissionStates \subseteq BOOLEAN

ASSUME PoliciesAssumption ==
    /\ InitialPolicy \in Policies /\ ValidPolicy(InitialPolicy)
    /\ \A p \in Policies :
          /\ p.generation \in Nat /\ p.entry \in Stage
          /\ p.rules \in Seq(Range(p.rules))
          /\ \A i \in DOMAIN p.rules :
                LET gates == p.rules[i].gates
                IN  /\ gates \in Seq(Range(gates))
                    /\ \A g \in DOMAIN gates :
                          gates[g].kind = "EvidenceFreshness"
                             => gates[g].maxAge \in Nat

ASSUME NumbersAssumption ==
    /\ WordSize \in Nat /\ FutureSkew \in Nat
    /\ Instants \subseteq 0 .. WordSize - 1 /\ Instants # {}
    /\ Epochs \subseteq Nat
    /\ CompatibilityGenerations \subseteq Nat
    /\ PlanTtl \in Nat \ {0}
    /\ {MaxArtifacts, MaxRevisions, MaxEvidence, MaxEvidencePerRevision,
        MaxPending, MaxPlans, MaxRecords} \subseteq Nat \ {0}

-----------------------------------------------------------------------------
(* The records of the state.                                               *)

\* PromotionOutcome, the values this engine produces.
Outcome ==
    {"PromotionCommitted", "PromotionEligible", "AlreadyPromoted",
     "PromotionIneligible", "RevalidationRequired", "EvidenceMissing",
     "EvidenceStale", "EvidenceRevoked", "EvidenceMismatch",
     "ProvenanceMissing", "CompatibilityFailed", "ApprovalRequired",
     "SecurityVeto", "DependencyVeto", "Quarantined", "Revoked", "Superseded",
     "Conflict", "PolicyStale", "AuthorityStale", "ArtifactNotFound",
     "DigestMismatch", "TransitionIllegal", "Unsupported",
     "AdmissionRejected"}

ArtifactRecord ==
    [registration : Registrations, stage : Stage, stage_generation : Nat,
     promoted : BOOLEAN, promotion_decision : Nat, quarantined : BOOLEAN,
     revoked : BOOLEAN, superseded : BOOLEAN]

EvidenceRecord ==
    [submission : Submissions, generation : Nat, revoked : BOOLEAN,
     superseded : BOOLEAN]

PromotionDecision ==
    [request : RequestIds \cup {InternalRequest}, outcome : Outcome,
     plan : Nat]

\* The policy stands for its identity, its generation, its digest and the
\* digest of its lifecycle graph; the snapshot for its digest.
PromotionPlan ==
    [id : Nat, request : RequestIds, attempt : Nat, decision : Nat,
     artifact : ArtifactIds, artifact_revision : Nat, from : Stage, to : Stage,
     stage_generation : Nat, policy : Policies, epoch : Nat,
     compatibility : Nat, snapshot : SUBSET Nat, expires : Nat]

PendingTransition ==
    [artifact : ArtifactIds, artifact_revision : Nat, stage_generation : Nat,
     from : Stage, to : Stage, plan : Nat, request : RequestIds,
     attempt : Nat]

PromotionRecord ==
    [id : Nat, artifact : ArtifactIds, artifact_revision : Nat,
     from : Stage, to : Stage, decision : Nat, plan : Nat,
     request : RequestIds \cup {InternalRequest, NoRequest}, epoch : Nat,
     policy_generation : Nat]

IdempotencyRecord ==
    [request : RequestIds, decision : Nat, outcome : Outcome, plan : Nat]

VetoState == [security : BOOLEAN, dependency : BOOLEAN]

-----------------------------------------------------------------------------
VARIABLES
    artifacts,      \* the revision chain of each artifact
    evidence,       \* evidence records
    plans,          \* plans issued and not evicted
    plan_count,     \* plan_generator
    pending,        \* reservations, at most one for each artifact
    decisions,      \* promotion decisions
    records,        \* promotion records not evicted
    record_count,   \* transition_generator
    idempotency,    \* the decision of each request
    policy,         \* the active policy
    epoch,          \* the coordinator epoch
    compatibility_generation,
    vetoes,         \* the vetoes of the artifacts that ever had one
    admission_open,
    now             \* what now_millis() returns

vars == <<artifacts, evidence, plans, plan_count, pending, decisions, records,
          record_count, idempotency, policy, epoch, compatibility_generation,
          vetoes, admission_open, now>>

TypeOK ==
    /\ artifacts \in [ArtifactIds -> Seq(ArtifactRecord)]
    /\ evidence \in Seq(EvidenceRecord)
    /\ plans \subseteq PromotionPlan
    /\ plan_count \in Nat
    /\ pending \subseteq PendingTransition
    /\ decisions \in Seq(PromotionDecision)
    /\ records \subseteq PromotionRecord
    /\ record_count \in Nat
    /\ idempotency \subseteq IdempotencyRecord
    /\ policy \in Policies
    /\ epoch \in Nat
    /\ compatibility_generation \in Nat
    /\ DOMAIN vetoes \subseteq ArtifactIds
    /\ vetoes \in [DOMAIN vetoes -> VetoState]
    /\ admission_open \in BOOLEAN
    /\ now \in Nat

\* The engine as its constructor leaves it.
Init ==
    /\ artifacts = [a \in ArtifactIds |-> <<>>]
    /\ evidence = <<>>
    /\ plans = {} /\ plan_count = 0
    /\ pending = {}
    /\ decisions = <<>>
    /\ records = {} /\ record_count = 0
    /\ idempotency = {}
    /\ policy = InitialPolicy
    /\ epoch = 1
    /\ compatibility_generation = 1
    /\ vetoes = <<>>
    /\ admission_open = TRUE
    /\ now \in Instants

-----------------------------------------------------------------------------
(* Lookups and updates.                                                    *)

\* find_current() is null for an artifact that was never registered, and
\* find_revision() for a revision its chain does not hold.
Registered(id) == artifacts[id] # <<>>
HasRevision(id, revision) == revision \in 1 .. Len(artifacts[id])
Current(id) == Len(artifacts[id])

\* vetoes.find(): an artifact without an entry has no veto.
VetoOf(id) ==
    IF id \in DOMAIN vetoes THEN vetoes[id]
    ELSE [security |-> FALSE, dependency |-> FALSE]

CurrentlyAuthoritative(artifact) ==
    artifact.promoted /\ artifact.stage = "Promoted" /\ ~artifact.revoked

\* Mutant of Release: the reservation is not erased.
ReleaseNothing(id) == pending

Release(id) == {r \in pending : r.artifact # id}

\* std::map::erase(begin()): the smallest identity goes.
DropOldest(S) == {r \in S : \E q \in S : q.id < r.id}

\* Mutant of Evict: it does not wait for the bound.
EvictAlways(S, bound) == DropOldest(S)

\* Mutant of Evict: one entry more than the bound stays.
EvictAbove(S, bound) == IF Cardinality(S) > bound THEN DropOldest(S) ELSE S

Evict(S, bound) == IF Cardinality(S) >= bound THEN DropOldest(S) ELSE S

\* Mutant of StageBefore: the stage is read after the move.
StageAfter(id, revision) == artifacts'[id][revision].stage

StageBefore(id, revision) == artifacts[id][revision].stage

\* The record of one transition of a revision.  A transition made by an
\* operation and not by a plan has plan 0.
AddRecord(id, revision, to, decision, plan, request, authority, generation) ==
    /\ record_count' = record_count + 1
    /\ records' = Evict(records, MaxRecords) \cup
          {[id |-> record_count + 1, artifact |-> id,
            artifact_revision |-> revision,
            from |-> StageBefore(id, revision), to |-> to,
            decision |-> decision, plan |-> plan, request |-> request,
            epoch |-> authority, policy_generation |-> generation]}

-----------------------------------------------------------------------------
\* verify_consistency(): what load() and install_state() demand of a snapshot,
\* for what the state keeps here.  That a revocation or a supersession names a
\* decision or a successor that exists is a guard of the operation.
VerifyConsistency ==
    /\ epoch # 0
    /\ ValidPolicy(policy)
    /\ \A a \in ArtifactIds : \A v \in DOMAIN artifacts[a] :
          artifacts[a][v].promoted => artifacts[a][v].promotion_decision # 0
    /\ \A e \in DOMAIN evidence :
          LET s == evidence[e].submission
          IN  /\ HasRevision(s.subject, s.subject_revision)
              /\ artifacts[s.subject][s.subject_revision].registration.digest
                    = s.subject_digest
    /\ \A p \in plans :
          p.id # 0 /\ p.decision # 0 /\ p.epoch # 0 /\ p.stage_generation # 0
    /\ \A r \in records :
          /\ HasRevision(r.artifact, r.artifact_revision)
          /\ r.to = "Promoted" => r.decision # 0
          /\ r.epoch # 0 /\ r.policy_generation # 0
=============================================================================
