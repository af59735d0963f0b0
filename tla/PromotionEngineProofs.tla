------------------------ MODULE PromotionEngineProofs ------------------------
(***************************************************************************)
(* Proofs about the promotion engine, for every value of its constants:    *)
(* its state is well typed, a plan and a request make at most one          *)
(* transition, and a plan of an earlier authority never commits.           *)
(*                                                                         *)
(* The last part says what one step does to each collection and to each    *)
(* revision of an artifact, field by field: the proofs of the other        *)
(* modules about the engine start from there and not from the actions.     *)
(***************************************************************************)
EXTENDS PromotionEngine, SequenceTheorems, TLAPS

-----------------------------------------------------------------------------
(* Lemmas about the operators of the model.                                *)

\* Every outcome that the gates produce is a PromotionOutcome.
LEMMA OutcomeForType ==
    ASSUME NEW code PROVE OutcomeFor(code) \in Outcome
  BY DEF OutcomeFor, Renamed, Outcome

\* So is the result of evaluating all the gates of a transition.
LEMMA EvaluateGatesType ==
    ASSUME NEW q PROVE EvaluateGates(q) \in Outcome
  BY OutcomeForType DEF EvaluateGates, Outcome

\* And so is the verdict of evaluate() on a request.
LEMMA VerdictType ==
    ASSUME NEW q PROVE Verdict(q) \in Outcome
  BY EvaluateGatesType DEF Verdict, Outcome

\* Eviction of plans and records only removes.
LEMMA EvictSubset ==
    ASSUME NEW S, NEW bound PROVE Evict(S, bound) \subseteq S
  BY DEF Evict, DropOldest

\* The stages the engine moves artifacts to by name.
LEMMA NamedStages ==
    {"Candidate", "Promoted", "Quarantined", "Revoked", "Superseded",
     "Retired"} \subseteq Stage
  BY DEF Stage

\* Replacing one revision of one chain keeps the chains well typed and their
\* lengths.
LEMMA ReplaceRevision ==
    ASSUME NEW f \in [ArtifactIds -> Seq(ArtifactRecord)],
           NEW a \in ArtifactIds, NEW v \in 1 .. Len(f[a]),
           NEW e \in ArtifactRecord
    PROVE  LET g == [f EXCEPT ![a] = [f[a] EXCEPT ![v] = e]]
           IN  /\ g \in [ArtifactIds -> Seq(ArtifactRecord)]
               /\ \A b \in ArtifactIds : Len(g[b]) = Len(f[b])
  <1>1. f[a] \in Seq(ArtifactRecord)
    OBVIOUS
  <1>2. /\ [f[a] EXCEPT ![v] = e] \in Seq(ArtifactRecord)
        /\ Len([f[a] EXCEPT ![v] = e]) = Len(f[a])
    BY <1>1, ExceptSeq
  <1> QED  BY <1>2

\* No step shortens a chain: a revision that exists keeps existing.
ChainsGrow == \A a \in ArtifactIds : Len(artifacts[a]) <= Len(artifacts'[a])

\* The revision an operation acts on.
LEMMA CurrentIsRevision ==
    ASSUME TypeOK, NEW id \in ArtifactIds, Registered(id)
    PROVE  /\ HasRevision(id, Current(id))
           /\ CurrentArtifact(id) \in ArtifactRecord
  <1>1. artifacts[id] \in Seq(ArtifactRecord) /\ artifacts[id] # <<>>
    BY DEF TypeOK, Registered
  <1>2. Len(artifacts[id]) \in Nat \ {0}
    BY <1>1, EmptySeq
  <1> QED  BY <1>1, <1>2 DEF HasRevision, Current, CurrentArtifact

\* A revision that exists is an artifact record.
LEMMA RevisionType ==
    ASSUME TypeOK, NEW id \in ArtifactIds, NEW v, HasRevision(id, v)
    PROVE  artifacts[id][v] \in ArtifactRecord
  BY DEF TypeOK, HasRevision

\* A record whose stage changes is an artifact record.
LEMMA RestagedType ==
    ASSUME NEW changed \in ArtifactRecord, NEW to \in Stage
    PROVE  [changed EXCEPT !.stage = to, !.stage_generation = @ + 1]
              \in ArtifactRecord
  <1>1. changed.stage_generation + 1 \in Nat
    BY DEF ArtifactRecord
  <1>2. ASSUME NEW n \in Nat
        PROVE  [changed EXCEPT !.stage = to, !.stage_generation = n]
                  \in ArtifactRecord
    BY Zenon DEF ArtifactRecord
  <1> QED  BY <1>1, <1>2

\* MoveCurrent() keeps the chains well typed.
LEMMA MoveCurrentType ==
    ASSUME TypeOK, NEW id \in ArtifactIds, Registered(id),
           NEW changed \in ArtifactRecord, NEW to \in Stage,
           MoveCurrent(id, changed, to)
    PROVE  artifacts' \in [ArtifactIds -> Seq(ArtifactRecord)] /\ ChainsGrow
  <1> DEFINE e == [changed EXCEPT !.stage = to, !.stage_generation = @ + 1]
  <1>1. e \in ArtifactRecord
    BY RestagedType
  <1>2. artifacts \in [ArtifactIds -> Seq(ArtifactRecord)]
    BY DEF TypeOK
  <1>3. Current(id) \in 1 .. Len(artifacts[id])
    BY CurrentIsRevision DEF HasRevision
  <1>4. artifacts' = [artifacts EXCEPT ![id] =
                         [artifacts[id] EXCEPT ![Current(id)] = e]]
    BY DEF MoveCurrent
  <1> HIDE DEF e
  <1>5. /\ artifacts' \in [ArtifactIds -> Seq(ArtifactRecord)]
        /\ \A b \in ArtifactIds : Len(artifacts'[b]) = Len(artifacts[b])
    BY <1>1, <1>2, <1>3, <1>4, ReplaceRevision
  <1>6. \A b \in ArtifactIds : Len(artifacts[b]) \in Nat
    BY <1>2
  <1> QED  BY <1>5, <1>6 DEF ChainsGrow

\* AddRecord() keeps the promotion records well typed.
LEMMA AddRecordType ==
    ASSUME TypeOK, NEW id \in ArtifactIds, NEW v, HasRevision(id, v),
           NEW to \in Stage, NEW decision \in Nat, NEW plan \in Nat,
           NEW request \in RequestIds \cup {InternalRequest, NoRequest},
           NEW authority \in Nat, NEW generation \in Nat,
           AddRecord(id, v, to, decision, plan, request, authority, generation)
    PROVE  records' \subseteq PromotionRecord /\ record_count' \in Nat
  <1>1. artifacts[id][v].stage \in Stage /\ v \in Nat
    BY RevisionType DEF ArtifactRecord, HasRevision
  <1>2. Evict(records, MaxRecords) \subseteq PromotionRecord
    BY EvictSubset DEF TypeOK
  <1>3. record_count \in Nat
    BY DEF TypeOK
  <1> QED  BY <1>1, <1>2, <1>3 DEF AddRecord, StageBefore, PromotionRecord

\* A record an operation leaves belongs to no plan.
LEMMA OperationRecordType ==
    ASSUME TypeOK, NEW id \in ArtifactIds, Registered(id),
           NEW to \in Stage, NEW decision \in Nat,
           NEW request \in {InternalRequest, NoRequest},
           OperationRecord(id, to, decision, request)
    PROVE  /\ records' \subseteq PromotionRecord /\ record_count' \in Nat
           /\ \A r \in records' : r \in records \/ r.plan = 0
  <1>1. HasRevision(id, Current(id))
    BY CurrentIsRevision
  <1>2. epoch \in Nat /\ policy.generation \in Nat /\ 0 \in Nat
    BY PoliciesAssumption DEF TypeOK
  <1>3. AddRecord(id, Current(id), to, decision, 0, request, epoch,
                  policy.generation)
    BY DEF OperationRecord
  <1>4. records' \subseteq PromotionRecord /\ record_count' \in Nat
    BY <1>1, <1>2, <1>3, AddRecordType
  <1>5. \A r \in records' : r \in records \/ r.plan = 0
    BY <1>3, EvictSubset DEF AddRecord
  <1> QED  BY <1>4, <1>5

-----------------------------------------------------------------------------
(* The type invariant, one lemma for each group of operations.  A step     *)
(* that leaves the artifacts alone trivially lets their chains grow.       *)

\* Chains that do not change satisfy ChainsGrow.
LEMMA UnchangedChains ==
    ASSUME TypeOK, UNCHANGED artifacts PROVE ChainsGrow
  BY DEF TypeOK, ChainsGrow

\* register_artifact() appends a revision and demotes the one before it.
LEMMA RegisterType ==
    ASSUME TypeOK, NEW registration \in Registrations,
           register_artifact(registration)
    PROVE  TypeOK' /\ ChainsGrow
  <1> DEFINE id == registration.id
             chain == artifacts[id]
  <1>1. id \in ArtifactIds /\ chain \in Seq(ArtifactRecord)
    BY InputsAssumption DEF TypeOK
  <1>2. NewRevision(registration) \in ArtifactRecord
    BY PoliciesAssumption DEF TypeOK, NewRevision, ArtifactRecord
  <1>3. ASSUME NEW e \in ArtifactRecord PROVE Demoted(e) \in ArtifactRecord
    <2>1. [e EXCEPT !.superseded = TRUE] \in ArtifactRecord
      BY Zenon DEF ArtifactRecord
    <2>2. [[e EXCEPT !.superseded = TRUE] EXCEPT
              !.stage = "Superseded", !.stage_generation = @ + 1]
             \in ArtifactRecord
      BY <2>1, RestagedType, NamedStages
    <2>3. [e EXCEPT !.superseded = TRUE, !.stage = "Superseded",
                    !.stage_generation = @ + 1]
             = [[e EXCEPT !.superseded = TRUE] EXCEPT
                   !.stage = "Superseded", !.stage_generation = @ + 1]
      BY DEF ArtifactRecord
    <2> QED  BY <2>1, <2>2, <2>3 DEF Demoted
  <1>4. DemoteLast(chain) \in Seq(ArtifactRecord)
        /\ Len(DemoteLast(chain)) = Len(chain)
    <2>1. Len(chain) \in Nat /\ DOMAIN chain = 1 .. Len(chain)
      BY <1>1
    <2>2. \A i \in 1 .. Len(chain) :
             (IF i = Len(chain) THEN Demoted(chain[i]) ELSE chain[i])
                \in ArtifactRecord
      BY <1>1, <1>3
    <2> HIDE DEF chain
    <2>3. DemoteLast(chain) \in [1 .. Len(chain) -> ArtifactRecord]
      BY <2>1, <2>2 DEF DemoteLast
    <2> QED  BY <2>1, <2>3
  <1>5. artifacts' = [artifacts EXCEPT ![id] =
                         Append(DemoteLast(chain), NewRevision(registration))]
    BY DEF register_artifact
  <1> HIDE DEF id, chain
  <1>6. /\ Append(DemoteLast(chain), NewRevision(registration))
              \in Seq(ArtifactRecord)
        /\ Len(Append(DemoteLast(chain), NewRevision(registration)))
              = Len(chain) + 1
    BY <1>2, <1>4
  <1>7. artifacts' \in [ArtifactIds -> Seq(ArtifactRecord)] /\ ChainsGrow
    BY <1>1, <1>5, <1>6 DEF TypeOK, ChainsGrow, chain
  <1> QED  BY <1>7 DEF TypeOK, register_artifact

\* submit_evidence() appends a record and marks the one it replaces.
LEMMA SubmitType ==
    ASSUME TypeOK, NEW s \in Submissions, submit_evidence(s)
    PROVE  TypeOK' /\ ChainsGrow
  <1> DEFINE old == Replaced(s)
             generation == IF old = {} THEN 1
                           ELSE evidence[CHOOSE e \in old : TRUE].generation + 1
             kept == [e \in DOMAIN evidence |->
                         IF e \in old
                         THEN [evidence[e] EXCEPT !.superseded = TRUE]
                         ELSE evidence[e]]
             new == [submission |-> s, generation |-> generation,
                     revoked |-> FALSE, superseded |-> FALSE]
  <1>1. evidence \in Seq(EvidenceRecord)
    BY DEF TypeOK
  <1>2. old \subseteq DOMAIN evidence
    BY DEF Replaced
  <1>3. generation \in Nat
    <2>1. CASE old = {}
      BY <2>1
    <2>2. CASE old # {}
      <3>1. (CHOOSE e \in old : TRUE) \in DOMAIN evidence
        BY <1>2, <2>2
      <3>2. evidence[CHOOSE e \in old : TRUE] \in EvidenceRecord
        BY <1>1, <3>1
      <3> QED  BY <2>2, <3>2 DEF EvidenceRecord
    <2> QED  BY <2>1, <2>2
  <1>4. \A e \in DOMAIN evidence :
           [evidence[e] EXCEPT !.superseded = TRUE] \in EvidenceRecord
    <2>1. ASSUME NEW e \in EvidenceRecord
          PROVE  [e EXCEPT !.superseded = TRUE] \in EvidenceRecord
      BY Zenon DEF EvidenceRecord
    <2> QED  BY <1>1, <2>1
  <1>5. evidence' = Append(kept, new)
    BY DEF submit_evidence, SupersedeEvidence
  <1> HIDE DEF old, generation
  <1>6. new \in EvidenceRecord
    BY <1>3 DEF EvidenceRecord
  <1>7. kept \in Seq(EvidenceRecord)
    BY <1>1, <1>4
  <1>8. evidence' \in Seq(EvidenceRecord)
    BY <1>5, <1>6, <1>7
  <1> QED  BY <1>8, UnchangedChains DEF TypeOK, submit_evidence

\* The vetoes of an artifact, with an entry or without.
LEMMA VetoType ==
    ASSUME TypeOK, NEW id
    PROVE  VetoOf(id) \in VetoState
  BY DEF TypeOK, VetoOf, VetoState

\* A veto is put for an artifact.
LEMMA PutVetoType ==
    ASSUME TypeOK, NEW id \in VetoIds, NEW veto \in VetoState, PutVeto(id, veto)
    PROVE  /\ DOMAIN vetoes' \subseteq ArtifactIds
           /\ vetoes' \in [DOMAIN vetoes' -> VetoState]
  <1>1. vetoes' = [a \in DOMAIN vetoes \cup {id} |->
                      IF a = id THEN veto ELSE vetoes[a]]
    BY DEF PutVeto
  <1>2. DOMAIN vetoes' = DOMAIN vetoes \cup {id}
    BY <1>1
  <1>3. id \in ArtifactIds /\ DOMAIN vetoes \subseteq ArtifactIds
    BY InputsAssumption DEF TypeOK
  <1>4. \A a \in DOMAIN vetoes : vetoes[a] \in VetoState
    BY DEF TypeOK
  <1> QED  BY <1>1, <1>2, <1>3, <1>4

\* The policy, epoch, compatibility, admission, clock and veto operations.
LEMMA ControlType ==
    ASSUME TypeOK,
           \/ \E p \in Policies : publish_policy(p)
           \/ \E e \in Epochs : restart(e)
           \/ recover_in_flight
           \/ \E g \in CompatibilityGenerations : set_compatibility_generation(g)
           \/ \E open \in AdmissionStates : set_admission(open)
           \/ ClockStep
           \/ \E id \in VetoIds, b \in BOOLEAN : set_security_veto(id, b)
           \/ \E id \in VetoIds, b \in BOOLEAN : set_dependency_veto(id, b)
    PROVE  TypeOK' /\ ChainsGrow
  <1>1. ASSUME NEW p \in Policies, publish_policy(p)
        PROVE  TypeOK' /\ ChainsGrow
    BY <1>1, UnchangedChains DEF TypeOK, publish_policy
  <1>2. ASSUME NEW e \in Epochs, restart(e)
        PROVE  TypeOK' /\ ChainsGrow
    BY <1>2, UnchangedChains, NumbersAssumption DEF TypeOK, restart
  <1>3. ASSUME recover_in_flight
        PROVE  TypeOK' /\ ChainsGrow
    BY <1>3, UnchangedChains DEF TypeOK, recover_in_flight
  <1>4. ASSUME NEW g \in CompatibilityGenerations,
               set_compatibility_generation(g)
        PROVE  TypeOK' /\ ChainsGrow
    BY <1>4, UnchangedChains, NumbersAssumption
       DEF TypeOK, set_compatibility_generation
  <1>5. ASSUME NEW open \in AdmissionStates, set_admission(open)
        PROVE  TypeOK' /\ ChainsGrow
    BY <1>5, UnchangedChains, InputsAssumption DEF TypeOK, set_admission
  <1>6. ASSUME ClockStep
        PROVE  TypeOK' /\ ChainsGrow
    <2>1. now' \in Nat
      BY <1>6, NumbersAssumption DEF ClockStep
    <2> QED  BY <1>6, <2>1, UnchangedChains DEF TypeOK, ClockStep
  <1>7. ASSUME NEW id \in VetoIds, NEW b \in BOOLEAN, set_security_veto(id, b)
        PROVE  TypeOK' /\ ChainsGrow
    <2> DEFINE veto == [VetoOf(id) EXCEPT !.security = b]
    <2>1. veto \in VetoState
      <3>1. VetoOf(id) \in VetoState
        BY VetoType
      <3> QED  BY <3>1, Zenon DEF VetoState
    <2>2. PutVeto(id, veto)
      BY <1>7 DEF set_security_veto
    <2> HIDE DEF veto
    <2>3. DOMAIN vetoes' \subseteq ArtifactIds
          /\ vetoes' \in [DOMAIN vetoes' -> VetoState]
      BY <2>1, <2>2, PutVetoType
    <2> QED  BY <1>7, <2>3, UnchangedChains DEF TypeOK, set_security_veto
  <1>8. ASSUME NEW id \in VetoIds, NEW b \in BOOLEAN, set_dependency_veto(id, b)
        PROVE  TypeOK' /\ ChainsGrow
    <2> DEFINE veto == [VetoOf(id) EXCEPT !.dependency = b]
    <2>1. veto \in VetoState
      <3>1. VetoOf(id) \in VetoState
        BY VetoType
      <3> QED  BY <3>1, Zenon DEF VetoState
    <2>2. PutVeto(id, veto)
      BY <1>8 DEF set_dependency_veto
    <2> HIDE DEF veto
    <2>3. DOMAIN vetoes' \subseteq ArtifactIds
          /\ vetoes' \in [DOMAIN vetoes' -> VetoState]
      BY <2>1, <2>2, PutVetoType
    <2> QED  BY <1>8, <2>3, UnchangedChains DEF TypeOK, set_dependency_veto
  <1> QED  BY <1>1, <1>2, <1>3, <1>4, <1>5, <1>6, <1>7, <1>8

\* A decision appended to the log keeps it well typed.
LEMMA DecideType ==
    ASSUME TypeOK, NEW request \in RequestIds \cup {InternalRequest},
           NEW outcome \in Outcome, NEW plan \in Nat,
           Decide(request, outcome, plan)
    PROVE  decisions' \in Seq(PromotionDecision) /\ NextDecision \in Nat
  <1>1. [request |-> request, outcome |-> outcome, plan |-> plan]
           \in PromotionDecision
    BY DEF PromotionDecision
  <1> QED  BY <1>1 DEF TypeOK, Decide, NextDecision

\* So does the idempotency record stored with it.
LEMMA AnswerType ==
    ASSUME TypeOK, NEW q \in Requests, NEW outcome \in Outcome, NEW plan \in Nat,
           Answer(q, outcome, plan)
    PROVE  /\ decisions' \in Seq(PromotionDecision)
           /\ idempotency' \subseteq IdempotencyRecord
  <1>1. q.request \in RequestIds
    BY DEF RequestIds
  <1>2. decisions' \in Seq(PromotionDecision) /\ NextDecision \in Nat
    BY <1>1, DecideType DEF Answer
  <1> QED  BY <1>1, <1>2 DEF Answer, TypeOK, IdempotencyRecord

\* The plan of an eligible request, and its reservation.
LEMMA PlanForType ==
    ASSUME TypeOK, NEW q \in Requests, KnownRevision(q)
    PROVE  /\ PlanFor(q) \in PromotionPlan
           /\ ReservationFor(PlanFor(q)) \in PendingTransition
  <1>1. /\ q.artifact \in ArtifactIds /\ q.to \in Stage
        /\ q.artifact_revision \in Nat /\ q.attempt \in Nat
        /\ q.request \in RequestIds
    BY InputsAssumption DEF RequestIds
  <1>2. artifacts[q.artifact][q.artifact_revision] \in ArtifactRecord
    BY <1>1, RevisionType DEF KnownRevision
  <1>3. /\ artifacts[q.artifact][q.artifact_revision].stage \in Stage
        /\ artifacts[q.artifact][q.artifact_revision].stage_generation \in Nat
    BY <1>2 DEF ArtifactRecord
  <1>4. Snapshot(q.artifact, q.artifact_revision) \in SUBSET Nat
    <2>1. DOMAIN evidence \subseteq Nat
      BY DEF TypeOK
    <2> QED  BY <2>1 DEF Snapshot, GatherEvidence
  <1>5. NextDecision \in Nat /\ plan_count + 1 \in Nat /\ now + PlanTtl \in Nat
    <2>1. plan_count \in Nat /\ now \in Nat /\ PlanTtl \in Nat
      BY NumbersAssumption DEF TypeOK
    <2>2. Len(decisions) \in Nat
      BY DEF TypeOK
    <2> QED  BY <2>1, <2>2 DEF NextDecision
  <1>6. policy \in Policies /\ epoch \in Nat /\ compatibility_generation \in Nat
    BY DEF TypeOK
  <1>7. PlanFor(q) \in PromotionPlan
    BY <1>1, <1>3, <1>4, <1>5, <1>6 DEF PlanFor, PromotionPlan
  <1> QED  BY <1>7 DEF ReservationFor, PromotionPlan, PendingTransition

\* evaluate() decides, and perhaps plans and reserves.
LEMMA EvaluateType ==
    ASSUME TypeOK, NEW q \in Requests, evaluate(q)
    PROVE  TypeOK' /\ ChainsGrow
  <1>1. q.request \in RequestIds /\ 0 \in Nat
    BY DEF RequestIds
  <1>2. {"DigestMismatch", "ArtifactNotFound", "AdmissionRejected",
         "PromotionEligible"} \subseteq Outcome
    BY DEF Outcome
  <1>3. plan_count + 1 \in Nat
    BY DEF TypeOK
  <1>4. CASE EvaluateUnknown(q)
    <2>1. decisions' \in Seq(PromotionDecision)
      BY <1>1, <1>2, <1>4, DecideType DEF EvaluateUnknown
    <2> QED  BY <1>4, <2>1, UnchangedChains DEF EvaluateUnknown, evaluate, TypeOK
  <1>5. CASE EvaluateRejected(q)
    <2>1. /\ decisions' \in Seq(PromotionDecision)
          /\ idempotency' \subseteq IdempotencyRecord
      BY <1>1, <1>5, VerdictType, AnswerType DEF EvaluateRejected
    <2> QED  BY <1>5, <2>1, UnchangedChains DEF EvaluateRejected, evaluate, TypeOK
  <1>6. CASE EvaluatePlanned(q)
    <2>1. /\ decisions' \in Seq(PromotionDecision)
          /\ idempotency' \subseteq IdempotencyRecord
      BY <1>2, <1>3, <1>6, AnswerType DEF EvaluatePlanned
    <2>2. plans' \subseteq PromotionPlan /\ pending' \subseteq PendingTransition
      BY <1>6, PlanForType, EvictSubset DEF EvaluatePlanned, TypeOK, Release
    <2> QED  BY <1>3, <1>6, <2>1, <2>2, UnchangedChains
             DEF EvaluatePlanned, evaluate, TypeOK
  <1>7. CASE EvaluateAtCapacity(q)
    <2>1. /\ decisions' \in Seq(PromotionDecision)
          /\ idempotency' \subseteq IdempotencyRecord
      BY <1>1, <1>2, <1>7, AnswerType DEF EvaluateAtCapacity
    <2>2. plans' \subseteq PromotionPlan
      BY <1>7, EvictSubset DEF EvaluateAtCapacity, TypeOK
    <2> QED  BY <1>3, <1>7, <2>1, <2>2, UnchangedChains
             DEF EvaluateAtCapacity, evaluate, TypeOK
  <1> QED  BY <1>4, <1>5, <1>6, <1>7 DEF evaluate

\* A rewritten outcome keeps the decisions well typed.
LEMMA RedecideType ==
    ASSUME TypeOK, NEW p, NEW outcome \in Outcome, Redecide(p, outcome)
    PROVE  decisions' \in Seq(PromotionDecision)
  <1> DEFINE d == p.decision
             e == [decisions[d] EXCEPT !.outcome = outcome]
  <1>1. decisions \in Seq(PromotionDecision)
    BY DEF TypeOK
  <1>2. decisions' = [decisions EXCEPT ![d] = e]
    BY DEF Redecide
  <1>3. CASE d \in 1 .. Len(decisions)
    <2>1. decisions[d] \in PromotionDecision
      BY <1>1, <1>3
    <2>2. e \in PromotionDecision
      BY <2>1 DEF PromotionDecision
    <2> HIDE DEF d, e
    <2> QED  BY <1>1, <1>2, <1>3, <2>2, ExceptSeq
  <1>4. CASE d \notin 1 .. Len(decisions)
    <2>1. d \notin DOMAIN decisions
      BY <1>1, <1>4
    <2>2. decisions' = decisions
      BY <1>1, <1>2, <2>1
    <2> QED  BY <1>1, <2>2
  <1> QED  BY <1>3, <1>4

\* commit() of a stored plan makes a transition or refuses it.
LEMMA CommitType ==
    ASSUME TypeOK, PlansAreFresh, NEW p \in plans, commit(p)
    PROVE  TypeOK' /\ ChainsGrow
  <1>1. p \in PromotionPlan
    BY DEF TypeOK
  <1>2. {"Conflict", "RevalidationRequired", "PromotionCommitted"}
           \subseteq Outcome
    BY DEF Outcome
  <1>3. ASSUME NEW outcome \in Outcome, CommitRefused(p, outcome)
        PROVE  TypeOK' /\ ChainsGrow
    <2>1. decisions' \in Seq(PromotionDecision)
      BY <1>3, RedecideType DEF CommitRefused
    <2> QED  BY <1>3, <2>1, UnchangedChains
             DEF CommitRefused, commit, TypeOK, Release
  <1>4. CASE CommitPolicyStale(p)
    BY <1>2, <1>3, <1>4 DEF CommitPolicyStale
  <1>5. CASE CommitExpired(p)
    BY <1>2, <1>3, <1>5 DEF CommitExpired
  <1>6. CASE CommitReservationLost(p)
    <2>1. decisions' \in Seq(PromotionDecision)
      BY <1>2, <1>6, RedecideType DEF CommitReservationLost
    <2> QED  BY <1>6, <2>1, UnchangedChains
             DEF CommitReservationLost, commit, TypeOK
  <1>7. CASE CommitEvidenceChanged(p)
    BY <1>2, <1>3, <1>7 DEF CommitEvidenceChanged
  <1>8. CASE CommitGatesFailed(p)
    BY <1>3, <1>8, EvaluateGatesType DEF CommitGatesFailed
  <1>9. CASE CommitTransition(p)
    <2>1. /\ p.artifact \in ArtifactIds /\ p.to \in Stage
          /\ p.decision \in Nat /\ p.id \in Nat /\ p.request \in RequestIds
          /\ p.epoch \in Nat /\ p.policy \in Policies
      BY <1>1 DEF PromotionPlan
    <2>2. HasRevision(p.artifact, p.artifact_revision)
      BY DEF PlansAreFresh
    <2>3. decisions' \in Seq(PromotionDecision)
      BY <1>2, <1>9, RedecideType DEF CommitTransition
    <2>4. records' \subseteq PromotionRecord /\ record_count' \in Nat
      BY <1>9, <2>1, <2>2, AddRecordType, PoliciesAssumption
         DEF CommitTransition
    <2>5. idempotency' \subseteq IdempotencyRecord
      <3>1. \A i \in idempotency :
               [i EXCEPT !.outcome = "PromotionCommitted",
                         !.decision = p.decision] \in IdempotencyRecord
        BY <1>2, <2>1 DEF TypeOK, IdempotencyRecord
      <3> QED  BY <1>9, <3>1 DEF CommitTransition, MarkCommitted, TypeOK
    <2>6. artifacts' \in [ArtifactIds -> Seq(ArtifactRecord)] /\ ChainsGrow
      <3> DEFINE old == artifacts[p.artifact][p.artifact_revision]
                 new == Transitioned(old, p)
      <3>1. old \in ArtifactRecord
        BY <2>1, <2>2, RevisionType
      <3>2. new \in ArtifactRecord
        <4>1. /\ old.stage_generation + 1 \in Nat
              /\ (IF p.to = "Promoted" THEN p.decision
                  ELSE old.promotion_decision) \in Nat
          BY <2>1, <3>1 DEF ArtifactRecord
        <4>2. (old.promoted \/ p.to = "Promoted") \in BOOLEAN
          BY Zenon
        <4>3. ASSUME NEW n \in Nat, NEW d \in Nat, NEW b \in BOOLEAN,
                     NEW o \in ArtifactRecord, NEW to \in Stage
              PROVE  [o EXCEPT !.stage = to, !.stage_generation = n,
                               !.promoted = b, !.promotion_decision = d]
                        \in ArtifactRecord
          BY Zenon DEF ArtifactRecord
        <4> QED  BY <2>1, <3>1, <4>1, <4>2, <4>3, Zenon DEF Transitioned
      <3>3. artifacts' = [artifacts EXCEPT ![p.artifact] =
               [artifacts[p.artifact] EXCEPT ![p.artifact_revision] = new]]
        BY <1>9 DEF CommitTransition
      <3> HIDE DEF new
      <3>4. artifacts \in [ArtifactIds -> Seq(ArtifactRecord)]
        BY DEF TypeOK
      <3>5. /\ artifacts' \in [ArtifactIds -> Seq(ArtifactRecord)]
            /\ \A b \in ArtifactIds : Len(artifacts'[b]) = Len(artifacts[b])
        BY <2>1, <2>2, <3>2, <3>3, <3>4, ReplaceRevision DEF HasRevision
      <3>6. \A b \in ArtifactIds : Len(artifacts[b]) \in Nat
        BY <3>4
      <3> QED  BY <3>5, <3>6 DEF ChainsGrow
    <2> QED  BY <1>9, <2>3, <2>4, <2>5, <2>6
             DEF CommitTransition, commit, TypeOK, Release
  <1> QED  BY <1>4, <1>5, <1>6, <1>7, <1>8, <1>9 DEF commit

\* A change of its flags leaves an artifact record one.
LEMMA FlagsType ==
    ASSUME NEW a \in ArtifactRecord
    PROVE  /\ [a EXCEPT !.quarantined = TRUE] \in ArtifactRecord
           /\ [a EXCEPT !.quarantined = FALSE] \in ArtifactRecord
           /\ [a EXCEPT !.revoked = TRUE, !.promoted = FALSE] \in ArtifactRecord
           /\ [a EXCEPT !.superseded = TRUE, !.promoted = FALSE] \in ArtifactRecord
           /\ [a EXCEPT !.promoted = FALSE] \in ArtifactRecord
  BY Zenon DEF ArtifactRecord

\* The operations of trust.cpp that move an artifact or withdraw evidence.
TrustStep ==
    \/ \E id \in QuarantineIds : quarantine(id)
    \/ \E id \in QuarantineIds : release_quarantine(id)
    \/ \E id \in WithdrawalIds, d \in RevocationTargets : revoke(id, d)
    \/ \E id \in WithdrawalIds, successor \in ArtifactIds : supersede(id, successor)
    \/ \E id \in WithdrawalIds : retire(id)
    \/ \E e \in DOMAIN evidence : revoke_evidence(e)

\* They keep the state well typed, and the records they leave have no plan.
LEMMA TrustType ==
    ASSUME TypeOK, TrustStep
    PROVE  /\ TypeOK' /\ ChainsGrow
           /\ \A r \in records' : r \in records \/ r.plan = 0
  <1> DEFINE Goal == /\ TypeOK' /\ ChainsGrow
                     /\ \A r \in records' : r \in records \/ r.plan = 0
  <1> USE InputsAssumption, NamedStages
  <1>1. ASSUME NEW id \in QuarantineIds, quarantine(id) PROVE Goal
    <2>1. id \in ArtifactIds /\ Registered(id)
      BY <1>1 DEF quarantine
    <2>2. CurrentArtifact(id) \in ArtifactRecord
      BY <2>1, CurrentIsRevision
    <2>3. artifacts' \in [ArtifactIds -> Seq(ArtifactRecord)] /\ ChainsGrow
      BY <1>1, <2>1, <2>2, FlagsType, MoveCurrentType DEF quarantine
    <2> QED  BY <1>1, <2>3 DEF quarantine, TypeOK, Release
  <1>2. ASSUME NEW id \in QuarantineIds, release_quarantine(id) PROVE Goal
    <2>1. id \in ArtifactIds /\ Registered(id) /\ 0 \in Nat
      BY <1>2 DEF release_quarantine
    <2>2. CurrentArtifact(id) \in ArtifactRecord
      BY <2>1, CurrentIsRevision
    <2>3. decisions' \in Seq(PromotionDecision) /\ NextDecision \in Nat
      BY <1>2, <2>1, EvaluateGatesType, DecideType DEF release_quarantine
    <2>4. CASE ReleaseRefused(id)
      BY <1>2, <2>3, <2>4, UnchangedChains
         DEF release_quarantine, ReleaseRefused, TypeOK
    <2>5. CASE ReleaseGranted(id)
      <3>1. artifacts' \in [ArtifactIds -> Seq(ArtifactRecord)] /\ ChainsGrow
        BY <2>1, <2>2, <2>5, FlagsType, MoveCurrentType DEF ReleaseGranted
      <3>2. /\ records' \subseteq PromotionRecord /\ record_count' \in Nat
            /\ \A r \in records' : r \in records \/ r.plan = 0
        BY <2>1, <2>3, <2>5, OperationRecordType DEF ReleaseGranted
      <3> QED  BY <1>2, <2>3, <3>1, <3>2 DEF release_quarantine, TypeOK
    <2> QED  BY <1>2, <2>4, <2>5 DEF release_quarantine
  <1>3. ASSUME NEW id \in WithdrawalIds, NEW d \in RevocationTargets,
               revoke(id, d)
        PROVE  Goal
    <2>1. id \in ArtifactIds /\ Registered(id)
      BY <1>3 DEF revoke
    <2>2. CurrentArtifact(id) \in ArtifactRecord
      BY <2>1, CurrentIsRevision
    <2>3. artifacts' \in [ArtifactIds -> Seq(ArtifactRecord)] /\ ChainsGrow
      BY <1>3, <2>1, <2>2, FlagsType, MoveCurrentType DEF revoke
    <2>4. RevocationTarget(CurrentArtifact(id), d) \in Nat
      BY <2>2 DEF RevocationTarget, ArtifactRecord
    <2>5. /\ records' \subseteq PromotionRecord /\ record_count' \in Nat
          /\ \A r \in records' : r \in records \/ r.plan = 0
      BY <1>3, <2>1, <2>4, OperationRecordType DEF revoke
    <2> QED  BY <1>3, <2>3, <2>5 DEF revoke, TypeOK, Release
  <1>4. ASSUME NEW id \in WithdrawalIds, NEW successor \in ArtifactIds,
               supersede(id, successor)
        PROVE  Goal
    <2>1. id \in ArtifactIds /\ Registered(id)
      BY <1>4 DEF supersede
    <2>2. CurrentArtifact(id) \in ArtifactRecord
      BY <2>1, CurrentIsRevision
    <2>3. artifacts' \in [ArtifactIds -> Seq(ArtifactRecord)] /\ ChainsGrow
      BY <1>4, <2>1, <2>2, FlagsType, MoveCurrentType DEF supersede
    <2>4. CurrentArtifact(id).promotion_decision \in Nat
      BY <2>2 DEF ArtifactRecord
    <2>5. /\ records' \subseteq PromotionRecord /\ record_count' \in Nat
          /\ \A r \in records' : r \in records \/ r.plan = 0
      BY <1>4, <2>1, <2>4, OperationRecordType DEF supersede
    <2> QED  BY <1>4, <2>3, <2>5 DEF supersede, TypeOK, Release
  <1>5. ASSUME NEW id \in WithdrawalIds, retire(id) PROVE Goal
    <2>1. id \in ArtifactIds /\ Registered(id)
      BY <1>5 DEF retire
    <2>2. CurrentArtifact(id) \in ArtifactRecord
      BY <2>1, CurrentIsRevision
    <2>3. artifacts' \in [ArtifactIds -> Seq(ArtifactRecord)] /\ ChainsGrow
      BY <1>5, <2>1, <2>2, FlagsType, MoveCurrentType DEF retire
    <2>4. CurrentArtifact(id).promotion_decision \in Nat
      BY <2>2 DEF ArtifactRecord
    <2>5. /\ records' \subseteq PromotionRecord /\ record_count' \in Nat
          /\ \A r \in records' : r \in records \/ r.plan = 0
      BY <1>5, <2>1, <2>4, OperationRecordType DEF retire
    <2> QED  BY <1>5, <2>3, <2>5 DEF retire, TypeOK, Release
  <1>6. ASSUME NEW e \in DOMAIN evidence, revoke_evidence(e) PROVE Goal
    <2>1. evidence \in Seq(EvidenceRecord) /\ e \in 1 .. Len(evidence)
      BY DEF TypeOK
    <2>2. ASSUME NEW x \in EvidenceRecord
          PROVE  [x EXCEPT !.revoked = TRUE] \in EvidenceRecord
      BY Zenon DEF EvidenceRecord
    <2>3. evidence' = [evidence EXCEPT ![e] =
                          [evidence[e] EXCEPT !.revoked = TRUE]]
      BY <1>6 DEF revoke_evidence
    <2>4. evidence' \in Seq(EvidenceRecord)
      BY <2>1, <2>2, <2>3, ExceptSeq
    <2> QED  BY <1>6, <2>4, UnchangedChains DEF revoke_evidence, TypeOK
  <1> QED  BY <1>1, <1>2, <1>3, <1>4, <1>5, <1>6 DEF TrustStep

\* One step keeps the type invariant, given that a plan names a revision.
LEMMA TypeStep ==
    ASSUME TypeOK, PlansAreFresh, [Next]_vars
    PROVE  TypeOK' /\ ChainsGrow
  <1>1. CASE UNCHANGED vars
    BY <1>1, UnchangedChains DEF TypeOK, vars
  <1>2. CASE Next
    BY <1>2, RegisterType, SubmitType, ControlType, EvaluateType, CommitType,
       TrustType DEF Next, OtherOperation, TrustStep
  <1> QED  BY <1>1, <1>2

-----------------------------------------------------------------------------
(* The plan invariant.  Only evaluate() makes plans and reservations and   *)
(* only commit() records a transition of a plan; every other operation at  *)
(* most withdraws reservations, and withdraws them all when it changes the *)
(* authority they were made under.                                         *)

\* A step that only withdraws reservations keeps the plan invariant.
LEMMA WithdrawalStep ==
    ASSUME TypeOK, PlanInvariant, ChainsGrow,
           UNCHANGED <<plans, plan_count, idempotency>>,
           pending' \subseteq pending,
           pending' # {} => UNCHANGED <<epoch, compatibility_generation>>,
           \A r \in records' : r \in records \/ r.plan = 0
    PROVE  PlanInvariant'
  <1> USE DEF PlanInvariant
  <1>1. plan_count \in Nat
    BY DEF TypeOK
  <1>2. PlansAreFresh'
    <2>1. ASSUME NEW p \in plans
          PROVE  HasRevision(p.artifact, p.artifact_revision)'
      <3>1. p.artifact \in ArtifactIds
        BY DEF TypeOK, PromotionPlan
      <3>2. HasRevision(p.artifact, p.artifact_revision)
        BY DEF PlansAreFresh
      <3>3. Len(artifacts[p.artifact]) <= Len(artifacts'[p.artifact])
        BY <3>1 DEF ChainsGrow
      <3>4. Len(artifacts[p.artifact]) \in Nat
        BY <3>1 DEF TypeOK
      <3>5. CASE Len(artifacts'[p.artifact]) \in Int
        BY <3>2, <3>3, <3>4, <3>5 DEF HasRevision
      <3> QED  BY <3>2, <3>3, <3>4, <3>5 DEF HasRevision
    <2> QED  BY <2>1 DEF PlansAreFresh
  <1>3. ReservationsAreCurrent'
    BY DEF ReservationsAreCurrent
  <1>4. CommitsAreFinal'
    BY <1>1 DEF CommitsAreFinal, ReservationsAreCurrent
  <1>5. PlanCommitsOnce'
    BY DEF PlanCommitsOnce
  <1>6. RequestsHaveOnePlan'
    BY DEF RequestsHaveOnePlan
  <1> QED  BY <1>2, <1>3, <1>4, <1>5, <1>6

\* evaluate() keeps it: a new plan and its reservation have a fresh identity,
\* and the request had no plan before.
LEMMA EvaluateStep ==
    ASSUME TypeOK, PlanInvariant, NEW q \in Requests, evaluate(q)
    PROVE  PlanInvariant'
  <1> USE DEF PlanInvariant
  <1>1. plan_count \in Nat
    BY DEF TypeOK
  <1>2. /\ UNCHANGED <<artifacts, records, epoch, compatibility_generation>>
        /\ \A i \in idempotency : i.request # q.request
    BY DEF evaluate, Unanswered
  <1>3. CASE EvaluateUnknown(q)
    BY <1>2, <1>3, UnchangedChains, WithdrawalStep DEF EvaluateUnknown
  <1>4. \A outcome, plan : Answer(q, outcome, plan) =>
           idempotency' = idempotency \cup
              {[request |-> q.request, decision |-> NextDecision,
                outcome |-> outcome, plan |-> plan]}
    BY DEF Answer
  <1>5. CASE EvaluateRejected(q)
    <2>1. RequestsHaveOnePlan'
      BY <1>2, <1>4, <1>5 DEF EvaluateRejected, RequestsHaveOnePlan
    <2> QED  BY <1>2, <1>5, <2>1
             DEF EvaluateRejected, PlansAreFresh, HasRevision,
                 ReservationsAreCurrent, CommitsAreFinal, PlanCommitsOnce
  <1>6. CASE EvaluatePlanned(q)
    <2> DEFINE p == PlanFor(q)
               r == ReservationFor(p)
    <2>1. /\ p.id = plan_count + 1 /\ p.request = q.request
          /\ p.artifact = q.artifact
          /\ p.artifact_revision = q.artifact_revision
          /\ p.epoch = epoch /\ p.compatibility = compatibility_generation
      BY DEF PlanFor
    <2>2. r.plan = p.id /\ r.request = p.request
      BY DEF ReservationFor
    <2>3. HasRevision(q.artifact, q.artifact_revision)
      BY <1>6 DEF EvaluatePlanned, KnownRevision
    <2>4. /\ plan_count' = plan_count + 1
          /\ \A x \in plans' : x \in plans \/ x = p
          /\ \A x \in pending' : x \in pending \/ x = r
      BY <1>6, EvictSubset DEF EvaluatePlanned, Release
    <2>5. idempotency' = idempotency \cup
              {[request |-> q.request, decision |-> NextDecision,
                outcome |-> "PromotionEligible", plan |-> plan_count + 1]}
      BY <1>4, <1>6 DEF EvaluatePlanned
    <2> HIDE DEF p, r
    <2>6. PlansAreFresh'
      BY <1>1, <1>2, <2>1, <2>3, <2>4 DEF PlansAreFresh, HasRevision
    <2>7. ReservationsAreCurrent'
      <3>1. \A x \in pending : x.plan \in 1 .. plan_count
        BY DEF ReservationsAreCurrent
      <3>2. \A x \in plans : x.id \in 1 .. plan_count
        BY DEF PlansAreFresh
      <3>3. /\ \A x \in pending' : x.plan \in 1 .. plan_count'
            /\ \A x, y \in pending' : x.plan = y.plan => x = y
        BY <1>1, <2>1, <2>2, <2>4, <3>1 DEF ReservationsAreCurrent
      <3>4. ASSUME NEW x \in pending', NEW y \in plans', y.id = x.plan
            PROVE  /\ y.request = x.request
                   /\ y.epoch = epoch'
                   /\ y.compatibility = compatibility_generation'
        <4>1. CASE x \in pending /\ y \in plans
          BY <1>2, <3>4, <4>1 DEF ReservationsAreCurrent
        <4>2. CASE x = r /\ y = p
          BY <1>2, <2>1, <2>2, <4>2
        <4>3. CASE x \in pending /\ y = p
          BY <1>1, <2>1, <3>1, <3>4, <4>3
        <4>4. CASE x = r /\ y \in plans
          BY <1>1, <2>1, <2>2, <3>2, <3>4, <4>4
        <4> QED  BY <2>4, <4>1, <4>2, <4>3, <4>4
      <3> QED  BY <3>3, <3>4 DEF ReservationsAreCurrent
    <2>8. CommitsAreFinal'
      BY <1>1, <1>2, <2>1, <2>2, <2>4 DEF CommitsAreFinal
    <2>9. PlanCommitsOnce'
      BY <1>2 DEF PlanCommitsOnce
    <2>10. RequestsHaveOnePlan'
      <3>1. \A i, j \in idempotency' : i.request = j.request => i = j
        BY <1>2, <2>5 DEF RequestsHaveOnePlan
      <3>2. \A x \in pending' :
               \E i \in idempotency' : i.request = x.request /\ i.plan = x.plan
        <4> DEFINE i == [request |-> q.request, decision |-> NextDecision,
                         outcome |-> "PromotionEligible",
                         plan |-> plan_count + 1]
        <4>1. i \in idempotency' /\ i.request = r.request /\ i.plan = r.plan
          BY <2>1, <2>2, <2>5
        <4> HIDE DEF i
        <4> QED  BY <2>4, <2>5, <4>1 DEF RequestsHaveOnePlan
      <3> QED  BY <1>2, <2>5, <3>1, <3>2 DEF RequestsHaveOnePlan
    <2> QED  BY <2>6, <2>7, <2>8, <2>9, <2>10
  <1>7. CASE EvaluateAtCapacity(q)
    <2>1. /\ plan_count' = plan_count + 1 /\ plans' \subseteq plans
          /\ UNCHANGED pending
      BY <1>7, EvictSubset DEF EvaluateAtCapacity
    <2>2. RequestsHaveOnePlan'
      BY <1>2, <1>4, <1>7 DEF EvaluateAtCapacity, RequestsHaveOnePlan
    <2>3. PlansAreFresh'
      BY <1>1, <1>2, <2>1 DEF PlansAreFresh, HasRevision
    <2>4. ReservationsAreCurrent' /\ CommitsAreFinal' /\ PlanCommitsOnce'
      BY <1>1, <1>2, <2>1
         DEF ReservationsAreCurrent, CommitsAreFinal, PlanCommitsOnce
    <2> QED  BY <2>2, <2>3, <2>4
  <1> QED  BY <1>3, <1>5, <1>6, <1>7 DEF evaluate

\* commit() keeps it: the transition consumes the only reservation of its
\* plan, so the plan has no record yet and no reservation afterwards.
LEMMA CommitStep ==
    ASSUME TypeOK, PlanInvariant, NEW p \in plans, commit(p), ChainsGrow
    PROVE  PlanInvariant'
  <1> USE DEF PlanInvariant
  <1>1. UNCHANGED <<plans, plan_count, epoch, compatibility_generation>>
    BY DEF commit
  <1>2. ASSUME UNCHANGED <<records, idempotency>>, pending' \subseteq pending
        PROVE  PlanInvariant'
    BY <1>1, <1>2, WithdrawalStep
  <1>3. \A outcome : CommitRefused(p, outcome) => PlanInvariant'
    BY <1>2 DEF CommitRefused, Release
  <1>4. CASE CommitPolicyStale(p)
    BY <1>3, <1>4 DEF CommitPolicyStale
  <1>5. CASE CommitExpired(p)
    BY <1>3, <1>5 DEF CommitExpired
  <1>6. CASE CommitReservationLost(p)
    BY <1>2, <1>6 DEF CommitReservationLost
  <1>7. CASE CommitEvidenceChanged(p)
    BY <1>3, <1>7 DEF CommitEvidenceChanged
  <1>8. CASE CommitGatesFailed(p)
    BY <1>3, <1>8 DEF CommitGatesFailed
  <1>9. CASE CommitTransition(p)
    <2>1. PICK r \in pending : r.artifact = p.artifact /\ r.plan = p.id
      BY <1>9 DEF CommitTransition, ReservationHeld
    <2>2. /\ p.request = r.request
          /\ p.id \in 1 .. plan_count /\ plan_count \in Nat
      BY <2>1 DEF ReservationsAreCurrent, PlansAreFresh, TypeOK
    <2>3. /\ pending' \subseteq pending
          /\ \A s \in pending' : s.plan # p.id
      BY <1>9, <2>1 DEF CommitTransition, Release, ReservationsAreCurrent
    <2>4. PICK new : /\ new.plan = p.id /\ new.request = p.request
                     /\ \A s \in records' : s \in records \/ s = new
      <3> DEFINE new == [id |-> record_count + 1, artifact |-> p.artifact,
                         artifact_revision |-> p.artifact_revision,
                         from |-> StageBefore(p.artifact, p.artifact_revision),
                         to |-> p.to, decision |-> p.decision, plan |-> p.id,
                         request |-> p.request, epoch |-> p.epoch,
                         policy_generation |-> p.policy.generation]
      <3>1. records' = Evict(records, MaxRecords) \cup {new}
        BY <1>9 DEF CommitTransition, AddRecord
      <3>2. new.plan = p.id /\ new.request = p.request
        OBVIOUS
      <3> HIDE DEF new
      <3> QED  BY <3>1, <3>2, EvictSubset
    <2>5. \A s \in records : s.plan # p.id
      BY <2>1 DEF CommitsAreFinal
    <2>6. \A s \in pending' : \A x \in records' : x.plan # s.plan
      BY <2>3, <2>4 DEF CommitsAreFinal
    <2>7. PlansAreFresh' /\ ReservationsAreCurrent'
      <3>1. UNCHANGED <<plans, plan_count, epoch, compatibility_generation>>
        BY <1>1
      <3>2. ReservationsAreCurrent'
        BY <2>3, <3>1 DEF ReservationsAreCurrent
      <3>3. ASSUME NEW x \in plans
            PROVE  HasRevision(x.artifact, x.artifact_revision)'
        <4>1. /\ x.artifact \in ArtifactIds
              /\ HasRevision(x.artifact, x.artifact_revision)
          BY DEF TypeOK, PromotionPlan, PlansAreFresh
        <4>2. /\ Len(artifacts[x.artifact]) \in Nat
              /\ Len(artifacts[x.artifact]) <= Len(artifacts'[x.artifact])
          BY <4>1 DEF TypeOK, ChainsGrow
        <4> QED  BY <4>1, <4>2 DEF HasRevision
      <3> QED  BY <3>1, <3>2, <3>3 DEF PlansAreFresh
    <2>8. CommitsAreFinal'
      BY <1>1, <2>2, <2>4, <2>6 DEF CommitsAreFinal
    <2>9. PlanCommitsOnce'
      BY <2>4, <2>5 DEF PlanCommitsOnce
    <2>10. RequestsHaveOnePlan'
      <3> DEFINE Mark(i) == IF i.request = p.request
                            THEN [i EXCEPT !.outcome = "PromotionCommitted",
                                           !.decision = p.decision]
                            ELSE i
      <3>1. idempotency' = {Mark(i) : i \in idempotency}
        BY <1>9 DEF CommitTransition, MarkCommitted
      <3>2. \A i \in idempotency : /\ Mark(i).request = i.request
                                   /\ Mark(i).plan = i.plan
        BY DEF TypeOK, IdempotencyRecord
      <3> HIDE DEF Mark
      <3>3. \A i, j \in idempotency' : i.request = j.request => i = j
        BY <3>1, <3>2 DEF RequestsHaveOnePlan
      <3>4. \A i \in idempotency : \E j \in idempotency' :
               j.request = i.request /\ j.plan = i.plan
        BY <3>1, <3>2
      <3>5. \A s \in pending' : \E i \in idempotency' :
               i.request = s.request /\ i.plan = s.plan
        BY <2>3, <3>4 DEF RequestsHaveOnePlan
      <3>6. \A s \in records : s.plan # 0 =>
               \E i \in idempotency' : i.request = s.request /\ i.plan = s.plan
        BY <3>4 DEF RequestsHaveOnePlan
      <3>7. \E i \in idempotency' : i.request = new.request /\ i.plan = new.plan
        <4>1. \E i \in idempotency : i.request = r.request /\ i.plan = r.plan
          BY <2>1 DEF RequestsHaveOnePlan
        <4> QED  BY <2>1, <2>2, <2>4, <3>4, <4>1
      <3> QED  BY <2>4, <3>3, <3>5, <3>6, <3>7 DEF RequestsHaveOnePlan
    <2> QED  BY <2>7, <2>8, <2>9, <2>10
  <1> QED  BY <1>4, <1>5, <1>6, <1>7, <1>8, <1>9 DEF commit

\* One step keeps the plan invariant.
LEMMA PlanStep ==
    ASSUME TypeOK, PlanInvariant, [Next]_vars
    PROVE  PlanInvariant'
  <1>1. ChainsGrow
    BY TypeStep DEF PlanInvariant
  <1>2. CASE UNCHANGED vars
    BY <1>1, <1>2, WithdrawalStep DEF vars
  <1>3. CASE \E r \in Registrations : register_artifact(r)
    BY <1>1, <1>3, WithdrawalStep DEF register_artifact
  <1>4. CASE \E s \in Submissions : submit_evidence(s)
    BY <1>1, <1>4, WithdrawalStep DEF submit_evidence
  <1>5. CASE \E p \in Policies : publish_policy(p)
    BY <1>1, <1>5, WithdrawalStep DEF publish_policy
  <1>6. CASE \E e \in Epochs : restart(e)
    BY <1>1, <1>6, WithdrawalStep DEF restart
  <1>7. CASE recover_in_flight
    BY <1>1, <1>7, WithdrawalStep DEF recover_in_flight
  <1>8. CASE \E g \in CompatibilityGenerations : set_compatibility_generation(g)
    BY <1>1, <1>8, WithdrawalStep DEF set_compatibility_generation
  <1>9. CASE \E open \in AdmissionStates : set_admission(open)
    BY <1>1, <1>9, WithdrawalStep DEF set_admission
  <1>10. CASE ClockStep
    BY <1>1, <1>10, WithdrawalStep DEF ClockStep
  <1>11. CASE \E q \in Requests : evaluate(q)
    BY <1>11, EvaluateStep
  <1>12. CASE \E p \in plans : commit(p)
    BY <1>1, <1>12, CommitStep
  <1>13. CASE TrustStep
    <2>1. \A r \in records' : r \in records \/ r.plan = 0
      BY <1>13, TrustType
    <2>2. /\ UNCHANGED <<plans, plan_count, idempotency, epoch,
                         compatibility_generation>>
          /\ pending' \subseteq pending
      BY <1>13 DEF TrustStep, quarantine, release_quarantine, revoke,
                   supersede, retire, revoke_evidence, Release
    <2> QED  BY <1>1, <2>1, <2>2, WithdrawalStep
  <1>14. CASE \E id \in VetoIds, b \in BOOLEAN : set_security_veto(id, b)
    BY <1>1, <1>14, WithdrawalStep DEF set_security_veto
  <1>15. CASE \E id \in VetoIds, b \in BOOLEAN : set_dependency_veto(id, b)
    BY <1>1, <1>15, WithdrawalStep DEF set_dependency_veto
  <1> QED
    BY <1>2, <1>3, <1>4, <1>5, <1>6, <1>7, <1>8, <1>9, <1>10, <1>11, <1>12,
       <1>13, <1>14, <1>15 DEF Next, OtherOperation, TrustStep

\* The engine starts well typed and without plans.
LEMMA InitialState ==
    ASSUME Init PROVE TypeOK /\ PlanInvariant
  <1>1. TypeOK
    BY PoliciesAssumption, NumbersAssumption DEF Init, TypeOK, VetoState
  <1>2. PlanInvariant
    BY DEF Init, PlanInvariant, PlansAreFresh, ReservationsAreCurrent,
           CommitsAreFinal, PlanCommitsOnce, RequestsHaveOnePlan
  <1> QED  BY <1>1, <1>2

-----------------------------------------------------------------------------
(* The theorems.                                                           *)

\* In every reachable state the authoritative state is well typed and the plan
\* invariant holds: no operation of the engine (promotion.cpp, engine.cpp,
\* trust.cpp) breaks either.
THEOREM StateIsSound == Spec => [](TypeOK /\ PlanInvariant)
  <1>1. Init => TypeOK /\ PlanInvariant
    BY InitialState
  <1>2. TypeOK /\ PlanInvariant /\ [Next]_vars => (TypeOK /\ PlanInvariant)'
    BY TypeStep, PlanStep DEF PlanInvariant
  <1> QED  BY <1>1, <1>2, PTL DEF Spec

\* The records, flags and identities of the state always have their types: in
\* particular each outcome evaluate() and commit() store is a PromotionOutcome,
\* and commit() never moves a revision that does not exist.
THEOREM TypeCorrect == Spec => []TypeOK
  BY StateIsSound, PTL

\* The plan invariant, for every policy, every bound and every history.
THEOREM PlansAreSound == Spec => []PlanInvariant
  BY StateIsSound, PTL

\* A plan makes at most one transition, however often commit() is called with
\* it (promotion.cpp 343-354, 461).
THEOREM PlanAtMostOnce == Spec => []PlanCommitsOnce
  <1>1. PlanInvariant => PlanCommitsOnce
    BY DEF PlanInvariant
  <1> QED  BY <1>1, PlansAreSound, PTL

\* A request makes at most one transition, however often it is evaluated and
\* its plans are committed (promotion.cpp 56-69).
THEOREM RequestAtMostOnce == Spec => []RequestCommitsOnce
  <1>1. PlanInvariant => RequestCommitsOnce
    BY DEF PlanInvariant, PlanCommitsOnce, RequestsHaveOnePlan,
           RequestCommitsOnce
  <1> QED  BY <1>1, PlansAreSound, PTL

\* Only the commit() of a plan records a transition of that plan, and only
\* while the plan holds its reservation under the active policy.
LEMMA NewCommitStep ==
    ASSUME TypeOK, [Next]_vars, NEW r \in NewCommits
    PROVE  \E p \in plans : /\ r.plan = p.id
                            /\ PolicyCurrent(p)
                            /\ ReservationHeld(p)
  <1>1. r \in records' /\ r \notin records /\ r.plan # 0
    BY DEF NewCommits
  <1>2. ~TrustStep
    BY <1>1, TrustType
  <1>3. records' # records
    BY <1>1
  <1>4. PICK p \in plans : commit(p)
    BY <1>2, <1>3
       DEF Next, OtherOperation, TrustStep, vars, register_artifact, submit_evidence,
           publish_policy, restart, recover_in_flight,
           set_compatibility_generation, set_admission, ClockStep, evaluate,
           set_security_veto, set_dependency_veto
  <1>5. CommitTransition(p)
    BY <1>3, <1>4 DEF commit, CommitRefused, CommitPolicyStale, CommitExpired,
       CommitReservationLost, CommitEvidenceChanged, CommitGatesFailed
  <1>6. r.plan = p.id
    BY <1>1, <1>5, EvictSubset DEF CommitTransition, AddRecord
  <1> QED  BY <1>5, <1>6 DEF CommitTransition

\* A plan of an earlier epoch, compatibility generation or policy never
\* commits, although restart(), set_compatibility_generation() and
\* publish_policy() leave it stored (promotion.cpp 289-354).
THEOREM OldAuthorityFenced == Spec => OldAuthorityNeverCommits
  <1> DEFINE Fenced == \A r \in NewCommits : \A p \in plans :
                          p.id = r.plan =>
                             /\ p.epoch = epoch
                             /\ p.compatibility = compatibility_generation
                             /\ p.policy = policy
  <1>1. ASSUME TypeOK, PlanInvariant, [Next]_vars
        PROVE  Fenced
    <2> SUFFICES ASSUME NEW r \in NewCommits, NEW p \in plans, p.id = r.plan
                 PROVE  /\ p.epoch = epoch
                        /\ p.compatibility = compatibility_generation
                        /\ p.policy = policy
      OBVIOUS
    <2>1. PICK c \in plans : r.plan = c.id /\ PolicyCurrent(c) /\ ReservationHeld(c)
      BY <1>1, NewCommitStep
    <2>2. c = p
      BY <1>1, <2>1 DEF PlanInvariant, PlansAreFresh
    <2>3. PICK s \in pending : s.plan = p.id
      BY <2>1, <2>2 DEF ReservationHeld
    <2> QED  BY <1>1, <2>1, <2>2, <2>3
             DEF PlanInvariant, ReservationsAreCurrent, PolicyCurrent
  <1>2. TypeOK /\ PlanInvariant /\ [Next]_vars => [Fenced]_vars
    BY <1>1
  <1> QED  BY <1>2, StateIsSound, PTL DEF Spec, OldAuthorityNeverCommits

-----------------------------------------------------------------------------
\* At most one record of an evidence key is not superseded, so submit_evidence()
\* replaces at most one and its generation is well defined
\* (engine.cpp 388-403).
THEOREM EvidenceKeysUnique == Spec => []OneRecordPerEvidenceKey
  <1>1. Init => OneRecordPerEvidenceKey
    BY DEF Init, OneRecordPerEvidenceKey
  <1>2. ASSUME TypeOK, OneRecordPerEvidenceKey, [Next]_vars
        PROVE  OneRecordPerEvidenceKey'
    <2>1. ASSUME UNCHANGED evidence PROVE OneRecordPerEvidenceKey'
      BY <1>2, <2>1 DEF OneRecordPerEvidenceKey
    <2>2. ASSUME NEW s \in Submissions, submit_evidence(s)
          PROVE  OneRecordPerEvidenceKey'
      <3> DEFINE old == Replaced(s)
                 kept == [e \in DOMAIN evidence |->
                             IF e \in old
                             THEN [evidence[e] EXCEPT !.superseded = TRUE]
                             ELSE evidence[e]]
      <3>1. PICK new : evidence' = Append(kept, new) /\ new.submission = s
        <4> DEFINE record(g) == [submission |-> s, generation |-> g,
                                 revoked |-> FALSE, superseded |-> FALSE]
        <4>1. \E g : evidence' = Append(kept, record(g))
          BY <2>2 DEF submit_evidence, SupersedeEvidence
        <4>2. \A g : record(g).submission = s
          OBVIOUS
        <4> HIDE DEF record, kept
        <4> QED  BY <4>1, <4>2
      <3>2. /\ evidence \in Seq(EvidenceRecord)
            /\ DOMAIN evidence = 1 .. Len(evidence) /\ Len(evidence) \in Nat
        BY <1>2 DEF TypeOK
      <3>3. \A e \in DOMAIN evidence :
               /\ kept[e].submission = evidence[e].submission
               /\ kept[e].superseded <=> evidence[e].superseded \/ e \in old
        <4>1. ASSUME NEW x \in EvidenceRecord
              PROVE  /\ [x EXCEPT !.superseded = TRUE].submission = x.submission
                     /\ [x EXCEPT !.superseded = TRUE].superseded
          BY DEF EvidenceRecord
        <4> QED  BY <3>2, <4>1
      <3>4. /\ DOMAIN evidence' = 1 .. Len(evidence) + 1
            /\ \A e \in 1 .. Len(evidence) : evidence'[e] = kept[e]
            /\ evidence'[Len(evidence) + 1] = new
        <4> DEFINE K == {kept[e] : e \in DOMAIN evidence}
        <4>1. kept \in [1 .. Len(evidence) -> K]
          BY <3>2
        <4> HIDE DEF kept, K
        <4>2. kept \in Seq(K) /\ Len(kept) = Len(evidence)
          BY <3>2, <4>1
        <4> QED  BY <3>1, <3>2, <4>2
      <3>5. \A e \in DOMAIN evidence :
               /\ EvidenceKey(evidence[e].submission) = EvidenceKey(s)
               /\ ~evidence[e].superseded
               => e \in old
        BY DEF Replaced
      <3> HIDE DEF kept, old
      <3> SUFFICES
            ASSUME NEW e \in DOMAIN evidence', NEW f \in DOMAIN evidence',
                   EvidenceKey(evidence'[e].submission)
                      = EvidenceKey(evidence'[f].submission),
                   ~evidence'[e].superseded, ~evidence'[f].superseded
            PROVE  e = f
        BY DEF OneRecordPerEvidenceKey
      <3>6. CASE e \in DOMAIN evidence /\ f \in DOMAIN evidence
        BY <1>2, <3>2, <3>3, <3>4, <3>6 DEF OneRecordPerEvidenceKey
      <3>7. CASE e \in DOMAIN evidence /\ f = Len(evidence) + 1
        BY <3>1, <3>2, <3>3, <3>4, <3>5, <3>7
      <3>8. CASE e = Len(evidence) + 1 /\ f \in DOMAIN evidence
        BY <3>1, <3>2, <3>3, <3>4, <3>5, <3>8
      <3> QED  BY <3>2, <3>4, <3>6, <3>7, <3>8
    <2>3. ASSUME NEW d \in DOMAIN evidence, revoke_evidence(d)
          PROVE  OneRecordPerEvidenceKey'
      <3>1. evidence \in Seq(EvidenceRecord)
        BY <1>2 DEF TypeOK
      <3>2. /\ DOMAIN evidence' = DOMAIN evidence
            /\ \A e \in DOMAIN evidence :
                  /\ evidence'[e].submission = evidence[e].submission
                  /\ evidence'[e].superseded <=> evidence[e].superseded
        <4>1. ASSUME NEW x \in EvidenceRecord
              PROVE  /\ [x EXCEPT !.revoked = TRUE].submission = x.submission
                     /\ [x EXCEPT !.revoked = TRUE].superseded = x.superseded
          BY DEF EvidenceRecord
        <4> QED  BY <2>3, <3>1, <4>1 DEF revoke_evidence
      <3> QED  BY <1>2, <3>2 DEF OneRecordPerEvidenceKey
    <2> QED
      BY <1>2, <2>1, <2>2, <2>3
         DEF Next, OtherOperation, vars, register_artifact, publish_policy, restart,
             recover_in_flight, set_compatibility_generation, set_admission,
             ClockStep, evaluate, commit, quarantine, release_quarantine,
             revoke, supersede, retire, set_security_veto, set_dependency_veto
  <1> QED  BY <1>1, <1>2, TypeCorrect, PTL DEF Spec

-----------------------------------------------------------------------------
(* What a step does to revisions.                                          *)

\* The revision was moved to a stage, and its flags are these.
Moved(old, new, to, promoted, decision, quarantined, revoked) ==
    /\ new.registration = old.registration
    /\ new.stage = to
    /\ new.stage_generation = old.stage_generation + 1
    /\ new.promoted <=> promoted
    /\ new.promotion_decision = decision
    /\ new.quarantined <=> quarantined
    /\ new.revoked <=> revoked

\* A newer revision arrived: the one that was current leaves its stage unless
\* it may keep it (register_artifact()).
DemotedBy(r, a, v) ==
    LET old == artifacts[a][v]
        new == artifacts'[a][v]
    IN  /\ register_artifact(r) /\ r.id = a /\ v = Current(a)
        /\ new.registration = old.registration
        /\ new.promoted <=> old.promoted
        /\ new.promotion_decision = old.promotion_decision
        /\ new.quarantined <=> old.quarantined
        /\ new.revoked <=> old.revoked
        /\ \/ /\ old.stage \in {"Promoted", "Revoked", "Retired"}
              /\ new.stage = old.stage
              /\ new.stage_generation = old.stage_generation
           \/ /\ old.stage \notin {"Promoted", "Revoked", "Retired"}
              /\ new.stage = "Superseded"
              /\ new.stage_generation = old.stage_generation + 1

\* The transition of a plan was made (commit()).
TransitionedBy(p, a, v) ==
    LET old == artifacts[a][v]
    IN  /\ commit(p) /\ CommitTransition(p)
        /\ p.artifact = a /\ p.artifact_revision = v
        /\ Moved(old, artifacts'[a][v], p.to, old.promoted \/ p.to = "Promoted",
                 IF p.to = "Promoted" THEN p.decision
                 ELSE old.promotion_decision,
                 old.quarantined, old.revoked)

\* An operation of trust.cpp moved the current revision.
MovedByTrust(a, v) ==
    LET old == artifacts[a][v]
        new == artifacts'[a][v]
        decision == old.promotion_decision
    IN  /\ v = Current(a)
        /\ \/ /\ a \in QuarantineIds /\ quarantine(a)
              /\ Moved(old, new, "Quarantined", old.promoted, decision, TRUE,
                       old.revoked)
           \/ /\ a \in QuarantineIds /\ release_quarantine(a) /\ ReleaseGranted(a)
              /\ Moved(old, new, "Candidate", old.promoted, decision, FALSE,
                       old.revoked)
           \/ /\ a \in WithdrawalIds
              /\ \E d \in RevocationTargets : revoke(a, d)
              /\ Moved(old, new, "Revoked", FALSE, decision, old.quarantined,
                       TRUE)
           \/ /\ a \in WithdrawalIds
              /\ \E s \in ArtifactIds : supersede(a, s)
              /\ Moved(old, new, "Superseded", FALSE, decision,
                       old.quarantined, old.revoked)
           \/ /\ a \in WithdrawalIds /\ retire(a)
              /\ Moved(old, new, "Retired", FALSE, decision, old.quarantined,
                       old.revoked)

\* All that can happen to a revision in one step.
Changed(a, v) ==
    \/ artifacts'[a][v] = artifacts[a][v]
    \/ \E r \in Registrations : DemotedBy(r, a, v)
    \/ \E p \in plans : TransitionedBy(p, a, v)
    \/ MovedByTrust(a, v)

\* A revision replaced in its chain: every other revision keeps its place.
LEMMA AtRevision ==
    ASSUME NEW f \in [ArtifactIds -> Seq(ArtifactRecord)],
           NEW a \in ArtifactIds, NEW v \in 1 .. Len(f[a]), NEW e
    PROVE  LET g == [f EXCEPT ![a] = [f[a] EXCEPT ![v] = e]]
           IN  \A b \in ArtifactIds :
                  /\ Len(g[b]) = Len(f[b])
                  /\ \A w \in 1 .. Len(f[b]) :
                        g[b][w] = IF b = a /\ w = v THEN e ELSE f[b][w]
  <1>1. f[a] \in Seq(ArtifactRecord) /\ DOMAIN f[a] = 1 .. Len(f[a])
        /\ Len(f[a]) \in Nat
    OBVIOUS
  <1> DEFINE h == [f[a] EXCEPT ![v] = e]
             T == ArtifactRecord \cup {e}
  <1>2. h \in [1 .. Len(f[a]) -> T]
    BY <1>1
  <1>3. Len(h) = Len(f[a])
    <2>1. h \in Seq(T)
      BY <1>1, <1>2
    <2>2. DOMAIN h = 1 .. Len(f[a])
      BY <1>1
    <2> HIDE DEF h, T
    <2> QED  BY <1>1, <2>1, <2>2
  <1>4. \A w \in 1 .. Len(f[a]) : h[w] = IF w = v THEN e ELSE f[a][w]
    BY <1>1
  <1> HIDE DEF h
  <1> QED  BY <1>3, <1>4 DEF h

\* The fields of a record that was moved.
LEMMA RestagedView ==
    ASSUME NEW changed \in ArtifactRecord, NEW to
    PROVE  LET new == [changed EXCEPT !.stage = to, !.stage_generation = @ + 1]
           IN  Moved(changed, new, to, changed.promoted,
                     changed.promotion_decision, changed.quarantined,
                     changed.revoked)
  BY DEF Moved, ArtifactRecord

\* MoveCurrent() replaces the current revision and nothing else.
LEMMA MoveCurrentView ==
    ASSUME TypeOK, NEW id \in ArtifactIds, Registered(id),
           NEW changed \in ArtifactRecord, NEW to,
           MoveCurrent(id, changed, to), NEW a \in ArtifactIds
    PROVE  /\ Len(artifacts'[a]) = Len(artifacts[a])
           /\ \A v \in 1 .. Len(artifacts[a]) :
                 \/ artifacts'[a][v] = artifacts[a][v]
                 \/ /\ a = id /\ v = Current(id)
                    /\ Moved(changed, artifacts'[a][v], to, changed.promoted,
                             changed.promotion_decision, changed.quarantined,
                             changed.revoked)
  <1> DEFINE e == [changed EXCEPT !.stage = to, !.stage_generation = @ + 1]
  <1>1. Moved(changed, e, to, changed.promoted, changed.promotion_decision,
              changed.quarantined, changed.revoked)
    BY RestagedView
  <1>2. artifacts \in [ArtifactIds -> Seq(ArtifactRecord)]
    BY DEF TypeOK
  <1>3. Current(id) \in 1 .. Len(artifacts[id])
    BY CurrentIsRevision DEF HasRevision
  <1>4. artifacts' = [artifacts EXCEPT ![id] =
                         [artifacts[id] EXCEPT ![Current(id)] = e]]
    BY DEF MoveCurrent
  <1> HIDE DEF e
  <1>5. /\ Len(artifacts'[a]) = Len(artifacts[a])
        /\ \A v \in 1 .. Len(artifacts[a]) :
              artifacts'[a][v] = IF a = id /\ v = Current(id) THEN e
                                 ELSE artifacts[a][v]
    BY <1>2, <1>3, <1>4, AtRevision
  <1> QED  BY <1>1, <1>5

\* register_artifact() appends a revision at the entry stage, demotes the one
\* before it and leaves every other chain alone.
LEMMA RegisterView ==
    ASSUME TypeOK, NEW r \in Registrations, register_artifact(r)
    PROVE  /\ r.id \in ArtifactIds
           /\ Len(artifacts'[r.id]) = Len(artifacts[r.id]) + 1
           /\ artifacts'[r.id][Len(artifacts[r.id]) + 1] = NewRevision(r)
           /\ \A v \in 1 .. Len(artifacts[r.id]) :
                 \/ /\ v # Current(r.id)
                    /\ artifacts'[r.id][v] = artifacts[r.id][v]
                 \/ DemotedBy(r, r.id, v)
           /\ \A a \in ArtifactIds \ {r.id} : artifacts'[a] = artifacts[a]
  <1> DEFINE id == r.id
             chain == artifacts[id]
             demoted == DemoteLast(chain)
  <1>1. /\ id \in ArtifactIds /\ chain \in Seq(ArtifactRecord)
        /\ artifacts \in [ArtifactIds -> Seq(ArtifactRecord)]
    BY InputsAssumption DEF TypeOK
  <1>2. Len(chain) \in Nat /\ DOMAIN chain = 1 .. Len(chain)
    BY <1>1
  <1>3. artifacts' = [artifacts EXCEPT ![id] = Append(demoted, NewRevision(r))]
    BY DEF register_artifact
  <1>4. /\ demoted \in Seq({demoted[i] : i \in 1 .. Len(chain)})
        /\ Len(demoted) = Len(chain)
        /\ \A i \in 1 .. Len(chain) :
              demoted[i] = IF i = Len(chain) THEN Demoted(chain[i]) ELSE chain[i]
    <2> DEFINE T == {demoted[i] : i \in 1 .. Len(chain)}
    <2>1. \A i \in 1 .. Len(chain) :
             demoted[i] = IF i = Len(chain) THEN Demoted(chain[i]) ELSE chain[i]
      BY <1>2 DEF DemoteLast
    <2>2. demoted \in [1 .. Len(chain) -> T]
      BY <1>2 DEF DemoteLast
    <2> HIDE DEF demoted, T, chain
    <2>3. demoted \in Seq(T) /\ Len(demoted) = Len(chain)
      BY <1>2, <2>2
    <2> QED  BY <2>1, <2>3 DEF T
  <1> HIDE DEF demoted
  <1>5. /\ artifacts'[id] = Append(demoted, NewRevision(r))
        /\ \A a \in ArtifactIds \ {id} : artifacts'[a] = artifacts[a]
    BY <1>1, <1>3
  <1>6. /\ Len(artifacts'[id]) = Len(chain) + 1
        /\ artifacts'[id][Len(chain) + 1] = NewRevision(r)
        /\ \A v \in 1 .. Len(chain) : artifacts'[id][v] = demoted[v]
    BY <1>2, <1>4, <1>5
  <1>7. ASSUME NEW v \in 1 .. Len(chain), v = Len(chain)
        PROVE  DemotedBy(r, id, v)
    <2>1. artifacts[id][v] \in ArtifactRecord
      BY <1>1, <1>2
    <2>2. artifacts'[id][v] = Demoted(artifacts[id][v])
      BY <1>4, <1>6, <1>7
    <2>3. ASSUME NEW x \in ArtifactRecord
          PROVE  /\ Demoted(x).registration = x.registration
                 /\ Demoted(x).promoted <=> x.promoted
                 /\ Demoted(x).promotion_decision = x.promotion_decision
                 /\ Demoted(x).quarantined <=> x.quarantined
                 /\ Demoted(x).revoked <=> x.revoked
                 /\ \/ /\ x.stage \in {"Promoted", "Revoked", "Retired"}
                       /\ Demoted(x).stage = x.stage
                       /\ Demoted(x).stage_generation = x.stage_generation
                    \/ /\ x.stage \notin {"Promoted", "Revoked", "Retired"}
                       /\ Demoted(x).stage = "Superseded"
                       /\ Demoted(x).stage_generation = x.stage_generation + 1
      BY DEF ArtifactRecord, Demoted
    <2> QED  BY <1>7, <2>1, <2>2, <2>3 DEF DemotedBy, Current
  <1>8. ASSUME NEW v \in 1 .. Len(chain), v # Len(chain)
        PROVE  v # Current(id) /\ artifacts'[id][v] = artifacts[id][v]
    BY <1>4, <1>6, <1>8 DEF Current
  <1> QED  BY <1>1, <1>5, <1>6, <1>7, <1>8

\* commit() changes the revision of its plan, when it makes the transition.
LEMMA CommitView ==
    ASSUME TypeOK, PlansAreFresh, NEW p \in plans, commit(p),
           NEW a \in ArtifactIds
    PROVE  /\ Len(artifacts'[a]) = Len(artifacts[a])
           /\ \A v \in 1 .. Len(artifacts[a]) :
                 artifacts'[a][v] = artifacts[a][v] \/ TransitionedBy(p, a, v)
  <1>1. CASE ~CommitTransition(p)
    BY <1>1 DEF commit, CommitRefused, CommitPolicyStale, CommitExpired,
       CommitReservationLost, CommitEvidenceChanged, CommitGatesFailed
  <1>2. CASE CommitTransition(p)
    <2> DEFINE id == p.artifact
               w == p.artifact_revision
               old == artifacts[id][w]
               e == Transitioned(old, p)
    <2>1. id \in ArtifactIds /\ w \in 1 .. Len(artifacts[id])
      BY DEF TypeOK, PromotionPlan, PlansAreFresh, HasRevision
    <2>2. artifacts \in [ArtifactIds -> Seq(ArtifactRecord)]
      BY DEF TypeOK
    <2>3. old \in ArtifactRecord
      BY <2>1, <2>2
    <2>4. Moved(old, e, p.to, old.promoted \/ p.to = "Promoted",
                IF p.to = "Promoted" THEN p.decision
                ELSE old.promotion_decision, old.quarantined, old.revoked)
      <3>1. ASSUME NEW x \in ArtifactRecord
            PROVE  Moved(x, Transitioned(x, p), p.to,
                         x.promoted \/ p.to = "Promoted",
                         IF p.to = "Promoted" THEN p.decision
                         ELSE x.promotion_decision, x.quarantined, x.revoked)
        BY DEF Moved, Transitioned, ArtifactRecord
      <3> QED  BY <2>3, <3>1
    <2>5. artifacts' = [artifacts EXCEPT ![id] = [artifacts[id] EXCEPT ![w] = e]]
      BY <1>2 DEF CommitTransition
    <2> HIDE DEF e
    <2>6. /\ Len(artifacts'[a]) = Len(artifacts[a])
          /\ \A v \in 1 .. Len(artifacts[a]) :
                artifacts'[a][v] = IF a = id /\ v = w THEN e
                                   ELSE artifacts[a][v]
      BY <2>1, <2>2, <2>5, AtRevision
    <2> QED  BY <1>2, <2>4, <2>6 DEF TransitionedBy
  <1> QED  BY <1>1, <1>2

\* The flags an operation changes before it moves the revision.
LEMMA FlagsView ==
    ASSUME NEW x \in ArtifactRecord, NEW new, NEW to
    PROVE  /\ LET c == [x EXCEPT !.quarantined = TRUE]
              IN  Moved(c, new, to, c.promoted, c.promotion_decision,
                        c.quarantined, c.revoked)
                  => Moved(x, new, to, x.promoted, x.promotion_decision, TRUE,
                           x.revoked)
           /\ LET c == [x EXCEPT !.quarantined = FALSE]
              IN  Moved(c, new, to, c.promoted, c.promotion_decision,
                        c.quarantined, c.revoked)
                  => Moved(x, new, to, x.promoted, x.promotion_decision, FALSE,
                           x.revoked)
           /\ LET c == [x EXCEPT !.revoked = TRUE, !.promoted = FALSE]
              IN  Moved(c, new, to, c.promoted, c.promotion_decision,
                        c.quarantined, c.revoked)
                  => Moved(x, new, to, FALSE, x.promotion_decision,
                           x.quarantined, TRUE)
           /\ LET c == [x EXCEPT !.superseded = TRUE, !.promoted = FALSE]
              IN  Moved(c, new, to, c.promoted, c.promotion_decision,
                        c.quarantined, c.revoked)
                  => Moved(x, new, to, FALSE, x.promotion_decision,
                           x.quarantined, x.revoked)
           /\ LET c == [x EXCEPT !.promoted = FALSE]
              IN  Moved(c, new, to, c.promoted, c.promotion_decision,
                        c.quarantined, c.revoked)
                  => Moved(x, new, to, FALSE, x.promotion_decision,
                           x.quarantined, x.revoked)
  BY DEF Moved, ArtifactRecord

\* An operation of trust.cpp changes at most the current revision of the
\* artifact it is given.
LEMMA TrustView ==
    ASSUME TypeOK, TrustStep, NEW a \in ArtifactIds
    PROVE  /\ Len(artifacts'[a]) = Len(artifacts[a])
           /\ \A v \in 1 .. Len(artifacts[a]) :
                 artifacts'[a][v] = artifacts[a][v] \/ MovedByTrust(a, v)
  <1> DEFINE Goal == /\ Len(artifacts'[a]) = Len(artifacts[a])
                     /\ \A v \in 1 .. Len(artifacts[a]) :
                           \/ artifacts'[a][v] = artifacts[a][v]
                           \/ MovedByTrust(a, v)
  <1>0. QuarantineIds \subseteq ArtifactIds /\ WithdrawalIds \subseteq ArtifactIds
    BY InputsAssumption
  <1>1. ASSUME NEW id \in QuarantineIds, quarantine(id) PROVE Goal
    <2>1. id \in ArtifactIds /\ Registered(id)
      BY <1>0, <1>1 DEF quarantine
    <2>2. CurrentArtifact(id) \in ArtifactRecord
      BY <2>1, CurrentIsRevision
    <2> DEFINE c == [CurrentArtifact(id) EXCEPT !.quarantined = TRUE]
    <2>3. c \in ArtifactRecord /\ MoveCurrent(id, c, "Quarantined")
      BY <1>1, <2>2, FlagsType DEF quarantine
    <2> HIDE DEF c
    <2>4. /\ Len(artifacts'[a]) = Len(artifacts[a])
          /\ \A v \in 1 .. Len(artifacts[a]) :
                \/ artifacts'[a][v] = artifacts[a][v]
                \/ /\ a = id /\ v = Current(id)
                   /\ Moved(c, artifacts'[a][v], "Quarantined", c.promoted,
                            c.promotion_decision, c.quarantined, c.revoked)
      BY <2>1, <2>3, MoveCurrentView
    <2> QED  BY <1>1, <2>2, <2>4, FlagsView DEF MovedByTrust, CurrentArtifact, c
  <1>2. ASSUME NEW id \in QuarantineIds, release_quarantine(id) PROVE Goal
    <2>1. id \in ArtifactIds /\ Registered(id)
      BY <1>0, <1>2 DEF release_quarantine
    <2>2. CurrentArtifact(id) \in ArtifactRecord
      BY <2>1, CurrentIsRevision
    <2>3. CASE ReleaseRefused(id)
      BY <2>3 DEF ReleaseRefused
    <2>4. CASE ReleaseGranted(id)
      <3> DEFINE c == [CurrentArtifact(id) EXCEPT !.quarantined = FALSE]
      <3>1. c \in ArtifactRecord /\ MoveCurrent(id, c, "Candidate")
        BY <2>2, <2>4, FlagsType DEF ReleaseGranted
      <3> HIDE DEF c
      <3>2. /\ Len(artifacts'[a]) = Len(artifacts[a])
            /\ \A v \in 1 .. Len(artifacts[a]) :
                  \/ artifacts'[a][v] = artifacts[a][v]
                  \/ /\ a = id /\ v = Current(id)
                     /\ Moved(c, artifacts'[a][v], "Candidate", c.promoted,
                              c.promotion_decision, c.quarantined, c.revoked)
        BY <2>1, <3>1, MoveCurrentView
      <3> QED  BY <1>2, <2>2, <2>4, <3>2, FlagsView
               DEF MovedByTrust, CurrentArtifact, c
    <2> QED  BY <1>2, <2>3, <2>4 DEF release_quarantine
  <1>3. ASSUME NEW id \in WithdrawalIds, NEW d \in RevocationTargets,
               revoke(id, d)
        PROVE  Goal
    <2>1. id \in ArtifactIds /\ Registered(id)
      BY <1>0, <1>3 DEF revoke
    <2>2. CurrentArtifact(id) \in ArtifactRecord
      BY <2>1, CurrentIsRevision
    <2> DEFINE c == [CurrentArtifact(id) EXCEPT !.revoked = TRUE,
                                                !.promoted = FALSE]
    <2>3. c \in ArtifactRecord /\ MoveCurrent(id, c, "Revoked")
      BY <1>3, <2>2, FlagsType DEF revoke
    <2> HIDE DEF c
    <2>4. /\ Len(artifacts'[a]) = Len(artifacts[a])
          /\ \A v \in 1 .. Len(artifacts[a]) :
                \/ artifacts'[a][v] = artifacts[a][v]
                \/ /\ a = id /\ v = Current(id)
                   /\ Moved(c, artifacts'[a][v], "Revoked", c.promoted,
                            c.promotion_decision, c.quarantined, c.revoked)
      BY <2>1, <2>3, MoveCurrentView
    <2> QED  BY <1>3, <2>2, <2>4, FlagsView DEF MovedByTrust, CurrentArtifact, c
  <1>4. ASSUME NEW id \in WithdrawalIds, NEW successor \in ArtifactIds,
               supersede(id, successor)
        PROVE  Goal
    <2>1. id \in ArtifactIds /\ Registered(id)
      BY <1>0, <1>4 DEF supersede
    <2>2. CurrentArtifact(id) \in ArtifactRecord
      BY <2>1, CurrentIsRevision
    <2> DEFINE c == [CurrentArtifact(id) EXCEPT !.superseded = TRUE,
                                                !.promoted = FALSE]
    <2>3. c \in ArtifactRecord /\ MoveCurrent(id, c, "Superseded")
      BY <1>4, <2>2, FlagsType DEF supersede
    <2> HIDE DEF c
    <2>4. /\ Len(artifacts'[a]) = Len(artifacts[a])
          /\ \A v \in 1 .. Len(artifacts[a]) :
                \/ artifacts'[a][v] = artifacts[a][v]
                \/ /\ a = id /\ v = Current(id)
                   /\ Moved(c, artifacts'[a][v], "Superseded", c.promoted,
                            c.promotion_decision, c.quarantined, c.revoked)
      BY <2>1, <2>3, MoveCurrentView
    <2> QED  BY <1>4, <2>2, <2>4, FlagsView DEF MovedByTrust, CurrentArtifact, c
  <1>5. ASSUME NEW id \in WithdrawalIds, retire(id) PROVE Goal
    <2>1. id \in ArtifactIds /\ Registered(id)
      BY <1>0, <1>5 DEF retire
    <2>2. CurrentArtifact(id) \in ArtifactRecord
      BY <2>1, CurrentIsRevision
    <2> DEFINE c == [CurrentArtifact(id) EXCEPT !.promoted = FALSE]
    <2>3. c \in ArtifactRecord /\ MoveCurrent(id, c, "Retired")
      BY <1>5, <2>2, FlagsType DEF retire
    <2> HIDE DEF c
    <2>4. /\ Len(artifacts'[a]) = Len(artifacts[a])
          /\ \A v \in 1 .. Len(artifacts[a]) :
                \/ artifacts'[a][v] = artifacts[a][v]
                \/ /\ a = id /\ v = Current(id)
                   /\ Moved(c, artifacts'[a][v], "Retired", c.promoted,
                            c.promotion_decision, c.quarantined, c.revoked)
      BY <2>1, <2>3, MoveCurrentView
    <2> QED  BY <1>5, <2>2, <2>4, FlagsView DEF MovedByTrust, CurrentArtifact, c
  <1>6. ASSUME NEW e \in DOMAIN evidence, revoke_evidence(e) PROVE Goal
    BY <1>6 DEF revoke_evidence
  <1> QED  BY <1>1, <1>2, <1>3, <1>4, <1>5, <1>6 DEF TrustStep

\* The steps that change artifacts.
LEMMA ArtifactSteps ==
    ASSUME [Next]_vars
    PROVE  \/ UNCHANGED artifacts
           \/ \E r \in Registrations : register_artifact(r)
           \/ \E p \in plans : commit(p)
           \/ TrustStep
  BY DEF Next, OtherOperation, TrustStep, vars, submit_evidence,
         publish_policy, restart, recover_in_flight,
         set_compatibility_generation, set_admission, ClockStep, evaluate,
         set_security_veto, set_dependency_veto

\* What a step does to a revision that exists.
LEMMA RevisionStep ==
    ASSUME TypeOK, PlansAreFresh, [Next]_vars,
           NEW a \in ArtifactIds, NEW v \in 1 .. Len(artifacts[a])
    PROVE  v \in 1 .. Len(artifacts'[a]) /\ Changed(a, v)
  <1>1. Len(artifacts[a]) \in Nat
    BY DEF TypeOK
  <1>2. CASE UNCHANGED artifacts
    BY <1>2 DEF Changed
  <1>3. ASSUME NEW r \in Registrations, register_artifact(r)
        PROVE  v \in 1 .. Len(artifacts'[a]) /\ Changed(a, v)
    <2>1. CASE a = r.id
      <3>1. /\ Len(artifacts'[a]) = Len(artifacts[a]) + 1
            /\ artifacts'[a][v] = artifacts[a][v] \/ DemotedBy(r, a, v)
        BY <1>3, <2>1, RegisterView
      <3> QED  BY <1>1, <3>1 DEF Changed
    <2>2. CASE a # r.id
      <3>1. artifacts'[a] = artifacts[a]
        BY <1>3, <2>2, RegisterView
      <3> QED  BY <3>1 DEF Changed
    <2> QED  BY <2>1, <2>2
  <1>4. ASSUME NEW p \in plans, commit(p)
        PROVE  v \in 1 .. Len(artifacts'[a]) /\ Changed(a, v)
    BY <1>4, CommitView DEF Changed
  <1>5. CASE TrustStep
    BY <1>5, TrustView DEF Changed
  <1> QED  BY <1>2, <1>3, <1>4, <1>5, ArtifactSteps

\* A revision that did not exist was registered.
LEMMA NewRevisionStep ==
    ASSUME TypeOK, PlansAreFresh, [Next]_vars,
           NEW a \in ArtifactIds, NEW v \in 1 .. Len(artifacts'[a]),
           v \notin 1 .. Len(artifacts[a])
    PROVE  \E r \in Registrations :
              /\ register_artifact(r) /\ r.id = a
              /\ v = Len(artifacts[a]) + 1
              /\ artifacts'[a][v] = NewRevision(r)
  <1>1. Len(artifacts[a]) \in Nat
    BY DEF TypeOK
  <1>2. CASE UNCHANGED artifacts
    BY <1>2
  <1>3. ASSUME NEW r \in Registrations, register_artifact(r)
        PROVE  /\ r.id = a
               /\ v = Len(artifacts[a]) + 1
               /\ artifacts'[a][v] = NewRevision(r)
    <2>1. r.id = a
      BY <1>3, RegisterView
    <2> QED  BY <1>1, <1>3, <2>1, RegisterView
  <1>4. ASSUME NEW p \in plans, commit(p) PROVE FALSE
    BY <1>4, CommitView
  <1>5. CASE TrustStep
    BY <1>5, TrustView
  <1> QED  BY <1>2, <1>3, <1>4, <1>5, ArtifactSteps

-----------------------------------------------------------------------------
(* What a step does to collections.                                        *)

\* Only evaluate() adds a reservation.
LEMMA PendingSteps ==
    ASSUME [Next]_vars
    PROVE  \/ pending' \subseteq pending
           \/ \E q \in Requests : evaluate(q) /\ EvaluatePlanned(q)
  <1>1. ASSUME NEW q \in Requests, evaluate(q)
        PROVE  pending' \subseteq pending \/ EvaluatePlanned(q)
    BY <1>1 DEF evaluate, EvaluateUnknown, EvaluateRejected, EvaluateAtCapacity
  <1>2. ASSUME NEW p \in plans, commit(p)
        PROVE  pending' \subseteq pending
    BY <1>2 DEF commit, CommitRefused, CommitPolicyStale, CommitExpired,
       CommitReservationLost, CommitEvidenceChanged, CommitGatesFailed,
       CommitTransition, Release
  <1>3. ASSUME TrustStep
        PROVE  pending' \subseteq pending
    BY <1>3 DEF TrustStep, quarantine, release_quarantine, revoke, supersede,
                retire, revoke_evidence, Release
  <1>4. CASE \/ \E q \in Requests : evaluate(q)
             \/ \E p \in plans : commit(p)
             \/ TrustStep
    BY <1>1, <1>2, <1>3, <1>4
  <1>5. CASE ~(\/ \E q \in Requests : evaluate(q)
               \/ \E p \in plans : commit(p)
               \/ TrustStep)
    BY <1>5 DEF Next, OtherOperation, TrustStep, vars, register_artifact,
       submit_evidence, publish_policy, restart, recover_in_flight,
       set_compatibility_generation, set_admission, ClockStep,
       set_security_veto, set_dependency_veto
  <1> QED  BY <1>4, <1>5

\* Only evaluate() changes the plans, and evicts before it adds one.
LEMMA PlanSteps ==
    ASSUME [Next]_vars
    PROVE  \/ UNCHANGED plans
           \/ plans' = Evict(plans, MaxPlans)
           \/ \E q \in Requests :
                 plans' = Evict(plans, MaxPlans) \cup {PlanFor(q)}
  <1>1. ASSUME NEW q \in Requests, evaluate(q)
        PROVE  \/ UNCHANGED plans
               \/ plans' = Evict(plans, MaxPlans)
               \/ plans' = Evict(plans, MaxPlans) \cup {PlanFor(q)}
    BY <1>1 DEF evaluate, EvaluateUnknown, EvaluateRejected, EvaluatePlanned,
                EvaluateAtCapacity
  <1>2. CASE \E q \in Requests : evaluate(q)
    BY <1>1, <1>2
  <1>3. CASE ~\E q \in Requests : evaluate(q)
    BY <1>3 DEF Next, OtherOperation, vars, register_artifact,
       submit_evidence, publish_policy, restart, recover_in_flight,
       set_compatibility_generation, set_admission, ClockStep, commit,
       set_security_veto, set_dependency_veto, quarantine,
       release_quarantine, revoke, supersede, retire, revoke_evidence
  <1> QED  BY <1>2, <1>3

\* The record a step adds: of the transition of a plan, or of an operation.
RecordAdded(new) ==
    /\ record_count' = record_count + 1
    /\ records' = Evict(records, MaxRecords) \cup {new}
    /\ new.id = record_count + 1
    /\ \/ /\ TrustStep /\ new.plan = 0 /\ new.to # "Promoted"
          /\ new.epoch = epoch /\ new.policy_generation = policy.generation
       \/ \E p \in plans :
             /\ commit(p) /\ CommitTransition(p)
             /\ new.plan = p.id /\ new.request = p.request
             /\ new.artifact = p.artifact
             /\ new.artifact_revision = p.artifact_revision
             /\ new.to = p.to /\ new.decision = p.decision
             /\ new.from = artifacts[p.artifact][p.artifact_revision].stage
             /\ new.epoch = p.epoch
             /\ new.policy_generation = p.policy.generation

\* A step adds at most one record, and the oldest makes room for it.
LEMMA RecordSteps ==
    ASSUME [Next]_vars
    PROVE  UNCHANGED <<records, record_count>> \/ \E new : RecordAdded(new)
  <1> DEFINE Added(id, v, to, d, plan, request, e, g) ==
                [id |-> record_count + 1, artifact |-> id,
                 artifact_revision |-> v, from |-> StageBefore(id, v), to |-> to,
                 decision |-> d, plan |-> plan, request |-> request,
                 epoch |-> e, policy_generation |-> g]
             Goal == \/ UNCHANGED <<records, record_count>>
                     \/ \E new : RecordAdded(new)
  <1>1. ASSUME NEW id, NEW v, NEW to, NEW d, NEW plan, NEW request, NEW e, NEW g
        PROVE  LET new == Added(id, v, to, d, plan, request, e, g)
               IN  /\ new.id = record_count + 1 /\ new.plan = plan
                   /\ new.request = request /\ new.artifact = id
                   /\ new.artifact_revision = v /\ new.to = to
                   /\ new.decision = d /\ new.from = artifacts[id][v].stage
                   /\ new.epoch = e /\ new.policy_generation = g
                   /\ AddRecord(id, v, to, d, plan, request, e, g)
                      => /\ record_count' = record_count + 1
                         /\ records' = Evict(records, MaxRecords) \cup {new}
    BY DEF AddRecord, StageBefore
  <1> HIDE DEF Added
  <1>2. ASSUME NEW p \in plans, commit(p)
        PROVE  Goal
    <2>1. CASE CommitTransition(p)
      <3>1. AddRecord(p.artifact, p.artifact_revision, p.to, p.decision, p.id,
                      p.request, p.epoch, p.policy.generation)
        BY <2>1 DEF CommitTransition
      <3> QED  BY <1>1, <1>2, <2>1, <3>1 DEF RecordAdded
    <2>2. CASE ~CommitTransition(p)
      BY <1>2, <2>2 DEF commit, CommitRefused, CommitPolicyStale,
         CommitExpired, CommitReservationLost, CommitEvidenceChanged,
         CommitGatesFailed
    <2> QED  BY <2>1, <2>2
  <1>3. ASSUME TrustStep
        PROVE  Goal
    <2>1. ASSUME NEW id, NEW to, NEW d, NEW request, to # "Promoted",
                 OperationRecord(id, to, d, request)
          PROVE  Goal
      <3>1. AddRecord(id, Current(id), to, d, 0, request, epoch,
                      policy.generation)
        BY <2>1 DEF OperationRecord
      <3> QED  BY <1>1, <1>3, <2>1, <3>1 DEF RecordAdded
    <2>2. ASSUME NEW id, quarantine(id) PROVE Goal
      BY <2>2 DEF quarantine
    <2>3. ASSUME NEW id, release_quarantine(id) PROVE Goal
      BY <2>1, <2>3 DEF release_quarantine, ReleaseRefused, ReleaseGranted
    <2>4. ASSUME NEW id, NEW d, revoke(id, d) PROVE Goal
      BY <2>1, <2>4 DEF revoke
    <2>5. ASSUME NEW id, NEW successor, supersede(id, successor) PROVE Goal
      BY <2>1, <2>5 DEF supersede
    <2>6. ASSUME NEW id, retire(id) PROVE Goal
      BY <2>1, <2>6 DEF retire
    <2>7. ASSUME NEW e, revoke_evidence(e) PROVE Goal
      BY <2>7 DEF revoke_evidence
    <2> HIDE DEF Goal
    <2> QED  BY <1>3, <2>2, <2>3, <2>4, <2>5, <2>6, <2>7 DEF TrustStep
  <1>4. CASE (\E p \in plans : commit(p)) \/ TrustStep
    BY <1>2, <1>3, <1>4
  <1>5. CASE ~((\E p \in plans : commit(p)) \/ TrustStep)
    <2>1. UNCHANGED <<records, record_count>>
      BY <1>5 DEF Next, OtherOperation, TrustStep, vars, register_artifact,
         submit_evidence, publish_policy, restart, recover_in_flight,
         set_compatibility_generation, set_admission, ClockStep, evaluate,
         set_security_veto, set_dependency_veto
    <2> QED  BY <2>1
  <1> QED  BY <1>4, <1>5
=============================================================================
