------------------------------ MODULE Promotion ------------------------------
(***************************************************************************)
(* Transactional promotion: evaluate() plans and reserves a transition,    *)
(* commit() revalidates the plan and makes it (engine/promotion.cpp).      *)
(* promote() is evaluate() followed by commit(), and the state lock is     *)
(* released between the two, so its steps are those of this module.        *)
(*                                                                         *)
(* A call that is refused without a change of state is a stuttering step   *)
(* and is left out: a closed admission, a request that was already         *)
(* evaluated (it gets the stored decision, or a conflict when its content  *)
(* differs), a plan that was evicted or does not equal the stored one.     *)
(***************************************************************************)
EXTENDS GateEvaluation

-----------------------------------------------------------------------------
(* evaluate().                                                             *)

StageIsReachable(kind, from, to) ==
    HasEdge(policy.graph, from, to) \/ HasRule(policy, kind, from, to)

\* The outcome of a request for a revision that exists and has the expected
\* digest, before a plan is made.
Verdict(q) ==
    LET artifact == artifacts[q.artifact][q.artifact_revision]
    IN  IF artifact.stage = q.to
        THEN IF CurrentlyAuthoritative(artifact)
             THEN "AlreadyPromoted" ELSE "TransitionIllegal"
        ELSE IF ~StageIsReachable(artifact.registration.kind, artifact.stage,
                                  q.to)
        THEN "TransitionIllegal"
        ELSE IF ConflictingReservation(q.artifact, q.request, q.attempt)
        THEN "Conflict"
        ELSE EvaluateGates(q)

\* Mutant of Unanswered: a retry is evaluated again.
AlwaysEvaluated(q) == TRUE

Unanswered(q) == \A i \in idempotency : i.request # q.request

NextDecision == Len(decisions) + 1

Decide(request, outcome, plan) ==
    /\ NextDecision <= DecisionLimit
    /\ decisions' = Append(decisions, [request |-> request,
                                       outcome |-> outcome, plan |-> plan])

Answer(q, outcome, plan) ==
    /\ Decide(q.request, outcome, plan)
    /\ idempotency' = idempotency \cup
          {[request |-> q.request, decision |-> NextDecision,
            outcome |-> outcome, plan |-> plan]}

KnownRevision(q) ==
    /\ HasRevision(q.artifact, q.artifact_revision)
    /\ artifacts[q.artifact][q.artifact_revision].registration.digest = q.digest

\* An unknown revision or digest is decided without an idempotency record.
EvaluateUnknown(q) ==
    /\ ~KnownRevision(q)
    /\ Decide(q.request,
              IF HasRevision(q.artifact, q.artifact_revision)
              THEN "DigestMismatch" ELSE "ArtifactNotFound", 0)
    /\ UNCHANGED <<idempotency, plans, plan_count, pending>>

EvaluateRejected(q) ==
    /\ KnownRevision(q)
    /\ Verdict(q) # "PromotionEligible"
    /\ Answer(q, Verdict(q), 0)
    /\ UNCHANGED <<plans, plan_count, pending>>

PlanFor(q) ==
    LET artifact == artifacts[q.artifact][q.artifact_revision]
    IN  [id |-> plan_count + 1, request |-> q.request, attempt |-> q.attempt,
         decision |-> NextDecision, artifact |-> q.artifact,
         artifact_revision |-> q.artifact_revision,
         from |-> artifact.stage, to |-> q.to,
         stage_generation |-> artifact.stage_generation,
         policy |-> policy, epoch |-> epoch,
         compatibility |-> compatibility_generation,
         snapshot |-> Snapshot(q.artifact, q.artifact_revision),
         expires |-> now + PlanTtl]

ReservationFor(p) ==
    [artifact |-> p.artifact, artifact_revision |-> p.artifact_revision,
     stage_generation |-> p.stage_generation, from |-> p.from, to |-> p.to,
     plan |-> p.id, request |-> p.request, attempt |-> p.attempt]

\* Mutant of ReservationAvailable: one reservation too many.
OneMoreReservation(id) == Cardinality(pending) <= MaxPending

\* At the bound of reservations only the holder of one may plan again.
ReservationAvailable(id) ==
    Cardinality(pending) < MaxPending \/ \E r \in pending : r.artifact = id

EvaluatePlanned(q) ==
    /\ KnownRevision(q)
    /\ Verdict(q) = "PromotionEligible"
    /\ ReservationAvailable(q.artifact)
    /\ plan_count' = plan_count + 1
    /\ plans' = Evict(plans, MaxPlans) \cup {PlanFor(q)}
    /\ pending' = Release(q.artifact) \cup {ReservationFor(PlanFor(q))}
    /\ Answer(q, "PromotionEligible", plan_count + 1)

\* The oldest plan has gone, and a plan identity, before the bound is checked.
EvaluateAtCapacity(q) ==
    /\ KnownRevision(q)
    /\ Verdict(q) = "PromotionEligible"
    /\ ~ReservationAvailable(q.artifact)
    /\ plan_count' = plan_count + 1
    /\ plans' = Evict(plans, MaxPlans)
    /\ Answer(q, "AdmissionRejected", 0)
    /\ UNCHANGED pending

evaluate(q) ==
    /\ admission_open
    /\ Unanswered(q)
    /\ \/ EvaluateUnknown(q)
       \/ EvaluateRejected(q)
       \/ EvaluatePlanned(q)
       \/ EvaluateAtCapacity(q)
    /\ UNCHANGED <<artifacts, evidence, records, record_count, policy, epoch,
                   compatibility_generation, vetoes, admission_open, now>>

-----------------------------------------------------------------------------
(* commit().                                                               *)

PolicyCurrent(p) == p.policy = policy

Expired(p) == now > p.expires

\* Mutant of ReservationHeld: the plan alone is authority to commit.
PlanIsEnough(p) == TRUE

ReservationHeld(p) ==
    \E r \in pending : r.artifact = p.artifact /\ r.plan = p.id

\* The request commit() rebuilds from the plan to evaluate the gates again.
RequestOf(p) ==
    [request |-> p.request, attempt |-> p.attempt, artifact |-> p.artifact,
     artifact_revision |-> p.artifact_revision, to |-> p.to,
     epoch |-> p.epoch]

EvidenceUnchanged(p) == EvaluatedSnapshot(RequestOf(p)) = p.snapshot

\* A refused commit rewrites the outcome of the plan's decision.
Redecide(p, outcome) == decisions' = [decisions EXCEPT ![p.decision].outcome = outcome]

CommitRefused(p, outcome) ==
    /\ Redecide(p, outcome)
    /\ pending' = Release(p.artifact)
    /\ UNCHANGED <<artifacts, records, record_count, idempotency>>

CommitPolicyStale(p) ==
    /\ ~PolicyCurrent(p)
    /\ CommitRefused(p, "Conflict")

CommitExpired(p) ==
    /\ PolicyCurrent(p) /\ Expired(p)
    /\ CommitRefused(p, "RevalidationRequired")

\* The one refusal that leaves the reservation, which is another plan's.
CommitReservationLost(p) ==
    /\ PolicyCurrent(p) /\ ~Expired(p) /\ ~ReservationHeld(p)
    /\ Redecide(p, "Conflict")
    /\ UNCHANGED <<artifacts, records, record_count, idempotency, pending>>

CommitEvidenceChanged(p) ==
    /\ PolicyCurrent(p) /\ ~Expired(p) /\ ReservationHeld(p)
    /\ ~EvidenceUnchanged(p)
    /\ CommitRefused(p, "RevalidationRequired")

CommitGatesFailed(p) ==
    /\ PolicyCurrent(p) /\ ~Expired(p) /\ ReservationHeld(p)
    /\ EvidenceUnchanged(p)
    /\ EvaluateGates(RequestOf(p)) # "PromotionEligible"
    /\ CommitRefused(p, EvaluateGates(RequestOf(p)))

\* Mutant of MarkCommitted: the idempotency record is not updated.
MarkNothing(p) == idempotency

MarkCommitted(p) ==
    {IF i.request = p.request
     THEN [i EXCEPT !.outcome = "PromotionCommitted", !.decision = p.decision]
     ELSE i : i \in idempotency}

\* The revision after its transition.
Transitioned(artifact, p) ==
    [artifact EXCEPT !.stage = p.to,
                     !.stage_generation = @ + 1,
                     !.promoted = @ \/ p.to = "Promoted",
                     !.promotion_decision =
                         IF p.to = "Promoted" THEN p.decision ELSE @]

\* A plan whose target is already the stage has no rule (validate() refuses a
\* rule from a stage to itself), so the code's branch for it is never taken.
CommitTransition(p) ==
    /\ PolicyCurrent(p) /\ ~Expired(p) /\ ReservationHeld(p)
    /\ EvidenceUnchanged(p)
    /\ EvaluateGates(RequestOf(p)) = "PromotionEligible"
    /\ artifacts' = [artifacts EXCEPT ![p.artifact][p.artifact_revision] =
                        Transitioned(@, p)]
    /\ AddRecord(p.artifact, p.artifact_revision, p.to, p.decision, p.id,
                 p.request, p.epoch, p.policy.generation)
    /\ Redecide(p, "PromotionCommitted")
    /\ idempotency' = MarkCommitted(p)
    /\ pending' = Release(p.artifact)

commit(p) ==
    /\ admission_open
    /\ \/ CommitPolicyStale(p)
       \/ CommitExpired(p)
       \/ CommitReservationLost(p)
       \/ CommitEvidenceChanged(p)
       \/ CommitGatesFailed(p)
       \/ CommitTransition(p)
    /\ UNCHANGED <<evidence, plans, plan_count, policy, epoch,
                   compatibility_generation, vetoes, admission_open, now>>
=============================================================================
