---------------------------- MODULE TrustMutation ----------------------------
(***************************************************************************)
(* Operations that withdraw or restore trust in an artifact outside a      *)
(* promotion (engine/trust.cpp).  They act on the current revision.  The   *)
(* authority argument only names the coordinator, of which there is one.   *)
(***************************************************************************)
EXTENDS Promotion

CurrentArtifact(id) == artifacts[id][Current(id)]

\* A new stage for the current revision, and its flags.
MoveCurrent(id, changed, to) ==
    artifacts' = [artifacts EXCEPT ![id][Current(id)] =
                     [changed EXCEPT !.stage = to, !.stage_generation = @ + 1]]

\* The record an operation leaves under the authority of the moment.
OperationRecord(id, to, decision, request) ==
    AddRecord(id, Current(id), to, decision, 0, request, epoch,
              policy.generation)

quarantine(id) ==
    LET artifact == CurrentArtifact(id)
    IN  /\ admission_open /\ Registered(id)
        /\ ~artifact.quarantined
        /\ artifact.stage \notin {"Revoked", "Retired"}
        /\ HasEdge(policy.graph, artifact.stage, "Quarantined")
        /\ MoveCurrent(id, [artifact EXCEPT !.quarantined = TRUE], "Quarantined")
        /\ pending' = Release(id)
        /\ UNCHANGED <<evidence, plans, plan_count, decisions, records,
                       record_count, idempotency, policy, epoch,
                       compatibility_generation, vetoes, admission_open, now>>

\* The request release_quarantine() makes to itself.
ReleaseRequest(id) ==
    [request |-> InternalRequest, attempt |-> 0, artifact |-> id,
     artifact_revision |-> Current(id), to |-> "Candidate", epoch |-> epoch]

ReleaseRefused(id) ==
    /\ EvaluateGates(ReleaseRequest(id)) # "PromotionEligible"
    /\ UNCHANGED <<artifacts, records, record_count>>

ReleaseGranted(id) ==
    /\ EvaluateGates(ReleaseRequest(id)) = "PromotionEligible"
    /\ MoveCurrent(id, [CurrentArtifact(id) EXCEPT !.quarantined = FALSE],
                   "Candidate")
    /\ OperationRecord(id, "Candidate", NextDecision, InternalRequest)

\* The decision is kept either way, and so is a reservation on the artifact.
release_quarantine(id) ==
    /\ admission_open /\ Registered(id)
    /\ CurrentArtifact(id).quarantined
    /\ Decide(InternalRequest, EvaluateGates(ReleaseRequest(id)), 0)
    /\ ReleaseRefused(id) \/ ReleaseGranted(id)
    /\ UNCHANGED <<evidence, plans, plan_count, pending, idempotency, policy,
                   epoch, compatibility_generation, vetoes, admission_open,
                   now>>

\* The decision a revocation cites: the one named, or (0) the promotion's.
RevocationTarget(artifact, named) ==
    IF named # 0 THEN named
    ELSE IF artifact.promoted THEN artifact.promotion_decision ELSE 0

\* Any held decision may be named, and the lifecycle graph is not consulted.
revoke(id, named) ==
    LET artifact == CurrentArtifact(id)
        target == RevocationTarget(artifact, named)
    IN  /\ admission_open /\ Registered(id)
        /\ ~artifact.revoked
        /\ target \in DOMAIN decisions
        /\ MoveCurrent(id, [artifact EXCEPT !.revoked = TRUE,
                                            !.promoted = FALSE], "Revoked")
        /\ pending' = Release(id)
        /\ OperationRecord(id, "Revoked", target, NoRequest)
        /\ UNCHANGED <<evidence, plans, plan_count, decisions, idempotency,
                       policy, epoch, compatibility_generation, vetoes,
                       admission_open, now>>

supersede(id, successor) ==
    LET artifact == CurrentArtifact(id)
    IN  /\ admission_open
        /\ successor # id
        /\ Registered(id) /\ Registered(successor)
        /\ ~artifact.superseded
        /\ artifact.stage \notin {"Revoked", "Retired"}
        /\ HasEdge(policy.graph, artifact.stage, "Superseded")
        /\ MoveCurrent(id, [artifact EXCEPT !.superseded = TRUE,
                                            !.promoted = FALSE], "Superseded")
        /\ pending' = Release(id)
        /\ OperationRecord(id, "Superseded", artifact.promotion_decision,
                           NoRequest)
        /\ UNCHANGED <<evidence, plans, plan_count, decisions, idempotency,
                       policy, epoch, compatibility_generation, vetoes,
                       admission_open, now>>

retire(id) ==
    LET artifact == CurrentArtifact(id)
    IN  /\ admission_open /\ Registered(id)
        /\ artifact.stage # "Retired"
        /\ HasEdge(policy.graph, artifact.stage, "Retired")
        /\ MoveCurrent(id, [artifact EXCEPT !.promoted = FALSE], "Retired")
        /\ pending' = Release(id)
        /\ OperationRecord(id, "Retired", artifact.promotion_decision,
                           NoRequest)
        /\ UNCHANGED <<evidence, plans, plan_count, decisions, idempotency,
                       policy, epoch, compatibility_generation, vetoes,
                       admission_open, now>>

\* The reservation on the revision the evidence is about is released.
revoke_evidence(e) ==
    /\ admission_open
    /\ ~evidence[e].revoked
    /\ evidence' = [evidence EXCEPT ![e].revoked = TRUE]
    /\ pending' = {r \in pending :
          \/ r.artifact # evidence[e].submission.subject
          \/ r.artifact_revision # evidence[e].submission.subject_revision}
    /\ UNCHANGED <<artifacts, plans, plan_count, decisions, records,
                   record_count, idempotency, policy, epoch,
                   compatibility_generation, vetoes, admission_open, now>>

\* Neither veto asks whether admission is open or the artifact registered, and
\* an entry, once made, is never erased.
PutVeto(id, veto) ==
    vetoes' = [a \in DOMAIN vetoes \cup {id} |->
                  IF a = id THEN veto ELSE vetoes[a]]

set_security_veto(id, active) ==
    /\ PutVeto(id, [VetoOf(id) EXCEPT !.security = active])
    /\ UNCHANGED <<artifacts, evidence, plans, plan_count, pending, decisions,
                   records, record_count, idempotency, policy, epoch,
                   compatibility_generation, admission_open, now>>

set_dependency_veto(id, active) ==
    /\ PutVeto(id, [VetoOf(id) EXCEPT !.dependency = active])
    /\ UNCHANGED <<artifacts, evidence, plans, plan_count, pending, decisions,
                   records, record_count, idempotency, policy, epoch,
                   compatibility_generation, admission_open, now>>
=============================================================================
