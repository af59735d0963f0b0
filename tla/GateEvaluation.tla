---------------------------- MODULE GateEvaluation ----------------------------
(***************************************************************************)
(* The gates of a transition, evaluated against the current state          *)
(* (engine/evaluate.cpp).  A gate gives an error code, "Ok" when it is     *)
(* satisfied; the evaluation gives the outcome of the first gate that      *)
(* fails.                                                                  *)
(*                                                                         *)
(* submit_evidence() refuses evidence whose digest is not that of its      *)
(* revision and stores the integrity digest it computes, so a record of    *)
(* this state never fails the identity, digest or integrity checks of the  *)
(* gates; those branches are left out.  So is the check that the decision  *)
(* has the active policy generation: a decision is formed under the active *)
(* policy, and commit() compares the two before it evaluates gates again.  *)
(***************************************************************************)
EXTENDS CoordinatorState

-----------------------------------------------------------------------------
(* Evidence of one revision.                                               *)

GatherEvidence(id, revision) ==
    {e \in DOMAIN evidence :
        /\ evidence[e].submission.subject = id
        /\ evidence[e].submission.subject_revision = revision}

Live(e) == ~evidence[e].revoked /\ ~evidence[e].superseded

\* The entries of the snapshot.  Nothing but its two flags changes in an
\* evidence record, so its identity stands for the entry.
Snapshot(id, revision) == {e \in GatherEvidence(id, revision) : Live(e)}

OfType(type, id, revision) ==
    {e \in GatherEvidence(id, revision) : evidence[e].submission.type = type}

\* resolve_gate_evidence() and select_evidence_for_gate(): the newest live
\* record decides; when there is none, what was withdrawn is reported.
ResolveEvidence(type, id, revision) ==
    LET found == OfType(type, id, revision)
        exact == {e \in found : Live(e)}
    IN  IF exact # {}
        THEN IF evidence[Max(exact)].submission.result = "Pass"
             THEN "Ok" ELSE "PolicyViolation"
        ELSE IF \E e \in found : evidence[e].revoked THEN "EvidenceRevoked"
        ELSE IF found # {} THEN "EvidenceSuperseded"
        ELSE "EvidenceMissing"

\* The record a gate that resolves to "Ok" relies on.
Selected(type, id, revision) ==
    evidence[Max({e \in OfType(type, id, revision) : Live(e)})].submission

\* Mutant of TooOld: evidence from the future has no age.
TooOldSaturating(submission, maxAge) ==
    now > submission.produced /\ now - submission.produced > maxAge

\* The age is an unsigned difference: it wraps for evidence from the future.
TooOld(submission, maxAge) ==
    \/ submission.produced > now + FutureSkew
    \/ (now - submission.produced) % WordSize > maxAge

OutsideWindow(submission) ==
    /\ submission.has_window
    /\ now < submission.valid_from \/ now > submission.valid_until

-----------------------------------------------------------------------------
(* One gate.                                                               *)

\* Mutant of DependencyStatus: it is enough that a dependency is registered.
DependencyExists(name) ==
    IF \E a \in ArtifactIds :
          Registered(a) /\ artifacts[a][Current(a)].registration.name = name
    THEN "Promoted" ELSE "Unregistered"

\* What a declared dependency is: every artifact whose current revision has
\* this name must be authoritative.
DependencyStatus(name) ==
    LET named == {a \in ArtifactIds :
                     /\ Registered(a)
                     /\ artifacts[a][Current(a)].registration.name = name}
    IN  IF named = {} THEN "Unregistered"
        ELSE IF \A a \in named : CurrentlyAuthoritative(artifacts[a][Current(a)])
        THEN "Promoted" ELSE "NotPromoted"

\* The first declared dependency that is not promoted decides.
DependenciesStatus(artifact) ==
    LET names == artifact.registration.dependencies
        blocked == SelectInSeq(names, LAMBDA n : DependencyStatus(n) # "Promoted")
    IN  IF blocked = 0 THEN "Promoted" ELSE DependencyStatus(names[blocked])

ConflictingReservation(id, request, attempt) ==
    \E r \in pending : r.artifact = id /\ <<r.request, r.attempt>> # <<request, attempt>>

Fails(condition, code) == IF condition THEN code ELSE "Ok"

\* Gates on the trust in the artifact.
TrustGateCode(gate, artifact) ==
    CASE gate.kind \in {"ArtifactIdentity", "EvidenceIntegrity"} -> "Ok"
      [] gate.kind = "ArtifactNotQuarantined" ->
            Fails(artifact.quarantined, "ArtifactQuarantined")
      [] gate.kind = "ArtifactNotRevoked" ->
            Fails(artifact.revoked, "ArtifactRevoked")
      [] gate.kind = "ArtifactNotSuperseded" ->
            Fails(artifact.superseded, "ArtifactSuperseded")

\* Gates on its provenance.
ProvenanceGateCode(gate, provenance) ==
    CASE gate.kind = "ProvenanceRequired" ->
            Fails(\/ \A p \in provenance : p.reference # gate.reference
                  \/ \E p \in provenance : /\ p.reference = gate.reference
                                           /\ p.resolution = "Rejected",
                  "ProvenanceMissing")
      [] gate.kind = "ProvenanceResolved" ->
            Fails(\/ provenance = {}
                  \/ \E p \in provenance : p.resolution # "Resolved",
                  "ProvenanceMissing")

\* Gates on what surrounds it: compatibility, environment, dependencies,
\* approval and vetoes.
ContextGateCode(gate, id, revision) ==
    CASE gate.kind = "CompatibilityGenerationCurrent" ->
            Fails(compatibility_generation # gate.generation,
                  "CompatibilityFailed")
      [] gate.kind = "EnvironmentBinding" ->
            Fails(\/ ResolveEvidence(gate.type, id, revision) # "Ok"
                  \/ Selected(gate.type, id, revision).environment # gate.environment,
                  "EnvironmentMismatch")
      [] gate.kind = "DependentArtifactPromoted" ->
            Fails(DependenciesStatus(artifacts[id][revision]) # "Promoted",
                  "DependencyVeto")
      [] gate.kind = "ApprovalRequired" ->
            Fails(ResolveEvidence(gate.type, id, revision) # "Ok",
                  "ApprovalRequired")
      [] gate.kind = "SecurityVetoClear" ->
            Fails(VetoOf(id).security, "SecurityVeto")
      [] gate.kind = "DependencyVetoClear" ->
            Fails(VetoOf(id).dependency, "DependencyVeto")

\* Gates on the authority of the request.
AuthorityGateCode(gate, q) ==
    CASE gate.kind = "PolicyGenerationCurrent" ->
            Fails(q.epoch = 0, "PolicyGenerationStale")
      [] gate.kind = "CoordinatorEpochCurrent" ->
            Fails(q.epoch # epoch, "StaleCoordinatorEpoch")
      [] gate.kind = "NoConflictingTransition" ->
            Fails(ConflictingReservation(q.artifact, q.request, q.attempt),
                  "Conflict")

\* Gates on the evidence.
EvidenceGateCode(gate, id, revision) ==
    LET resolved == ResolveEvidence(gate.type, id, revision)
        chosen == Selected(gate.type, id, revision)
    IN  IF resolved # "Ok" THEN resolved
        ELSE Fails(\/ /\ gate.kind = "EvidenceFreshness"
                      /\ TooOld(chosen, gate.maxAge)
                   \/ OutsideWindow(chosen),
                   "EvidenceStale")

\* q is the request: its artifact, its revision, its identity and the epoch
\* its sender believes in.
GateCode(gate, q) ==
    LET id == q.artifact
        revision == q.artifact_revision
        artifact == artifacts[id][revision]
    IN  CASE gate.kind \in {"ArtifactIdentity", "EvidenceIntegrity",
                            "ArtifactNotQuarantined", "ArtifactNotRevoked",
                            "ArtifactNotSuperseded"} ->
                TrustGateCode(gate, artifact)
          [] gate.kind \in {"ProvenanceRequired", "ProvenanceResolved"} ->
                ProvenanceGateCode(gate, artifact.registration.provenance)
          [] gate.kind \in {"CompatibilityGenerationCurrent",
                            "EnvironmentBinding", "DependentArtifactPromoted",
                            "ApprovalRequired", "SecurityVetoClear",
                            "DependencyVetoClear"} ->
                ContextGateCode(gate, id, revision)
          [] gate.kind \in {"PolicyGenerationCurrent",
                            "CoordinatorEpochCurrent",
                            "NoConflictingTransition"} ->
                AuthorityGateCode(gate, q)
          [] gate.kind \in {"EvidenceRequired", "EvidenceFreshness"} ->
                EvidenceGateCode(gate, id, revision)

\* Mutant of OutcomeFor: the error code is reported as the outcome.
CodeAsOutcome(code) == code

\* outcome_for_requirement(): most codes name an outcome.
Renamed ==
    [EnvironmentMismatch |-> "EvidenceMismatch",
     ArtifactQuarantined |-> "Quarantined",
     ArtifactRevoked |-> "Revoked",
     ArtifactSuperseded |-> "Superseded",
     StaleCoordinatorEpoch |-> "AuthorityStale",
     PolicyGenerationStale |-> "PolicyStale",
     EvidenceSuperseded |-> "PromotionIneligible",
     PolicyViolation |-> "PromotionIneligible"]

OutcomeFor(code) ==
    IF code \in DOMAIN Renamed THEN Renamed[code]
    ELSE IF code \in Outcome THEN code
    ELSE "PromotionIneligible"

-----------------------------------------------------------------------------
(* All the gates of a transition.                                          *)

\* A dependency that was never registered ends the evaluation at once,
\* whatever gate has failed before it.
DependencyUnregistered(gates, artifact) ==
    /\ \E g \in DOMAIN gates : gates[g].kind = "DependentArtifactPromoted"
    /\ DependenciesStatus(artifact) = "Unregistered"

FirstFailure(gates, q) == SelectInSeq(gates, LAMBDA g : GateCode(g, q) # "Ok")

\* evaluate_gates() for a revision the coordinator holds.
EvaluateGates(q) ==
    LET artifact == artifacts[q.artifact][q.artifact_revision]
        from == artifact.stage
        rule == FindRule(policy, artifact.registration.kind, from, q.to)
        gates == policy.rules[rule].gates
        failed == FirstFailure(gates, q)
    IN  IF rule = 0
        THEN IF HasEdge(policy.graph, from, q.to)
             THEN "Unsupported" ELSE "TransitionIllegal"
        ELSE IF DependencyUnregistered(gates, artifact)
        THEN "ProvenanceMissing"
        ELSE IF failed = 0 THEN "PromotionEligible"
        ELSE OutcomeFor(GateCode(gates[failed], q))

\* The snapshot evaluate_gates() leaves behind: none without a rule.
EvaluatedSnapshot(q) ==
    LET artifact == artifacts[q.artifact][q.artifact_revision]
    IN  IF HasRule(policy, artifact.registration.kind, artifact.stage, q.to)
        THEN Snapshot(q.artifact, q.artifact_revision) ELSE {}
=============================================================================
