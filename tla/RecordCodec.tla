----------------------------- MODULE RecordCodec -----------------------------
(***************************************************************************)
(* The records of the state file (persist/codec.cpp).  write_x gives the   *)
(* fields of a record in the order of the file.  x_readable tells whether  *)
(* read_x accepts the fields it finds, and read_x is the record it makes   *)
(* of them.                                                                *)
(*                                                                         *)
(* A field is the value of the state it stands for, except an enumerator,  *)
(* which is its byte, 0 for the Invalid one.  A list of records whose      *)
(* order the state does not keep is the set of what is written.  Of the    *)
(* explanation of a decision the file has three lists, of which the model  *)
(* keeps the length of two: every gate, finding and reason the engine      *)
(* writes can be read, but not any number of them, and there is a finding  *)
(* only for a gate.                                                        *)
(***************************************************************************)
EXTENDS PromotionPolicy

CONSTANTS
    kMaxDecisionGates,    \* the entries of a decision's lists that can be
    kMaxDecisionReasons   \* read: 64 in the code

\* The other bounds of one record.
kMaxProvenance == 64
kMaxDependencies == 64
kMaxGraphEdges == 64
kMaxPolicyRules == 64
kMaxRuleGates == 32

-----------------------------------------------------------------------------
(* Enumerators by their bytes; the first has byte 1.                       *)

StageList ==
    <<"Candidate", "Verified", "Qualified", "Staged", "Approved", "Promoted",
      "Quarantined", "Revoked", "Superseded", "Retired">>

KindList ==
    <<"Model", "Kernel", "Executable", "Library", "Configuration", "Dataset",
      "ResearchResult", "BenchmarkBundle", "GeneratedCode",
      "DeploymentManifest", "Opaque">>

NamedTypes ==
    <<"BuildPass", "UnitTestPass", "IntegrationTestPass", "PropertyTestPass",
      "AdversarialTestPass", "SanitizerPass", "SecurityScanPass",
      "BenchmarkResult", "CompatibilityPass", "AbiCompatibilityPass",
      "DataValidationPass", "ModelEvalPass", "HumanApproval",
      "MachineCriticApproval", "ReproducibilityPass", "SignatureValid",
      "ProvenanceComplete", "DependencyPolicyPass">>

\* Custom stands for the one extension in use; its name, which is written beside
\* the byte, is left out.  So are the bytes between, which no enumerator has and
\* is_valid_evidence_type() lets through.
EvidenceTypeList ==
    [byte \in (1 .. 18) \cup {63} |->
        IF byte = 63 THEN "Custom" ELSE NamedTypes[byte]]

\* The result and the resolution that are unknown have byte 0 and are read.
ResultList == <<"Pass", "Fail", "Inconclusive", "NotApplicable">>
ResolutionList == <<"Resolved", "Superseded", "Rejected">>

GateKindList ==
    <<"EvidenceRequired", "EvidenceFreshness", "EvidenceIntegrity",
      "ArtifactIdentity", "ArtifactNotQuarantined", "ArtifactNotRevoked",
      "ArtifactNotSuperseded", "ProvenanceRequired", "ProvenanceResolved",
      "CompatibilityGenerationCurrent", "EnvironmentBinding",
      "DependentArtifactPromoted", "ApprovalRequired", "SecurityVetoClear",
      "DependencyVetoClear", "PolicyGenerationCurrent",
      "CoordinatorEpochCurrent", "NoConflictingTransition">>

OutcomeList ==
    <<"PromotionEligible", "PromotionCommitted", "PromotionIneligible",
      "RevalidationRequired", "EvidenceMissing", "EvidenceStale",
      "EvidenceRevoked", "EvidenceMismatch", "ArtifactMismatch",
      "DigestMismatch", "TransitionIllegal", "PolicyStale",
      "CompatibilityFailed", "ApprovalRequired", "Quarantined", "Revoked",
      "Superseded", "Conflict", "AlreadyPromoted", "OutcomeUnknown",
      "Unsupported", "ArtifactNotFound", "PolicyNotFound", "Cancelled",
      "AuthorityStale", "ProvenanceMissing", "SecurityVeto", "DependencyVeto",
      "AdmissionRejected">>

Byte(list, value) ==
    LET found == {byte \in DOMAIN list : list[byte] = value}
    IN  IF found = {} THEN 0 ELSE Min(found)

Known(list, byte) == byte \in DOMAIN list
KnownOrZero(list, byte) == byte = 0 \/ Known(list, byte)

\* The enumerator of a byte; zero is what the code calls it.
Enumerator(list, byte, zero) == IF byte = 0 THEN zero ELSE list[byte]

-----------------------------------------------------------------------------
(* Policies.                                                               *)

write_lifecycle_graph(graph) ==
    {<<Byte(StageList, e[1]), Byte(StageList, e[2])>> : e \in graph}

lifecycle_graph_readable(fields) ==
    /\ Cardinality(fields) <= kMaxGraphEdges
    /\ \A e \in fields : /\ Known(StageList, e[1]) /\ Known(StageList, e[2])
                         /\ e[1] # e[2]

read_lifecycle_graph(fields) == {<<StageList[e[1]], StageList[e[2]]>> : e \in fields}

\* A field of the gate, or the zero that is written when its kind has none.
GateField(gate, name, zero) == IF name \in DOMAIN gate THEN gate[name] ELSE zero

write_gate(gate) ==
    <<Byte(GateKindList, gate.kind),
      Byte(EvidenceTypeList, GateField(gate, "type", "Invalid")),
      GateField(gate, "maxAge", 0),
      GateField(gate, "generation", 0),
      GateField(gate, "environment", ""),
      GateField(gate, "reference", "")>>

\* A kind of gate has the fields that are its own.
read_gate(fields) ==
    LET kind == GateKindList[fields[1]]
        type == Enumerator(EvidenceTypeList, fields[2], "Invalid")
    IN  CASE kind = "EvidenceRequired" -> EvidenceGate(type)
          [] kind = "EvidenceFreshness" -> FreshnessGate(type, fields[3])
          [] kind = "CompatibilityGenerationCurrent" -> CompatibilityGate(fields[4])
          [] kind = "EnvironmentBinding" -> EnvironmentGate(type, fields[5])
          [] kind = "ProvenanceRequired" -> ProvenanceGate(fields[6])
          [] kind = "ApprovalRequired" -> ApprovalGate(type)
          [] OTHER -> SimpleGate(kind)

gate_readable(fields) ==
    /\ Known(GateKindList, fields[1])
    /\ KnownOrZero(EvidenceTypeList, fields[2])
    /\ ValidGate(read_gate(fields))

\* A rule has a scope, one artifact class, or applies to all of them.
HasKindScope(rule) == rule.kinds # ArtifactKind

write_rule(rule) ==
    <<HasKindScope(rule),
      IF HasKindScope(rule) THEN Byte(KindList, CHOOSE k \in rule.kinds : TRUE) ELSE 0,
      Byte(StageList, rule.from), Byte(StageList, rule.to), rule.rollback,
      [g \in DOMAIN rule.gates |-> write_gate(rule.gates[g])]>>

rule_readable(fields) ==
    /\ KnownOrZero(KindList, fields[2])
    /\ fields[1] <=> fields[2] # 0
    /\ Known(StageList, fields[3]) /\ Known(StageList, fields[4])
    /\ Len(fields[6]) <= kMaxRuleGates
    /\ \A g \in DOMAIN fields[6] : gate_readable(fields[6][g])

read_rule(fields) ==
    [kinds |-> IF fields[1] THEN {KindList[fields[2]]} ELSE ArtifactKind,
     from |-> StageList[fields[3]], to |-> StageList[fields[4]],
     gates |-> [g \in DOMAIN fields[6] |-> read_gate(fields[6][g])],
     rollback |-> fields[5]]

write_policy(policy) ==
    <<policy.id, policy.generation, Byte(StageList, policy.entry),
      write_lifecycle_graph(policy.graph),
      [r \in DOMAIN policy.rules |-> write_rule(policy.rules[r])]>>

policy_readable(fields) ==
    /\ Known(StageList, fields[3])
    /\ lifecycle_graph_readable(fields[4])
    /\ Len(fields[5]) <= kMaxPolicyRules
    /\ \A r \in DOMAIN fields[5] : rule_readable(fields[5][r])

read_policy(fields) ==
    [id |-> fields[1], generation |-> fields[2],
     entry |-> StageList[fields[3]],
     graph |-> read_lifecycle_graph(fields[4]),
     rules |-> [r \in DOMAIN fields[5] |-> read_rule(fields[5][r])]]

-----------------------------------------------------------------------------
(* Artifacts.                                                              *)

write_provenance(p) == <<p.reference, Byte(ResolutionList, p.resolution)>>

read_provenance(fields) ==
    [reference |-> fields[1],
     resolution |-> Enumerator(ResolutionList, fields[2], "Unknown")]

write_artifact(id, revision, artifact) ==
    LET registration == artifact.registration
    IN  <<id, revision, Byte(KindList, registration.kind), registration.digest,
          registration.name,
          {write_provenance(p) : p \in registration.provenance},
          registration.dependencies,
          Byte(StageList, artifact.stage), artifact.stage_generation,
          artifact.promoted, artifact.promotion_decision,
          artifact.quarantined, artifact.revoked, artifact.superseded>>

\* With ArtifactRecord::valid(), as far as the record has the fields.
artifact_readable(fields) ==
    /\ Known(KindList, fields[3]) /\ Known(StageList, fields[8])
    /\ Cardinality(fields[6]) <= kMaxProvenance
    /\ \A p \in fields[6] : KnownOrZero(ResolutionList, p[2])
    /\ Len(fields[7]) <= kMaxDependencies
    /\ fields[2] # 0 /\ fields[9] # 0

read_artifact(fields) ==
    [registration |->
        [id |-> fields[1], kind |-> KindList[fields[3]], digest |-> fields[4],
         name |-> fields[5],
         provenance |-> {read_provenance(p) : p \in fields[6]},
         dependencies |-> fields[7]],
     stage |-> StageList[fields[8]], stage_generation |-> fields[9],
     promoted |-> fields[10], promotion_decision |-> fields[11],
     quarantined |-> fields[12], revoked |-> fields[13],
     superseded |-> fields[14]]

write_veto(veto) == <<veto.security, veto.dependency>>
read_veto(fields) == [security |-> fields[1], dependency |-> fields[2]]

-----------------------------------------------------------------------------
(* Evidence.                                                               *)

\* compute_evidence_integrity(): the digest stands for what it covers, which is
\* the record but for its supersession.
compute_evidence_integrity(id, record) ==
    <<id, record.submission, record.generation, record.revoked>>

write_evidence(id, record, seal) ==
    LET s == record.submission
    IN  <<id, Byte(EvidenceTypeList, s.type), record.generation, s.subject,
          s.subject_digest, s.subject_revision, s.producer,
          Byte(ResultList, s.result), seal, s.produced, s.has_window,
          s.valid_from, s.valid_until, s.environment, record.revoked,
          record.superseded>>

read_evidence(fields) ==
    [submission |->
        [subject |-> fields[4], subject_revision |-> fields[6],
         subject_digest |-> fields[5],
         type |-> EvidenceTypeList[fields[2]], producer |-> fields[7],
         result |-> Enumerator(ResultList, fields[8], "Unknown"),
         produced |-> fields[10], environment |-> fields[14],
         has_window |-> fields[11], valid_from |-> fields[12],
         valid_until |-> fields[13]],
     generation |-> fields[3], revoked |-> fields[15],
     superseded |-> fields[16]]

\* With EvidenceRecord::valid(), as far as the record has the fields.
evidence_readable(fields) ==
    /\ Known(EvidenceTypeList, fields[2])
    /\ KnownOrZero(ResultList, fields[8])
    /\ fields[1] # 0 /\ fields[3] # 0 /\ fields[6] # 0
    /\ fields[11] => fields[12] <= fields[13]
    /\ compute_evidence_integrity(fields[1], read_evidence(fields)) = fields[9]

-----------------------------------------------------------------------------
(* Plans, decisions, promotion records and idempotency records.            *)

\* The policy stands for the digests and the identity that are written of it,
\* the snapshot for its digest.
write_plan(p) ==
    <<p.id, p.request, p.attempt, p.decision, p.artifact, p.artifact_revision,
      Byte(StageList, p.from), Byte(StageList, p.to), p.stage_generation,
      p.policy, p.epoch, p.snapshot, p.compatibility, p.expires>>

\* With PromotionPlan::valid(), as far as the record has the fields.
plan_readable(fields) ==
    /\ Known(StageList, fields[7]) /\ Known(StageList, fields[8])
    /\ fields[1] # 0 /\ fields[4] # 0 /\ fields[6] # 0 /\ fields[9] # 0
    /\ fields[11] # 0

read_plan(fields) ==
    [id |-> fields[1], request |-> fields[2], attempt |-> fields[3],
     decision |-> fields[4], artifact |-> fields[5],
     artifact_revision |-> fields[6], from |-> StageList[fields[7]],
     to |-> StageList[fields[8]], stage_generation |-> fields[9],
     policy |-> fields[10], epoch |-> fields[11], snapshot |-> fields[12],
     compatibility |-> fields[13], expires |-> fields[14]]

\* A decision and its explanation.
write_decision(decision, explanation) ==
    <<decision.request, Byte(KindList, explanation.kind),
      Byte(StageList, explanation.from), Byte(StageList, explanation.to),
      Byte(OutcomeList, decision.outcome), decision.plan,
      explanation.gates, explanation.reasons>>

decision_readable(fields) ==
    /\ Known(KindList, fields[2])
    /\ Known(StageList, fields[3]) /\ Known(StageList, fields[4])
    /\ Known(OutcomeList, fields[5])
    /\ fields[7] <= kMaxDecisionGates
    /\ fields[8] <= kMaxDecisionReasons

read_decision(fields) ==
    [request |-> fields[1], outcome |-> OutcomeList[fields[5]],
     plan |-> fields[6]]

read_explanation(fields) ==
    [kind |-> Enumerator(KindList, fields[2], "Invalid"),
     from |-> Enumerator(StageList, fields[3], "Invalid"),
     to |-> Enumerator(StageList, fields[4], "Invalid"),
     gates |-> fields[7], reasons |-> fields[8]]

write_promotion_record(r) ==
    <<r.id, r.artifact, r.artifact_revision, Byte(StageList, r.from),
      Byte(StageList, r.to), r.decision, r.plan, r.request,
      r.policy_generation, r.epoch>>

promotion_record_readable(fields) ==
    Known(StageList, fields[4]) /\ Known(StageList, fields[5])

read_promotion_record(fields) ==
    [id |-> fields[1], artifact |-> fields[2], artifact_revision |-> fields[3],
     from |-> StageList[fields[4]], to |-> StageList[fields[5]],
     decision |-> fields[6], plan |-> fields[7], request |-> fields[8],
     epoch |-> fields[10], policy_generation |-> fields[9]]

write_idempotency(i) ==
    <<i.request, i.decision, Byte(OutcomeList, i.outcome), i.plan>>

idempotency_readable(fields) == Known(OutcomeList, fields[3])

read_idempotency(fields) ==
    [request |-> fields[1], decision |-> fields[2],
     outcome |-> OutcomeList[fields[3]], plan |-> fields[4]]
=============================================================================
