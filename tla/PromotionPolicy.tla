---------------------------- MODULE PromotionPolicy ----------------------------
(***************************************************************************)
(* Promotion policies as data (src/domain/policy.cpp): a lifecycle graph,  *)
(* an entry stage and a list of rules, each a list of gates that guard one *)
(* transition for one artifact class or for all of them.                   *)
(*                                                                         *)
(* A policy record stands for the policy together with its digest:         *)
(* compute_digest() covers every field of the record, so two policies have *)
(* equal digests when the records are equal.  Names, labels, descriptions, *)
(* preferences and ordering rules are left out: no decision reads them.    *)
(***************************************************************************)
EXTENDS Integers, SequencesExt, LifecycleGraph

ArtifactKind == {"Model", "Kernel", "Executable", "Library", "Configuration",
                 "Dataset", "ResearchResult", "BenchmarkBundle",
                 "GeneratedCode", "DeploymentManifest", "Opaque"}

-----------------------------------------------------------------------------
(* Gates.                                                                  *)

SimpleKinds == {"EvidenceIntegrity", "ArtifactIdentity",
                "ArtifactNotQuarantined", "ArtifactNotRevoked",
                "ArtifactNotSuperseded", "ProvenanceResolved",
                "DependentArtifactPromoted", "SecurityVetoClear",
                "DependencyVetoClear", "PolicyGenerationCurrent",
                "CoordinatorEpochCurrent", "NoConflictingTransition"}

SimpleGate(kind) == [kind |-> kind]
EvidenceGate(type) == [kind |-> "EvidenceRequired", type |-> type]
FreshnessGate(type, maxAge) ==
    [kind |-> "EvidenceFreshness", type |-> type, maxAge |-> maxAge]
EnvironmentGate(type, environment) ==
    [kind |-> "EnvironmentBinding", type |-> type, environment |-> environment]
CompatibilityGate(generation) ==
    [kind |-> "CompatibilityGenerationCurrent", generation |-> generation]
ProvenanceGate(reference) ==
    [kind |-> "ProvenanceRequired", reference |-> reference]
ApprovalGate(type) == [kind |-> "ApprovalRequired", type |-> type]

\* Gate::validate().
ValidGate(gate) ==
    \/ gate.kind \in SimpleKinds
    \/ gate.kind \in {"EvidenceRequired", "ApprovalRequired",
                      "EnvironmentBinding", "ProvenanceRequired"}
    \/ gate.kind = "EvidenceFreshness" /\ gate.maxAge > 0
    \/ gate.kind = "CompatibilityGenerationCurrent" /\ gate.generation > 0

-----------------------------------------------------------------------------
(* Rules and policies.                                                     *)

Rule(kinds, from, to, gates) ==
    [kinds |-> kinds, from |-> from, to |-> to, gates |-> gates,
     rollback |-> FALSE]

RuleMatches(rule, kind, from, to) ==
    rule.from = from /\ rule.to = to /\ kind \in rule.kinds

\* PromotionPolicy::find_rule(): the first matching rule wins.
FindRule(policy, kind, from, to) ==
    SelectInSeq(policy.rules, LAMBDA rule : RuleMatches(rule, kind, from, to))

HasRule(policy, kind, from, to) == FindRule(policy, kind, from, to) # 0

kMaxRules == 64
kMaxGates == 32

\* PromotionPolicy::validate(), with PolicyRule::validate().
ValidPolicy(policy) ==
    /\ policy.generation > 0
    /\ Len(policy.rules) \in 1 .. kMaxRules
    /\ Validate(policy.graph, policy.entry)
    /\ \A i \in DOMAIN policy.rules :
          LET rule == policy.rules[i]
          IN  /\ rule.from # rule.to
              /\ Len(rule.gates) <= kMaxGates
              /\ \A g \in DOMAIN rule.gates : ValidGate(rule.gates[g])
              /\ HasEdge(policy.graph, rule.from, rule.to)

-----------------------------------------------------------------------------
(* The reference policy, make_reference_policy().                          *)

\* Mutant of CommonHardGates: a quarantine does not block.
HardGatesWithoutQuarantine ==
    <<SimpleGate("ArtifactIdentity"), SimpleGate("EvidenceIntegrity"),
      SimpleGate("ArtifactNotRevoked"), SimpleGate("SecurityVetoClear"),
      SimpleGate("DependencyVetoClear"), SimpleGate("NoConflictingTransition")>>

CommonHardGates ==
    <<SimpleGate("ArtifactIdentity"), SimpleGate("EvidenceIntegrity"),
      SimpleGate("ArtifactNotQuarantined"), SimpleGate("ArtifactNotRevoked"),
      SimpleGate("SecurityVetoClear"), SimpleGate("DependencyVetoClear"),
      SimpleGate("NoConflictingTransition")>>

Guarded(kinds, from, to, gates) ==
    Rule(kinds, from, to, CommonHardGates \o gates)

\* A day of the freshness limits, in units of the model's clock.
ReferenceRules(day) ==
    <<Guarded(ArtifactKind, "Candidate", "Verified",
              <<SimpleGate("ProvenanceResolved"),
                FreshnessGate("ProvenanceComplete", 30 * day)>>),
      Guarded({"Executable"}, "Verified", "Qualified",
              <<EvidenceGate("BuildPass"), EvidenceGate("UnitTestPass"),
                EvidenceGate("IntegrationTestPass"),
                FreshnessGate("BuildPass", 7 * day),
                EnvironmentGate("UnitTestPass", "windows-x64-msvc"),
                CompatibilityGate(1),
                SimpleGate("DependentArtifactPromoted")>>),
      Guarded({"Model"}, "Verified", "Qualified",
              <<EvidenceGate("ModelEvalPass"),
                EvidenceGate("DataValidationPass"),
                FreshnessGate("ModelEvalPass", 14 * day),
                CompatibilityGate(1),
                SimpleGate("DependentArtifactPromoted")>>),
      Guarded(ArtifactKind, "Verified", "Qualified",
              <<EvidenceGate("ProvenanceComplete"),
                SimpleGate("DependentArtifactPromoted")>>),
      Guarded(ArtifactKind, "Qualified", "Staged",
              <<EvidenceGate("ReproducibilityPass"),
                SimpleGate("CoordinatorEpochCurrent")>>),
      Guarded(ArtifactKind, "Staged", "Approved",
              <<ApprovalGate("MachineCriticApproval")>>),
      [Guarded(ArtifactKind, "Approved", "Promoted",
               <<SimpleGate("PolicyGenerationCurrent"),
                 SimpleGate("CoordinatorEpochCurrent"),
                 EvidenceGate("SignatureValid")>>)
          EXCEPT !.rollback = TRUE],
      Rule(ArtifactKind, "Quarantined", "Candidate",
           <<EvidenceGate("SecurityScanPass"), EvidenceGate("HumanApproval")>>),
      Rule(ArtifactKind, "Promoted", "Revoked",
           <<SimpleGate("ArtifactIdentity")>>),
      Rule(ArtifactKind, "Promoted", "Superseded",
           <<SimpleGate("ArtifactIdentity")>>)>>

ReferencePolicy(id, generation, day) ==
    [id |-> id, generation |-> generation, entry |-> "Candidate",
     graph |-> ReferenceEdges, rules |-> ReferenceRules(day)]
=============================================================================
