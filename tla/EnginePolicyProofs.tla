-------------------------- MODULE EnginePolicyProofs --------------------------
(***************************************************************************)
(* Proofs about what the policy in force ensures of the promotion engine.  *)
(*                                                                         *)
(* Gates: the policy in force is always a valid one, an evaluation that    *)
(* ends in PromotionEligible passed every gate of the rule, and so what a  *)
(* gate demands holds when a transition is made, for every policy.         *)
(*                                                                         *)
(* Trust: who may be promoted, what a withdrawal ends, and where a         *)
(* transition starts from.  Some of these depend on the shape of the       *)
(* policies; the shape is stated, and the reference policy has it.         *)
(***************************************************************************)
EXTENDS PromotionEngineProofs, WellFoundedInduction

-----------------------------------------------------------------------------
(* The first index that passes a test, and the largest member of a set.    *)

\* A nonempty set of natural numbers has a smallest member.
LEMMA MinOfSet ==
    ASSUME NEW S, S \subseteq Nat, S # {}
    PROVE  Min(S) \in S /\ \A n \in S : Min(S) <= n
  <1> DEFINE R == OpToRel(<, Nat)
  <1>1. IsWellFoundedOn(R, Nat)
    BY NatLessThanWellFounded
  <1> HIDE DEF R
  <1>2. PICK m \in S : \A n \in S : <<n, m>> \notin R
    BY <1>1, WFMin
  <1>3. \A n \in S : ~(n < m)
    BY <1>2 DEF R, OpToRel
  <1>4. \A n \in S : m <= n
    BY <1>3
  <1> QED  BY <1>4 DEF Min

\* A nonempty set of natural numbers up to a bound has a largest member.
LEMMA MaxOfSet ==
    ASSUME NEW n \in Nat, NEW S, S \subseteq 1 .. n, S # {}
    PROVE  Max(S) \in S
  <1> DEFINE T == {n - s : s \in S}
  <1>1. T \subseteq Nat /\ T # {}
    <2>1. \A s \in S : n - s \in Nat
      OBVIOUS
    <2> QED  BY <2>1
  <1>2. Min(T) \in T /\ \A t \in T : Min(T) <= t
    BY <1>1, MinOfSet
  <1>3. PICK m \in S : Min(T) = n - m
    BY <1>2
  <1>4. \A s \in S : n - m <= n - s
    BY <1>2, <1>3
  <1>5. \A s \in S : m >= s
    BY <1>4
  <1> QED  BY <1>5 DEF Max

\* find_rule() gives a rule that matches, when it gives one.
LEMMA FoundRule ==
    ASSUME NEW p \in Policies, NEW kind, NEW from, NEW to,
           HasRule(p, kind, from, to)
    PROVE  /\ FindRule(p, kind, from, to) \in DOMAIN p.rules
           /\ RuleMatches(p.rules[FindRule(p, kind, from, to)], kind, from, to)
  <1> DEFINE I == {i \in 1 .. Len(p.rules) :
                      RuleMatches(p.rules[i], kind, from, to)}
  <1>1. FindRule(p, kind, from, to) = IF I # {} THEN Min(I) ELSE 0
    BY DEF FindRule, SelectInSeq
  <1>2. p.rules \in Seq(Range(p.rules))
    BY PoliciesAssumption
  <1>3. DOMAIN p.rules = 1 .. Len(p.rules) /\ Len(p.rules) \in Nat
    BY <1>2
  <1>4. I # {} /\ FindRule(p, kind, from, to) = Min(I)
    BY <1>1 DEF HasRule
  <1>5. I \subseteq Nat
    BY <1>3
  <1>6. Min(I) \in I
    BY <1>4, <1>5, MinOfSet
  <1> QED  BY <1>3, <1>4, <1>6

-----------------------------------------------------------------------------
(* The codes of the gates.                                                 *)

\* The codes that the gates of a valid policy produce.
Codes == {"Ok", "ArtifactQuarantined", "ArtifactRevoked", "ArtifactSuperseded",
          "ProvenanceMissing", "CompatibilityFailed", "EnvironmentMismatch",
          "DependencyVeto", "ApprovalRequired", "SecurityVeto",
          "PolicyGenerationStale", "StaleCoordinatorEpoch", "Conflict",
          "EvidenceRevoked", "EvidenceSuperseded", "EvidenceMissing",
          "PolicyViolation", "EvidenceStale"}

\* A valid gate produces one of them.
LEMMA GateCodeType ==
    ASSUME NEW gate, ValidGate(gate), NEW q
    PROVE  GateCode(gate, q) \in Codes
  <1> DEFINE id == q.artifact
             revision == q.artifact_revision
             artifact == artifacts[id][revision]
  <1>1. ASSUME gate.kind \in {"ArtifactIdentity", "EvidenceIntegrity",
                              "ArtifactNotQuarantined", "ArtifactNotRevoked",
                              "ArtifactNotSuperseded"}
        PROVE  GateCode(gate, q) \in Codes
    <2>1. GateCode(gate, q) = TrustGateCode(gate, artifact)
      BY <1>1 DEF GateCode
    <2>2. TrustGateCode(gate, artifact) \in Codes
      BY <1>1 DEF TrustGateCode, Fails, Codes
    <2> QED  BY <2>1, <2>2
  <1>2. ASSUME gate.kind \in {"ProvenanceRequired", "ProvenanceResolved"}
        PROVE  GateCode(gate, q) \in Codes
    <2>1. GateCode(gate, q)
             = ProvenanceGateCode(gate, artifact.registration.provenance)
      BY <1>2 DEF GateCode
    <2>2. \A c : Fails(c, "ProvenanceMissing") \in Codes
      BY DEF Fails, Codes
    <2>3. ProvenanceGateCode(gate, artifact.registration.provenance) \in Codes
      BY <1>2, <2>2 DEF ProvenanceGateCode
    <2> QED  BY <2>1, <2>3
  <1>3. ASSUME gate.kind \in {"CompatibilityGenerationCurrent",
                              "EnvironmentBinding", "DependentArtifactPromoted",
                              "ApprovalRequired", "SecurityVetoClear",
                              "DependencyVetoClear"}
        PROVE  GateCode(gate, q) \in Codes
    <2>1. GateCode(gate, q) = ContextGateCode(gate, id, revision)
      BY <1>3 DEF GateCode
    <2>2. ContextGateCode(gate, id, revision) \in Codes
      BY <1>3 DEF ContextGateCode, Fails, Codes
    <2> QED  BY <2>1, <2>2
  <1>4. ASSUME gate.kind \in {"PolicyGenerationCurrent",
                              "CoordinatorEpochCurrent",
                              "NoConflictingTransition"}
        PROVE  GateCode(gate, q) \in Codes
    <2>1. GateCode(gate, q) = AuthorityGateCode(gate, q)
      BY <1>4 DEF GateCode
    <2>2. AuthorityGateCode(gate, q) \in Codes
      BY <1>4 DEF AuthorityGateCode, Fails, Codes
    <2> QED  BY <2>1, <2>2
  <1>5. ASSUME gate.kind \in {"EvidenceRequired", "EvidenceFreshness"}
        PROVE  GateCode(gate, q) \in Codes
    <2>1. GateCode(gate, q) = EvidenceGateCode(gate, id, revision)
      BY <1>5 DEF GateCode
    <2>2. ResolveEvidence(gate.type, id, revision) \in Codes
      BY DEF ResolveEvidence, Codes
    <2>3. EvidenceGateCode(gate, id, revision) \in Codes
      BY <2>2 DEF EvidenceGateCode, Fails, Codes
    <2> QED  BY <2>1, <2>3
  <1>6. gate.kind \in {"ArtifactIdentity", "EvidenceIntegrity",
                       "ArtifactNotQuarantined", "ArtifactNotRevoked",
                       "ArtifactNotSuperseded"}
                 \cup {"ProvenanceRequired", "ProvenanceResolved"}
                 \cup {"CompatibilityGenerationCurrent",
                       "EnvironmentBinding", "DependentArtifactPromoted",
                       "ApprovalRequired", "SecurityVetoClear",
                       "DependencyVetoClear"}
                 \cup {"PolicyGenerationCurrent", "CoordinatorEpochCurrent",
                       "NoConflictingTransition"}
                 \cup {"EvidenceRequired", "EvidenceFreshness"}
    BY DEF ValidGate, SimpleKinds
  <1> QED  BY <1>1, <1>2, <1>3, <1>4, <1>5, <1>6

\* A code that is not "Ok" is never taken for an eligible or committed outcome.
LEMMA FailureIsNoSuccess ==
    ASSUME NEW code \in Codes
    PROVE  OutcomeFor(code) \notin {"PromotionEligible", "PromotionCommitted"}
  BY DEF Codes, OutcomeFor, Renamed

-----------------------------------------------------------------------------
(* The policy in force.                                                    *)

\* validate() stands before every policy that comes into force, so the rules
\* and the gates the engine evaluates are valid ones (policy.cpp 177-277,
\* engine.cpp 137-165).
THEOREM PolicyIsValid == Spec => []ValidPolicy(policy)
  <1>1. Init => ValidPolicy(policy)
    BY PoliciesAssumption DEF Init
  <1>2. ValidPolicy(policy) /\ [Next]_vars => ValidPolicy(policy)'
    <2> SUFFICES ASSUME ValidPolicy(policy), [Next]_vars
                 PROVE  ValidPolicy(policy)'
      OBVIOUS
    <2>1. ASSUME NEW p \in Policies, publish_policy(p)
          PROVE  ValidPolicy(policy')
      BY <2>1 DEF publish_policy
    <2>2. CASE \E p \in Policies : publish_policy(p)
      BY <2>1, <2>2
    <2>3. CASE ~\E p \in Policies : publish_policy(p)
      <3>1. policy' = policy
        BY <2>3 DEF Next, OtherOperation, vars, register_artifact,
           submit_evidence, restart, recover_in_flight,
           set_compatibility_generation, set_admission, ClockStep, evaluate,
           commit, set_security_veto, set_dependency_veto, quarantine,
           release_quarantine, revoke, supersede, retire, revoke_evidence
      <3> QED  BY <3>1
    <2> QED  BY <2>2, <2>3
  <1> QED  BY <1>1, <1>2, PTL DEF Spec

\* The rule an evaluation of q reads.
RuleOf(q) ==
    LET artifact == artifacts[q.artifact][q.artifact_revision]
    IN  FindRule(policy, artifact.registration.kind, artifact.stage, q.to)

\* An evaluation that ends in PromotionEligible found a rule and passed each of
\* its gates; none ends in PromotionCommitted.
LEMMA EligiblePassedGates ==
    ASSUME NEW q, policy \in Policies, ValidPolicy(policy)
    PROVE  /\ EvaluateGates(q) # "PromotionCommitted"
           /\ EvaluateGates(q) = "PromotionEligible" =>
                 LET artifact == artifacts[q.artifact][q.artifact_revision]
                     rule == policy.rules[RuleOf(q)]
                 IN  /\ RuleOf(q) # 0
                     /\ RuleOf(q) \in DOMAIN policy.rules
                     /\ RuleMatches(rule, artifact.registration.kind,
                                    artifact.stage, q.to)
                     /\ \A g \in DOMAIN rule.gates :
                           GateCode(rule.gates[g], q) = "Ok"
  <1> DEFINE artifact == artifacts[q.artifact][q.artifact_revision]
             n == RuleOf(q)
             gates == policy.rules[n].gates
             failed == FirstFailure(gates, q)
             I == {i \in 1 .. Len(gates) : GateCode(gates[i], q) # "Ok"}
  <1>1. CASE n = 0
    BY <1>1 DEF EvaluateGates, RuleOf
  <1>2. CASE n # 0
    <2>1. /\ n \in DOMAIN policy.rules
          /\ RuleMatches(policy.rules[n], artifact.registration.kind,
                         artifact.stage, q.to)
      BY <1>2, FoundRule DEF RuleOf, HasRule
    <2>2. gates \in Seq(Range(gates))
      BY <2>1, PoliciesAssumption
    <2>3. Len(gates) \in Nat /\ DOMAIN gates = 1 .. Len(gates)
      BY <2>2
    <2>4. \A g \in DOMAIN gates : ValidGate(gates[g])
      BY <2>1 DEF ValidPolicy
    <2>5. failed = IF I # {} THEN Min(I) ELSE 0
      BY DEF FirstFailure, SelectInSeq
    <2>6. \/ EvaluateGates(q) = "ProvenanceMissing"
          \/ EvaluateGates(q) = "PromotionEligible" /\ failed = 0
          \/ failed # 0 /\ EvaluateGates(q) = OutcomeFor(GateCode(gates[failed], q))
      BY <1>2 DEF EvaluateGates, RuleOf
    <2> HIDE DEF gates, n, failed
    <2>7. I \subseteq Nat
      BY <2>3
    <2>8. ASSUME failed # 0
          PROVE  OutcomeFor(GateCode(gates[failed], q))
                    \notin {"PromotionEligible", "PromotionCommitted"}
      <3>1. I # {} /\ failed = Min(I)
        BY <2>5, <2>8
      <3>2. Min(I) \in I
        BY <2>7, <3>1, MinOfSet
      <3>3. failed \in DOMAIN gates
        BY <2>3, <3>1, <3>2
      <3>4. GateCode(gates[failed], q) \in Codes
        BY <2>4, <3>3, GateCodeType
      <3> QED  BY <3>4, FailureIsNoSuccess
    <2>9. ASSUME failed = 0
          PROVE  \A g \in DOMAIN gates : GateCode(gates[g], q) = "Ok"
      <3>1. I = {}
        <4>1. ASSUME I # {} PROVE FALSE
          <5>1. Min(I) \in I /\ failed = Min(I)
            BY <2>5, <2>7, <4>1, MinOfSet
          <5> QED  BY <2>3, <2>9, <5>1
        <4> QED  BY <4>1
      <3> QED  BY <2>3, <3>1
    <2>10. EvaluateGates(q) = "PromotionEligible" =>
              \A g \in DOMAIN gates : GateCode(gates[g], q) = "Ok"
      BY <2>6, <2>8, <2>9
    <2>11. EvaluateGates(q) # "PromotionCommitted"
      BY <2>6, <2>8
    <2> QED  BY <1>2, <2>1, <2>10, <2>11 DEF gates, n
  <1> QED  BY <1>1, <1>2

-----------------------------------------------------------------------------
(* What holds when a transition is made.                                   *)

\* A new record of a plan is that of the transition its commit() made.
LEMMA NewCommitMade ==
    ASSUME [Next]_vars, NEW r \in NewCommits
    PROVE  \E p \in plans :
              /\ CommitTransition(p)
              /\ r.plan = p.id
              /\ r.artifact = p.artifact
              /\ r.artifact_revision = p.artifact_revision
              /\ r.to = p.to
              /\ r.from = artifacts[p.artifact][p.artifact_revision].stage
  <1>1. r \in records' /\ r \notin records /\ r.plan # 0
    BY DEF NewCommits
  <1>2. PICK new : RecordAdded(new)
    BY <1>1, RecordSteps
  <1>3. r = new
    BY <1>1, <1>2, EvictSubset DEF RecordAdded
  <1> QED  BY <1>1, <1>2, <1>3 DEF RecordAdded

\* The gates of a new record of a plan are those commit() evaluated, and each
\* was satisfied.
LEMMA CommittedGates ==
    ASSUME policy \in Policies, ValidPolicy(policy), NEW p \in plans,
           CommitTransition(p), NEW r,
           r.artifact = p.artifact,
           r.artifact_revision = p.artifact_revision, r.to = p.to,
           r.from = artifacts[p.artifact][p.artifact_revision].stage
    PROVE  /\ \A g \in GatesOf(r) :
                 ValidGate(g) /\ GateCode(g, RequestOf(p)) = "Ok"
           /\ p.snapshot = Snapshot(p.artifact, p.artifact_revision)
  <1> DEFINE q == RequestOf(p)
             rule == policy.rules[RuleOf(q)]
             artifact == artifacts[p.artifact][p.artifact_revision]
  <1>1. /\ q.artifact = p.artifact /\ q.to = p.to
        /\ q.artifact_revision = p.artifact_revision
    BY DEF RequestOf
  <1>2. EvaluateGates(q) = "PromotionEligible" /\ EvidenceUnchanged(p)
    BY DEF CommitTransition
  <1> HIDE DEF q
  <1>3. /\ RuleOf(q) # 0
        /\ RuleOf(q) \in DOMAIN policy.rules
        /\ \A g \in DOMAIN rule.gates : GateCode(rule.gates[g], q) = "Ok"
    BY <1>2, EligiblePassedGates
  <1>4. GatesOf(r) = {rule.gates[g] : g \in DOMAIN rule.gates}
    BY <1>1 DEF GatesOf, RuleOf
  <1>5. \A g \in DOMAIN rule.gates : ValidGate(rule.gates[g])
    BY <1>3 DEF ValidPolicy
  <1>6. HasRule(policy, artifact.registration.kind, artifact.stage, p.to)
    BY <1>1, <1>3 DEF RuleOf, HasRule
  <1>7. p.snapshot = Snapshot(p.artifact, p.artifact_revision)
    BY <1>1, <1>2, <1>6 DEF EvidenceUnchanged, EvaluatedSnapshot, q
  <1> QED  BY <1>3, <1>4, <1>5, <1>7 DEF q

\* Each of these names is that of an artifact whose current revision holds
\* authority.
DependenciesHeld(names) ==
    \A n \in DOMAIN names : \E a \in ArtifactIds :
        /\ Registered(a)
        /\ artifacts[a][Current(a)].registration.name = names[n]
        /\ CurrentlyAuthoritative(artifacts[a][Current(a)])

\* The dependency gate passes only when each declared name has an artifact
\* whose current revision holds authority.
LEMMA DependencyGatePassed ==
    ASSUME NEW gate, gate.kind = "DependentArtifactPromoted", NEW q,
           GateCode(gate, q) = "Ok",
           artifacts[q.artifact][q.artifact_revision].registration
              \in Registrations
    PROVE  DependenciesHeld(
              artifacts[q.artifact][q.artifact_revision].registration.dependencies)
  <1> DEFINE artifact == artifacts[q.artifact][q.artifact_revision]
             names == artifact.registration.dependencies
             I == {i \in 1 .. Len(names) : DependencyStatus(names[i]) # "Promoted"}
             blocked == IF I # {} THEN Min(I) ELSE 0
  <1>1. GateCode(gate, q) = Fails(DependenciesStatus(artifact) # "Promoted",
                                  "DependencyVeto")
    BY DEF GateCode, ContextGateCode
  <1>2. DependenciesStatus(artifact) = "Promoted"
    BY <1>1 DEF Fails
  <1>3. names \in Seq(Range(names))
    BY InputsAssumption
  <1>4. Len(names) \in Nat /\ DOMAIN names = 1 .. Len(names)
    BY <1>3
  <1>5. DependenciesStatus(artifact) =
           IF blocked = 0 THEN "Promoted" ELSE DependencyStatus(names[blocked])
    BY DEF DependenciesStatus, SelectInSeq
  <1> HIDE DEF names, artifact
  <1>6. I = {}
    <2>1. ASSUME I # {} PROVE FALSE
      <3>1. I \subseteq Nat
        BY <1>4
      <3>2. Min(I) \in I /\ blocked = Min(I)
        BY <2>1, <3>1, MinOfSet
      <3>3. blocked # 0 /\ DependencyStatus(names[blocked]) # "Promoted"
        BY <1>4, <3>2
      <3> QED  BY <1>2, <1>5, <3>3
    <2> QED  BY <2>1
  <1>7. ASSUME NEW n \in DOMAIN names
        PROVE  \E a \in ArtifactIds :
                  /\ Registered(a)
                  /\ artifacts[a][Current(a)].registration.name = names[n]
                  /\ CurrentlyAuthoritative(artifacts[a][Current(a)])
    <2>1. DependencyStatus(names[n]) = "Promoted"
      BY <1>4, <1>6
    <2> DEFINE named == {a \in ArtifactIds :
                  /\ Registered(a)
                  /\ artifacts[a][Current(a)].registration.name = names[n]}
    <2>2. named # {} /\ \A a \in named :
                           CurrentlyAuthoritative(artifacts[a][Current(a)])
      BY <2>1 DEF DependencyStatus
    <2> QED  BY <2>2
  <1> QED  BY <1>7 DEF names, artifact, DependenciesHeld

\* An artifact whose dependencies must be promoted commits only while each of
\* them holds authority, whatever happened to them since the plan was made and
\* whatever the policy (evaluate.cpp 524-560).
THEOREM DependenciesFenced == Spec => DependenciesHoldAuthority
  <1> DEFINE Held == \A r \in NewCommits :
                (\E g \in GatesOf(r) : g.kind = "DependentArtifactPromoted")
                   => LET names == artifacts[r.artifact][r.artifact_revision].registration.dependencies
                      IN  \A n \in DOMAIN names : \E a \in ArtifactIds :
                             /\ Registered(a)
                             /\ artifacts[a][Current(a)].registration.name = names[n]
                             /\ CurrentlyAuthoritative(artifacts[a][Current(a)])
  <1>1. ASSUME TypeOK, PlanInvariant, ValidPolicy(policy), [Next]_vars
        PROVE  Held
    <2> SUFFICES ASSUME NEW r \in NewCommits, NEW g \in GatesOf(r),
                        g.kind = "DependentArtifactPromoted"
                 PROVE  DependenciesHeld(artifacts[r.artifact][r.artifact_revision].registration.dependencies)
      BY DEF DependenciesHeld
    <2>1. PICK p \in plans : /\ CommitTransition(p)
                             /\ r.artifact = p.artifact
                             /\ r.artifact_revision = p.artifact_revision
                             /\ r.to = p.to
                             /\ r.from = artifacts[p.artifact][p.artifact_revision].stage
      BY <1>1, NewCommitMade
    <2>2. policy \in Policies
      BY <1>1 DEF TypeOK
    <2>3. GateCode(g, RequestOf(p)) = "Ok"
      BY <1>1, <2>1, <2>2, CommittedGates
    <2>4. /\ RequestOf(p).artifact = r.artifact
          /\ RequestOf(p).artifact_revision = r.artifact_revision
      BY <2>1 DEF RequestOf
    <2>5. artifacts[r.artifact][r.artifact_revision] \in ArtifactRecord
      <3>1. p.artifact \in ArtifactIds /\ HasRevision(p.artifact, p.artifact_revision)
        BY <1>1 DEF TypeOK, PromotionPlan, PlanInvariant, PlansAreFresh
      <3> QED  BY <1>1, <2>1, <3>1, RevisionType
    <2>6. artifacts[r.artifact][r.artifact_revision].registration \in Registrations
      BY <2>5 DEF ArtifactRecord
    <2> QED  BY <2>3, <2>4, <2>6, DependencyGatePassed
  <1>2. TypeOK /\ PlanInvariant /\ ValidPolicy(policy) /\ [Next]_vars
           => [Held]_vars
    BY <1>1
  <1> QED  BY <1>2, StateIsSound, PolicyIsValid, PTL
           DEF Spec, DependenciesHoldAuthority

\* The clock is a machine word, like the instants it is read from.
LEMMA ClockIsWord == Spec => [](now \in 0 .. WordSize - 1)
  <1>1. Init => now \in 0 .. WordSize - 1
    BY NumbersAssumption DEF Init
  <1>2. now \in 0 .. WordSize - 1 /\ [Next]_vars => (now \in 0 .. WordSize - 1)'
    <2> SUFFICES ASSUME now \in 0 .. WordSize - 1, [Next]_vars
                 PROVE  now' \in 0 .. WordSize - 1
      OBVIOUS
    <2>1. now' = now \/ now' \in Instants
      BY DEF Next, OtherOperation, vars, register_artifact, publish_policy,
         submit_evidence, restart, recover_in_flight,
         set_compatibility_generation, set_admission, ClockStep, evaluate,
         commit, set_security_veto, set_dependency_veto, quarantine,
         release_quarantine, revoke, supersede, retire, revoke_evidence
    <2> QED  BY <2>1, NumbersAssumption
  <1> QED  BY <1>1, <1>2, PTL DEF Spec

\* An age the unsigned arithmetic accepts is one the integers accept.
LEMMA UnsignedAge ==
    ASSUME NEW W \in Nat, NEW t \in 0 .. W - 1, NEW produced \in Nat,
           NEW maxAge \in Nat, ~((t - produced) % W > maxAge)
    PROVE  t - produced <= maxAge
  <1>1. CASE t >= produced
    <2>1. (t - produced) \in 0 .. W - 1
      BY <1>1
    <2>2. \A x \in 0 .. W - 1 : x % W = x
      OBVIOUS
    <2> QED  BY <2>1, <2>2
  <1>2. CASE t < produced
    BY <1>2
  <1> QED  BY <1>1, <1>2

\* A freshness gate passes only on a live record of its type that passed, is
\* not from beyond the skew, is not older than the gate allows and is within
\* its window.
LEMMA FreshnessGatePassed ==
    ASSUME TypeOK, now \in 0 .. WordSize - 1,
           NEW gate, gate.kind = "EvidenceFreshness", gate.maxAge \in Nat,
           NEW q, GateCode(gate, q) = "Ok"
    PROVE  \E e \in Snapshot(q.artifact, q.artifact_revision) :
              LET s == evidence[e].submission
              IN  /\ s.type = gate.type /\ s.result = "Pass"
                  /\ s.produced <= now + FutureSkew
                  /\ now - s.produced <= gate.maxAge
                  /\ s.has_window => now \in s.valid_from .. s.valid_until
  <1> DEFINE id == q.artifact
             v == q.artifact_revision
             exact == {e \in OfType(gate.type, id, v) : Live(e)}
             m == Max(exact)
             s == evidence[m].submission
  <1>1. GateCode(gate, q) = EvidenceGateCode(gate, id, v)
    BY DEF GateCode
  <1>2. /\ ResolveEvidence(gate.type, id, v) = "Ok"
        /\ ~TooOld(s, gate.maxAge) /\ ~OutsideWindow(s)
    BY <1>1 DEF EvidenceGateCode, Fails, Selected
  <1>3. exact # {} /\ s.result = "Pass"
    BY <1>2 DEF ResolveEvidence
  <1>4. /\ evidence \in Seq(EvidenceRecord) /\ Len(evidence) \in Nat
        /\ DOMAIN evidence = 1 .. Len(evidence)
    BY DEF TypeOK
  <1>5. exact \subseteq 1 .. Len(evidence)
    BY <1>4 DEF OfType, GatherEvidence
  <1>6. m \in exact
    BY <1>3, <1>4, <1>5, MaxOfSet
  <1>7. m \in Snapshot(id, v) /\ s.type = gate.type
    BY <1>6 DEF Snapshot, OfType
  <1>8. evidence[m] \in EvidenceRecord
    BY <1>4, <1>5, <1>6
  <1> HIDE DEF m
  <1>9. s \in Submissions
    BY <1>8 DEF EvidenceRecord
  <1> HIDE DEF s
  <1>10. /\ s.produced \in Nat /\ s.valid_from \in Nat /\ s.valid_until \in Nat
    BY <1>9, InputsAssumption
  <1>11. WordSize \in Nat /\ FutureSkew \in Nat /\ now \in Nat
    BY NumbersAssumption
  <1>12. s.produced <= now + FutureSkew
    BY <1>2, <1>10, <1>11 DEF TooOld
  <1>13. now - s.produced <= gate.maxAge
    <2>1. ~((now - s.produced) % WordSize > gate.maxAge)
      BY <1>2 DEF TooOld
    <2> QED  BY <1>10, <1>11, <2>1, UnsignedAge
  <1>14. s.has_window => now \in s.valid_from .. s.valid_until
    BY <1>2, <1>10, <1>11 DEF OutsideWindow
  <1> QED  BY <1>3, <1>7, <1>12, <1>13, <1>14 DEF s

\* A transition that demands fresh evidence rests on evidence of its plan that
\* is fresh when it commits, in the integers, whatever the wall clock did and
\* whatever the policy (evaluate.cpp 645-666).
THEOREM StaleEvidenceFenced == Spec => StaleEvidenceNeverCommits
  <1> DEFINE Fresh(p, g) ==
                \E e \in p.snapshot :
                   LET s == evidence[e].submission
                   IN  /\ s.type = g.type /\ s.result = "Pass"
                       /\ s.produced <= now + FutureSkew
                       /\ now - s.produced <= g.maxAge
                       /\ s.has_window => now \in s.valid_from .. s.valid_until
             Rests == \A r \in NewCommits : \A p \in plans :
                         p.id = r.plan =>
                            \A g \in {x \in GatesOf(r) : x.kind = "EvidenceFreshness"} :
                               Fresh(p, g)
  <1>1. ASSUME TypeOK, PlanInvariant, ValidPolicy(policy),
               now \in 0 .. WordSize - 1, [Next]_vars
        PROVE  Rests
    <2> SUFFICES ASSUME NEW r \in NewCommits, NEW p \in plans, p.id = r.plan,
                        NEW g \in GatesOf(r), g.kind = "EvidenceFreshness"
                 PROVE  Fresh(p, g)
      OBVIOUS
    <2>1. PICK c \in plans : /\ CommitTransition(c)
                             /\ r.plan = c.id
                             /\ r.artifact = c.artifact
                             /\ r.artifact_revision = c.artifact_revision
                             /\ r.to = c.to
                             /\ r.from = artifacts[c.artifact][c.artifact_revision].stage
      BY <1>1, NewCommitMade
    <2>2. c = p
      BY <1>1, <2>1 DEF PlanInvariant, PlansAreFresh
    <2>3. policy \in Policies
      BY <1>1 DEF TypeOK
    <2>4. /\ \A x \in GatesOf(r) : GateCode(x, RequestOf(p)) = "Ok"
          /\ p.snapshot = Snapshot(p.artifact, p.artifact_revision)
      BY <1>1, <2>1, <2>2, <2>3, CommittedGates
    <2>5. GateCode(g, RequestOf(p)) = "Ok"
      BY <2>4
    <2>6. /\ RequestOf(p).artifact = p.artifact
          /\ RequestOf(p).artifact_revision = p.artifact_revision
      BY DEF RequestOf
    <2>7. g.maxAge \in Nat
      <3> DEFINE kind == artifacts[r.artifact][r.artifact_revision].registration.kind
                 i == FindRule(policy, kind, r.from, r.to)
      <3>1. HasRule(policy, kind, r.from, r.to)
        <4>1. EvaluateGates(RequestOf(c)) = "PromotionEligible"
          BY <2>1 DEF CommitTransition
        <4>2. RuleOf(RequestOf(c)) # 0
          BY <1>1, <2>3, <4>1, EligiblePassedGates
        <4> QED  BY <2>1, <4>2 DEF RuleOf, HasRule, RequestOf
      <3>2. i \in DOMAIN policy.rules
        BY <2>3, <3>1, FoundRule
      <3>3. PICK n \in DOMAIN policy.rules[i].gates : g = policy.rules[i].gates[n]
        BY DEF GatesOf
      <3> HIDE DEF i
      <3> QED  BY <2>3, <3>2, <3>3, PoliciesAssumption
    <2>8. \E e \in Snapshot(RequestOf(p).artifact, RequestOf(p).artifact_revision) :
              LET s == evidence[e].submission
              IN  /\ s.type = g.type /\ s.result = "Pass"
                  /\ s.produced <= now + FutureSkew
                  /\ now - s.produced <= g.maxAge
                  /\ s.has_window => now \in s.valid_from .. s.valid_until
      BY <1>1, <2>5, <2>7, FreshnessGatePassed
    <2> QED  BY <2>4, <2>6, <2>8
  <1>2. TypeOK /\ PlanInvariant /\ ValidPolicy(policy)
           /\ now \in 0 .. WordSize - 1 /\ [Next]_vars
        => [Rests]_vars
    BY <1>1
  <1> QED  BY <1>2, StateIsSound, PolicyIsValid, ClockIsWord, PTL
           DEF Spec, StaleEvidenceNeverCommits

-----------------------------------------------------------------------------
(* The shape of a policy.                                                  *)

\* Every rule that leads to PROMOTED asks whether the artifact is quarantined
\* and whether it was revoked.
PromotionIsGuarded(p) ==
    \A i \in DOMAIN p.rules :
        p.rules[i].to = "Promoted" =>
            \A kind \in {"ArtifactNotQuarantined", "ArtifactNotRevoked"} :
                \E g \in DOMAIN p.rules[i].gates : p.rules[i].gates[g].kind = kind

\* The stages a revision does not come back from.
Ends == {"Superseded", "Revoked", "Retired"}

\* No rule leaves them, and a rule that leaves PROMOTED leads to them.
EndsAreFinal(p) ==
    \A i \in DOMAIN p.rules :
        /\ p.rules[i].from \notin Ends
        /\ p.rules[i].from = "Promoted" => p.rules[i].to \in Ends

\* A rule leaves QUARANTINED for CANDIDATE, and no other rule leads there.
QuarantineIsLeftForCandidate(p) ==
    \A i \in DOMAIN p.rules :
        p.rules[i].to = "Candidate" <=> p.rules[i].from = "Quarantined"

\* The rules of the reference policy, one by one (policy.cpp 364-517).
LEMMA ReferenceShape ==
    ASSUME NEW id, NEW generation, NEW day \in Nat
    PROVE  LET p == ReferencePolicy(id, generation, day)
           IN  /\ PromotionIsGuarded(p)
               /\ EndsAreFinal(p)
               /\ QuarantineIsLeftForCandidate(p)
  <1> DEFINE rules == ReferenceRules(day)
  <1>1. ReferencePolicy(id, generation, day).rules = rules
    BY DEF ReferencePolicy
  <1>2. DOMAIN rules = 1 .. 10
    BY DEF ReferenceRules
  <1>3. /\ rules[1].from = "Candidate" /\ rules[1].to = "Verified"
        /\ rules[2].from = "Verified" /\ rules[2].to = "Qualified"
        /\ rules[3].from = "Verified" /\ rules[3].to = "Qualified"
        /\ rules[4].from = "Verified" /\ rules[4].to = "Qualified"
        /\ rules[5].from = "Qualified" /\ rules[5].to = "Staged"
        /\ rules[6].from = "Staged" /\ rules[6].to = "Approved"
        /\ rules[7].from = "Approved" /\ rules[7].to = "Promoted"
        /\ rules[8].from = "Quarantined" /\ rules[8].to = "Candidate"
        /\ rules[9].from = "Promoted" /\ rules[9].to = "Revoked"
        /\ rules[10].from = "Promoted" /\ rules[10].to = "Superseded"
    BY DEF ReferenceRules, Guarded, Rule
  <1>4. /\ rules[7].gates[3].kind = "ArtifactNotQuarantined"
        /\ rules[7].gates[4].kind = "ArtifactNotRevoked"
        /\ {3, 4} \subseteq DOMAIN rules[7].gates
    <2> DEFINE more == <<SimpleGate("PolicyGenerationCurrent"),
                         SimpleGate("CoordinatorEpochCurrent"),
                         EvidenceGate("SignatureValid")>>
    <2>1. rules[7].gates = CommonHardGates \o more
      BY DEF ReferenceRules, Guarded, Rule
    <2> DEFINE T == {SimpleGate(k) : k \in SimpleKinds}
                       \cup {EvidenceGate("SignatureValid")}
    <2>2. CommonHardGates \in Seq(T)
      BY DEF CommonHardGates, SimpleKinds
    <2>3. more \in Seq(T)
      BY DEF SimpleKinds
    <2>4. /\ CommonHardGates[3] = SimpleGate("ArtifactNotQuarantined")
          /\ CommonHardGates[4] = SimpleGate("ArtifactNotRevoked")
          /\ Len(CommonHardGates) = 7
      BY DEF CommonHardGates
    <2>5. Len(more) = 3
      OBVIOUS
    <2> HIDE DEF more, T
    <2>6. /\ (CommonHardGates \o more)[3] = CommonHardGates[3]
          /\ (CommonHardGates \o more)[4] = CommonHardGates[4]
          /\ {3, 4} \subseteq DOMAIN (CommonHardGates \o more)
      BY <2>2, <2>3, <2>4, <2>5
    <2> QED  BY <2>1, <2>4, <2>6 DEF SimpleGate
  <1> HIDE DEF rules
  <1>5. \A i \in 1 .. 10 : \/ i = 1 \/ i = 2 \/ i = 3 \/ i = 4 \/ i = 5
                           \/ i = 6 \/ i = 7 \/ i = 8 \/ i = 9 \/ i = 10
    OBVIOUS
  <1> QED  BY <1>1, <1>2, <1>3, <1>4, <1>5
           DEF PromotionIsGuarded, EndsAreFinal, Ends,
               QuarantineIsLeftForCandidate

-----------------------------------------------------------------------------
(* The rules behind a transition.                                          *)

\* commit() makes a transition under a rule of the active policy that leads
\* from the present stage to the target, and its gates hold.
LEMMA CommitRule ==
    ASSUME TypeOK, ValidPolicy(policy), NEW p \in plans, CommitTransition(p)
    PROVE  \E i \in DOMAIN policy.rules :
              LET rule == policy.rules[i]
              IN  /\ rule.from = artifacts[p.artifact][p.artifact_revision].stage
                  /\ rule.to = p.to
                  /\ rule.from # rule.to
                  /\ \A g \in DOMAIN rule.gates :
                        GateCode(rule.gates[g], RequestOf(p)) = "Ok"
  <1> DEFINE q == RequestOf(p)
             i == RuleOf(q)
  <1>1. /\ q.artifact = p.artifact /\ q.to = p.to
        /\ q.artifact_revision = p.artifact_revision
    BY DEF RequestOf
  <1>2. EvaluateGates(q) = "PromotionEligible" /\ policy \in Policies
    BY DEF CommitTransition, TypeOK
  <1> HIDE DEF q
  <1>3. /\ i \in DOMAIN policy.rules
        /\ policy.rules[i].from = artifacts[q.artifact][q.artifact_revision].stage
        /\ policy.rules[i].to = q.to
        /\ \A g \in DOMAIN policy.rules[i].gates :
              GateCode(policy.rules[i].gates[g], q) = "Ok"
    BY <1>2, EligiblePassedGates DEF RuleMatches
  <1> HIDE DEF i
  <1>4. policy.rules[i].from # policy.rules[i].to
    BY <1>3 DEF ValidPolicy
  <1> QED  BY <1>1, <1>3, <1>4 DEF q

\* release_quarantine() moves a revision under a rule that leads from its
\* stage to CANDIDATE.
LEMMA ReleaseRule ==
    ASSUME TypeOK, ValidPolicy(policy), NEW id, ReleaseGranted(id)
    PROVE  \E i \in DOMAIN policy.rules :
              /\ policy.rules[i].from = CurrentArtifact(id).stage
              /\ policy.rules[i].to = "Candidate"
  <1> DEFINE q == ReleaseRequest(id)
             i == RuleOf(q)
  <1>1. /\ q.artifact = id /\ q.to = "Candidate"
        /\ q.artifact_revision = Current(id)
    BY DEF ReleaseRequest
  <1>2. EvaluateGates(q) = "PromotionEligible" /\ policy \in Policies
    BY DEF ReleaseGranted, TypeOK
  <1> HIDE DEF q
  <1>3. /\ i \in DOMAIN policy.rules
        /\ policy.rules[i].from = artifacts[q.artifact][q.artifact_revision].stage
        /\ policy.rules[i].to = q.to
    BY <1>2, EligiblePassedGates DEF RuleMatches
  <1> HIDE DEF i
  <1> QED  BY <1>1, <1>3 DEF CurrentArtifact

-----------------------------------------------------------------------------
(* No authority without trust.                                             *)

\* The inductive form, for every revision and not only the current one.
TrustInvariant ==
    \A a \in ArtifactIds : \A v \in 1 .. Len(artifacts[a]) :
        /\ artifacts[a][v].quarantined => artifacts[a][v].stage # "Promoted"
        /\ artifacts[a][v].revoked => ~artifacts[a][v].promoted

\* Under policies whose rules to PROMOTED ask for both, a revision that is
\* quarantined is never at PROMOTED and one that was revoked never holds the
\* promotion flag, in whatever order plans, commits and operations come
\* (engine.cpp 727-738).
THEOREM TrustIsRequired ==
    ASSUME \A p \in Policies : ValidPolicy(p) => PromotionIsGuarded(p)
    PROVE  Spec => []NoAuthorityWithoutTrust
  <1>1. Init => TrustInvariant
    BY DEF Init, TrustInvariant
  <1>2. ASSUME TypeOK, PlanInvariant, ValidPolicy(policy), TrustInvariant,
               [Next]_vars
        PROVE  TrustInvariant'
    <2> SUFFICES ASSUME NEW a \in ArtifactIds, NEW v \in 1 .. Len(artifacts'[a])
                 PROVE  /\ artifacts'[a][v].quarantined
                              => artifacts'[a][v].stage # "Promoted"
                        /\ artifacts'[a][v].revoked => ~artifacts'[a][v].promoted
      BY DEF TrustInvariant
    <2> DEFINE old == artifacts[a][v]
               new == artifacts'[a][v]
    <2>1. CASE v \notin 1 .. Len(artifacts[a])
      <3>1. \E r \in Registrations : new = NewRevision(r)
        BY <1>2, <2>1, NewRevisionStep DEF PlanInvariant
      <3> QED  BY <3>1 DEF NewRevision
    <2>2. CASE v \in 1 .. Len(artifacts[a])
      <3>1. /\ old.quarantined => old.stage # "Promoted"
            /\ old.revoked => ~old.promoted
        BY <1>2, <2>2 DEF TrustInvariant
      <3>2. Changed(a, v)
        BY <1>2, <2>2, RevisionStep DEF PlanInvariant
      <3>3. CASE new = old
        BY <3>1, <3>3
      <3>4. ASSUME NEW r, DemotedBy(r, a, v)
            PROVE  /\ new.quarantined => new.stage # "Promoted"
                   /\ new.revoked => ~new.promoted
        BY <3>1, <3>4 DEF DemotedBy
      <3>5. ASSUME NEW p \in plans, TransitionedBy(p, a, v)
            PROVE  /\ new.quarantined => new.stage # "Promoted"
                   /\ new.revoked => ~new.promoted
        <4>1. /\ new.stage = p.to
              /\ new.promoted <=> (old.promoted \/ p.to = "Promoted")
              /\ new.quarantined <=> old.quarantined
              /\ new.revoked <=> old.revoked
          BY <3>5 DEF TransitionedBy, Moved
        <4>2. CommitTransition(p) /\ p.artifact = a /\ p.artifact_revision = v
          BY <3>5 DEF TransitionedBy
        <4>3. CASE p.to # "Promoted"
          BY <3>1, <4>1, <4>3
        <4>4. CASE p.to = "Promoted"
          <5>1. PICK i \in DOMAIN policy.rules :
                   /\ policy.rules[i].to = "Promoted"
                   /\ \A g \in DOMAIN policy.rules[i].gates :
                         GateCode(policy.rules[i].gates[g], RequestOf(p)) = "Ok"
            BY <1>2, <4>2, <4>4, CommitRule
          <5>2. policy \in Policies /\ PromotionIsGuarded(policy)
            BY <1>2 DEF TypeOK
          <5>3. /\ RequestOf(p).artifact = a
                /\ RequestOf(p).artifact_revision = v
            BY <4>2 DEF RequestOf
          <5>4. ~old.quarantined
            <6>1. PICK g \in DOMAIN policy.rules[i].gates :
                     policy.rules[i].gates[g].kind = "ArtifactNotQuarantined"
              BY <5>1, <5>2 DEF PromotionIsGuarded
            <6>2. GateCode(policy.rules[i].gates[g], RequestOf(p))
                     = Fails(old.quarantined, "ArtifactQuarantined")
              BY <5>3, <6>1 DEF GateCode, TrustGateCode
            <6> QED  BY <5>1, <6>2 DEF Fails
          <5>5. ~old.revoked
            <6>1. PICK g \in DOMAIN policy.rules[i].gates :
                     policy.rules[i].gates[g].kind = "ArtifactNotRevoked"
              BY <5>1, <5>2 DEF PromotionIsGuarded
            <6>2. GateCode(policy.rules[i].gates[g], RequestOf(p))
                     = Fails(old.revoked, "ArtifactRevoked")
              BY <5>3, <6>1 DEF GateCode, TrustGateCode
            <6> QED  BY <5>1, <6>2 DEF Fails
          <5> QED  BY <4>1, <5>4, <5>5
        <4> QED  BY <4>3, <4>4
      <3>6. CASE MovedByTrust(a, v)
        BY <3>1, <3>6 DEF MovedByTrust, Moved
      <3> QED  BY <3>2, <3>3, <3>4, <3>5, <3>6 DEF Changed
    <2> QED  BY <2>1, <2>2
  <1>3. TypeOK /\ TrustInvariant => NoAuthorityWithoutTrust
    BY CurrentIsRevision DEF TrustInvariant, NoAuthorityWithoutTrust, HasRevision
  <1>4. TypeOK /\ PlanInvariant /\ ValidPolicy(policy) /\ TrustInvariant
           /\ [Next]_vars => TrustInvariant'
    BY <1>2
  <1> QED  BY <1>1, <1>3, <1>4, StateIsSound, PolicyIsValid, PTL DEF Spec

-----------------------------------------------------------------------------
(* What a withdrawal ends.                                                 *)

\* Under policies no rule of which leaves an end, a revision that was revoked
\* or retired stays so: quarantine() and supersede() refuse it, a newer
\* revision leaves it where it is, and neither a commit nor a release finds a
\* rule (policy.cpp 501-506, engine.cpp 306-317, trust.cpp 62-70).
THEOREM WithdrawalIsFinal ==
    ASSUME \A p \in Policies : ValidPolicy(p) => EndsAreFinal(p)
    PROVE  Spec => WithdrawnTrustIsFinal
  <1> DEFINE Final == \A a \in ArtifactIds : \A v \in DOMAIN artifacts[a] :
                         artifacts[a][v].stage \in {"Revoked", "Retired"}
                            => artifacts'[a][v].stage \in {"Revoked", "Retired"}
  <1>1. ASSUME TypeOK, PlanInvariant, ValidPolicy(policy), [Next]_vars
        PROVE  Final
    <2> SUFFICES ASSUME NEW a \in ArtifactIds, NEW v \in DOMAIN artifacts[a],
                        artifacts[a][v].stage \in {"Revoked", "Retired"}
                 PROVE  artifacts'[a][v].stage \in {"Revoked", "Retired"}
      OBVIOUS
    <2> DEFINE old == artifacts[a][v]
               new == artifacts'[a][v]
    <2>1. v \in 1 .. Len(artifacts[a])
      BY <1>1 DEF TypeOK
    <2>2. Changed(a, v)
      BY <1>1, <2>1, RevisionStep DEF PlanInvariant
    <2>3. policy \in Policies /\ EndsAreFinal(policy)
      BY <1>1 DEF TypeOK
    <2>4. ASSUME NEW r, DemotedBy(r, a, v)
          PROVE  new.stage \in {"Revoked", "Retired"}
      BY <2>4 DEF DemotedBy
    <2>5. ASSUME NEW p \in plans, TransitionedBy(p, a, v)
          PROVE  FALSE
      <3>1. CommitTransition(p) /\ p.artifact = a /\ p.artifact_revision = v
        BY <2>5 DEF TransitionedBy
      <3>2. \E i \in DOMAIN policy.rules : policy.rules[i].from = old.stage
        BY <1>1, <3>1, CommitRule
      <3> QED  BY <2>3, <3>2 DEF EndsAreFinal, Ends
    <2>6. CASE MovedByTrust(a, v)
      <3>1. CurrentArtifact(a) = old
        BY <2>6 DEF MovedByTrust, CurrentArtifact
      <3>2. ~quarantine(a)
        BY <3>1 DEF quarantine
      <3>3. ~ReleaseGranted(a)
        <4>1. ASSUME ReleaseGranted(a) PROVE FALSE
          <5>1. \E i \in DOMAIN policy.rules : policy.rules[i].from = old.stage
            BY <1>1, <3>1, <4>1, ReleaseRule
          <5> QED  BY <2>3, <5>1 DEF EndsAreFinal, Ends
        <4> QED  BY <4>1
      <3>4. \A s \in ArtifactIds : ~supersede(a, s)
        BY <3>1 DEF supersede
      <3> QED  BY <2>6, <3>2, <3>3, <3>4 DEF MovedByTrust, Moved
    <2> QED  BY <2>2, <2>4, <2>5, <2>6 DEF Changed
  <1>2. TypeOK /\ PlanInvariant /\ ValidPolicy(policy) /\ [Next]_vars
           => [Final]_vars
    BY <1>1
  <1> QED  BY <1>2, StateIsSound, PolicyIsValid, PTL
           DEF Spec, WithdrawnTrustIsFinal

\* A revision that is no longer the newest is promoted or at an end.
OldRevisionsAreSettled ==
    \A a \in ArtifactIds : \A v \in 1 .. Len(artifacts[a]) :
        v # Current(a) => artifacts[a][v].stage \in Ends \cup {"Promoted"}

\* Under the same policies one step keeps it so.
LEMMA SettledStep ==
    ASSUME \A p \in Policies : ValidPolicy(p) => EndsAreFinal(p),
           TypeOK, PlanInvariant, ValidPolicy(policy), OldRevisionsAreSettled,
           [Next]_vars
    PROVE  OldRevisionsAreSettled'
  <1> SUFFICES ASSUME NEW a \in ArtifactIds, NEW v \in 1 .. Len(artifacts'[a]),
                      v # Current(a)'
               PROVE  artifacts'[a][v].stage \in Ends \cup {"Promoted"}
    BY DEF OldRevisionsAreSettled
  <1> DEFINE old == artifacts[a][v]
             new == artifacts'[a][v]
  <1>1. Len(artifacts[a]) \in Nat
    BY DEF TypeOK
  <1>2. v \in 1 .. Len(artifacts[a])
    <2>1. ASSUME v \notin 1 .. Len(artifacts[a]) PROVE FALSE
      <3>1. PICK r \in Registrations : /\ register_artifact(r) /\ r.id = a
                                       /\ v = Len(artifacts[a]) + 1
        BY <2>1, NewRevisionStep DEF PlanInvariant
      <3>2. Len(artifacts'[a]) = v
        BY <3>1, RegisterView
      <3> QED  BY <3>2 DEF Current
    <2> QED  BY <2>1
  <1>3. Changed(a, v)
    BY <1>2, RevisionStep DEF PlanInvariant
  <1>4. policy \in Policies /\ EndsAreFinal(policy)
    BY DEF TypeOK
  <1>5. CASE v = Current(a)
    <2>1. Len(artifacts'[a]) # Len(artifacts[a])
      BY <1>5 DEF Current
    <2>2. PICK r \in Registrations : register_artifact(r)
      BY <2>1, ArtifactSteps, CommitView, TrustView DEF PlanInvariant
    <2>3. r.id = a
      BY <2>1, <2>2, RegisterView
    <2>4. DemotedBy(r, a, v)
      BY <1>2, <1>5, <2>2, <2>3, RegisterView
    <2> QED  BY <2>4 DEF DemotedBy, Ends
  <1>6. CASE v # Current(a)
    <2>1. old.stage \in Ends \cup {"Promoted"}
      BY <1>2, <1>6 DEF OldRevisionsAreSettled
    <2>2. ~MovedByTrust(a, v) /\ \A r : ~DemotedBy(r, a, v)
      BY <1>6 DEF MovedByTrust, DemotedBy
    <2>3. ASSUME NEW p \in plans, TransitionedBy(p, a, v)
          PROVE  new.stage \in Ends
      <3>1. /\ CommitTransition(p) /\ p.artifact = a /\ p.artifact_revision = v
            /\ new.stage = p.to
        BY <2>3 DEF TransitionedBy, Moved
      <3>2. PICK i \in DOMAIN policy.rules : /\ policy.rules[i].from = old.stage
                                             /\ policy.rules[i].to = p.to
        BY <3>1, CommitRule
      <3> QED  BY <1>4, <2>1, <3>1, <3>2 DEF EndsAreFinal
    <2> QED  BY <1>3, <2>1, <2>2, <2>3 DEF Changed
  <1> QED  BY <1>5, <1>6

\* Under policies no rule of which leaves an end, and under which PROMOTED is
\* left for an end, only the newest revision of an artifact is ever promoted,
\* although a reservation survives the registration of a newer one
\* (engine.cpp 300-317).
THEOREM OnlyNewestIsPromoted ==
    ASSUME \A p \in Policies : ValidPolicy(p) => EndsAreFinal(p)
    PROVE  Spec => OnlyCurrentRevisionIsPromoted
  <1> DEFINE Newest == \A r \in NewCommits :
                r.to = "Promoted" => r.artifact_revision = Current(r.artifact)
  <1>1. Init => OldRevisionsAreSettled
    BY DEF Init, OldRevisionsAreSettled
  <1>2. TypeOK /\ PlanInvariant /\ ValidPolicy(policy)
           /\ OldRevisionsAreSettled /\ [Next]_vars
        => OldRevisionsAreSettled'
    BY SettledStep
  <1>3. ASSUME TypeOK, PlanInvariant, ValidPolicy(policy),
               OldRevisionsAreSettled, [Next]_vars
        PROVE  Newest
    <2> SUFFICES ASSUME NEW r \in NewCommits, r.to = "Promoted",
                        r.artifact_revision # Current(r.artifact)
                 PROVE  FALSE
      OBVIOUS
    <2>1. PICK p \in plans : /\ CommitTransition(p)
                             /\ r.artifact = p.artifact
                             /\ r.artifact_revision = p.artifact_revision
                             /\ r.to = p.to
      BY <1>3, NewCommitMade
    <2>2. /\ p.artifact \in ArtifactIds
          /\ p.artifact_revision \in 1 .. Len(artifacts[p.artifact])
      BY <1>3 DEF TypeOK, PromotionPlan, PlanInvariant, PlansAreFresh, HasRevision
    <2>3. artifacts[p.artifact][p.artifact_revision].stage \in Ends \cup {"Promoted"}
      BY <1>3, <2>1, <2>2 DEF OldRevisionsAreSettled
    <2>4. PICK i \in DOMAIN policy.rules :
             /\ policy.rules[i].from
                   = artifacts[p.artifact][p.artifact_revision].stage
             /\ policy.rules[i].to = "Promoted"
      BY <1>3, <2>1, CommitRule
    <2>5. policy \in Policies /\ EndsAreFinal(policy)
      BY <1>3 DEF TypeOK
    <2> QED  BY <2>3, <2>4, <2>5 DEF EndsAreFinal, Ends
  <1>4. TypeOK /\ PlanInvariant /\ ValidPolicy(policy)
           /\ OldRevisionsAreSettled /\ [Next]_vars
        => [Newest]_vars
    BY <1>3
  <1> QED  BY <1>1, <1>2, <1>4, StateIsSound, PolicyIsValid, PTL
           DEF Spec, OnlyCurrentRevisionIsPromoted

-----------------------------------------------------------------------------
(* Where a transition starts from.                                         *)

\* A reservation is that of its plan.
ReservationsMatchPlans ==
    \A r \in pending : \A p \in plans : p.id = r.plan => r = ReservationFor(p)

\* The revision a reservation is on is where it was reserved; or it is an older
\* one at an end; or it was released from quarantine meanwhile.
Accounted(r) ==
    LET artifact == artifacts[r.artifact][r.artifact_revision]
    IN  \/ ReservationAccounts(r)
        \/ /\ r.artifact_revision # Current(r.artifact)
           /\ artifact.stage \in Ends
        \/ /\ r.from = "Quarantined" /\ artifact.stage = "Candidate"
           /\ artifact.stage_generation > r.stage_generation

\* The inductive form of ReservationsAccount.
ReservationInvariant ==
    /\ ReservationsMatchPlans
    /\ \A r \in pending :
          /\ HasRevision(r.artifact, r.artifact_revision)
          /\ r.from = "Quarantined" => r.to = "Candidate"
          /\ Accounted(r)

\* The policies this part is about.
OrderlyPolicies ==
    \A p \in Policies :
        ValidPolicy(p) => EndsAreFinal(p) /\ QuarantineIsLeftForCandidate(p)

\* An eligible request has a rule from the present stage to its target.
LEMMA EligibleRule ==
    ASSUME TypeOK, ValidPolicy(policy), NEW q, EvaluateGates(q) = "PromotionEligible"
    PROVE  \E i \in DOMAIN policy.rules :
              /\ policy.rules[i].from
                    = artifacts[q.artifact][q.artifact_revision].stage
              /\ policy.rules[i].to = q.to
  <1>1. policy \in Policies
    BY DEF TypeOK
  <1> QED  BY <1>1, EligiblePassedGates DEF RuleMatches

\* A plan and its reservation stay alike: both come from one evaluate(), under
\* an identity of their own.
LEMMA MatchStep ==
    ASSUME TypeOK, PlanInvariant, ReservationsMatchPlans, [Next]_vars
    PROVE  ReservationsMatchPlans'
  <1> SUFFICES ASSUME NEW r \in pending', NEW p \in plans', p.id = r.plan
               PROVE  r = ReservationFor(p)
    BY DEF ReservationsMatchPlans, ReservationFor
  <1>1. /\ plan_count \in Nat
        /\ \A x \in plans : x.id \in 1 .. plan_count
        /\ \A x \in pending : x.plan \in 1 .. plan_count
    BY DEF TypeOK, PlanInvariant, PlansAreFresh, ReservationsAreCurrent
  <1>2. CASE r \in pending /\ p \in plans
    BY <1>2 DEF ReservationsMatchPlans
  <1>3. ASSUME NEW q \in Requests, EvaluatePlanned(q)
        PROVE  r = ReservationFor(p)
    <2>1. /\ r \in pending \/ r = ReservationFor(PlanFor(q))
          /\ p \in plans \/ p = PlanFor(q)
      BY <1>3, EvictSubset DEF EvaluatePlanned, Release
    <2>2. /\ PlanFor(q).id = plan_count + 1
          /\ ReservationFor(PlanFor(q)).plan = plan_count + 1
      BY DEF PlanFor, ReservationFor
    <2> QED  BY <1>1, <1>2, <2>1, <2>2
  <1>4. CASE pending' \subseteq pending
    <2>1. r \in pending
      BY <1>4
    <2>2. p \in plans \/ \E q \in Requests : p = PlanFor(q)
      BY PlanSteps, EvictSubset
    <2>3. \A q \in Requests : PlanFor(q).id = plan_count + 1
      BY DEF PlanFor
    <2> QED  BY <1>1, <1>2, <2>1, <2>2, <2>3
  <1> QED  BY <1>3, <1>4, PendingSteps

\* One step keeps every reservation accounted for.
LEMMA ReservationStep ==
    ASSUME OrderlyPolicies, TypeOK, PlanInvariant, ValidPolicy(policy),
           ReservationInvariant, [Next]_vars
    PROVE  ReservationInvariant'
  <1>1. ReservationsMatchPlans'
    BY MatchStep DEF ReservationInvariant
  <1>2. /\ policy \in Policies
        /\ EndsAreFinal(policy) /\ QuarantineIsLeftForCandidate(policy)
    BY DEF TypeOK, OrderlyPolicies
  <1>3. ASSUME NEW r \in pending', r \in pending
        PROVE  /\ HasRevision(r.artifact, r.artifact_revision)'
               /\ r.from = "Quarantined" => r.to = "Candidate"
               /\ Accounted(r)'
    <2> DEFINE a == r.artifact
               v == r.artifact_revision
               old == artifacts[a][v]
               new == artifacts'[a][v]
    <2>1. /\ a \in ArtifactIds /\ v \in 1 .. Len(artifacts[a])
          /\ r.from = "Quarantined" => r.to = "Candidate"
          /\ Accounted(r)
          /\ r.stage_generation \in Nat
      BY <1>3 DEF TypeOK, PendingTransition, ReservationInvariant, HasRevision
    <2>2. v \in 1 .. Len(artifacts'[a]) /\ Changed(a, v)
      BY <2>1, RevisionStep DEF PlanInvariant
    <2>3. Len(artifacts[a]) \in Nat /\ Len(artifacts'[a]) \in Nat
      <3>1. TypeOK'
        BY TypeStep DEF PlanInvariant
      <3>2. /\ artifacts \in [ArtifactIds -> Seq(ArtifactRecord)]
            /\ artifacts' \in [ArtifactIds -> Seq(ArtifactRecord)]
        BY <3>1 DEF TypeOK
      <3> QED  BY <2>1, <3>2
    <2>4. old \in ArtifactRecord
      BY <2>1 DEF TypeOK
    <2>5. v # Current(a) => v # Current(a)'
      <3>1. Len(artifacts[a]) <= Len(artifacts'[a])
        BY <2>1, TypeStep DEF PlanInvariant, ChainsGrow
      <3> QED  BY <2>1, <2>3, <3>1 DEF Current
    <2>6. CASE new = old
      BY <2>1, <2>2, <2>5, <2>6 DEF Accounted, ReservationAccounts, HasRevision
    <2>7. ASSUME NEW x \in Registrations, DemotedBy(x, a, v)
          PROVE  Accounted(r)'
      <3>1. Len(artifacts'[a]) = v + 1
        <4>1. register_artifact(x) /\ x.id = a /\ v = Len(artifacts[a])
          BY <2>7 DEF DemotedBy, Current
        <4>2. Len(artifacts'[x.id]) = Len(artifacts[x.id]) + 1
          BY <4>1, RegisterView
        <4> QED  BY <4>1, <4>2
      <3>2. v # Current(a)'
        BY <2>1, <3>1 DEF Current
      <3>3. CASE old.stage \in {"Promoted", "Revoked", "Retired"}
        <4>1. new.stage = old.stage /\ new.stage_generation = old.stage_generation
          BY <2>7, <3>3 DEF DemotedBy
        <4> QED  BY <2>1, <2>2, <3>2, <4>1
                 DEF Accounted, ReservationAccounts, HasRevision
      <3>4. CASE old.stage \notin {"Promoted", "Revoked", "Retired"}
        <4>1. new.stage = "Superseded"
          BY <2>7, <3>4 DEF DemotedBy
        <4> QED  BY <3>2, <4>1 DEF Accounted, Ends
      <3> QED  BY <3>3, <3>4
    <2>8. ASSUME NEW p \in plans, TransitionedBy(p, a, v)
          PROVE  FALSE
      BY <1>3, <2>8 DEF TransitionedBy, CommitTransition, Release
    <2>9. ASSUME MovedByTrust(a, v)
          PROVE  Accounted(r)'
      <3>1. ReleaseGranted(a) /\ v = Current(a)
            /\ new.stage = "Candidate"
            /\ new.stage_generation = old.stage_generation + 1
        BY <1>3, <2>9 DEF MovedByTrust, Moved, quarantine, revoke, supersede,
                          retire, Release
      <3>2. old.stage = "Quarantined"
        BY <1>2, <3>1, ReleaseRule DEF QuarantineIsLeftForCandidate, CurrentArtifact
      <3>3. ReservationAccounts(r)
        BY <2>1, <3>1, <3>2 DEF Accounted
      <3>4. r.from = "Quarantined" /\ new.stage_generation > r.stage_generation
        BY <2>1, <3>1, <3>2, <3>3 DEF ReservationAccounts
      <3> QED  BY <3>1, <3>4 DEF Accounted
    <2>10. Accounted(r)'
      BY <2>2, <2>6, <2>7, <2>8, <2>9 DEF Changed
    <2> QED  BY <2>1, <2>2, <2>10 DEF HasRevision
  <1>4. ASSUME NEW q \in Requests, evaluate(q), EvaluatePlanned(q),
               NEW r, r = ReservationFor(PlanFor(q))
        PROVE  /\ HasRevision(r.artifact, r.artifact_revision)'
               /\ r.from = "Quarantined" => r.to = "Candidate"
               /\ Accounted(r)'
    <2> DEFINE old == artifacts[q.artifact][q.artifact_revision]
    <2>1. /\ r.artifact = q.artifact
          /\ r.artifact_revision = q.artifact_revision
          /\ r.from = old.stage /\ r.to = q.to
          /\ r.stage_generation = old.stage_generation
      BY <1>4 DEF ReservationFor, PlanFor
    <2>2. artifacts' = artifacts /\ HasRevision(q.artifact, q.artifact_revision)
      BY <1>4 DEF evaluate, EvaluatePlanned, KnownRevision
    <2>3. EvaluateGates(q) = "PromotionEligible"
      BY <1>4 DEF EvaluatePlanned, Verdict
    <2>4. r.from = "Quarantined" => r.to = "Candidate"
      <3>1. PICK i \in DOMAIN policy.rules :
               policy.rules[i].from = old.stage /\ policy.rules[i].to = q.to
        BY <2>3, EligibleRule
      <3> QED  BY <1>2, <2>1, <3>1 DEF QuarantineIsLeftForCandidate
    <2>5. ReservationAccounts(r)'
      BY <2>1, <2>2 DEF ReservationAccounts, HasRevision
    <2> QED  BY <2>1, <2>2, <2>4, <2>5 DEF Accounted, HasRevision
  <1>5. \A r \in pending' :
           \/ r \in pending
           \/ \E q \in Requests : /\ evaluate(q) /\ EvaluatePlanned(q)
                                  /\ r = ReservationFor(PlanFor(q))
    <2>1. ASSUME NEW q \in Requests, EvaluatePlanned(q), NEW r \in pending'
          PROVE  r \in pending \/ r = ReservationFor(PlanFor(q))
      BY <2>1 DEF EvaluatePlanned, Release
    <2> QED  BY <2>1, PendingSteps
  <1> QED  BY <1>1, <1>3, <1>4, <1>5 DEF ReservationInvariant

\* Nothing is reserved at the start, and one step keeps the reservations
\* accounted for.
LEMMA ReservationsAreSound ==
    ASSUME OrderlyPolicies PROVE Spec => []ReservationInvariant
  <1>1. Init => ReservationInvariant
    BY DEF Init, ReservationInvariant, ReservationsMatchPlans
  <1>2. TypeOK /\ PlanInvariant /\ ValidPolicy(policy) /\ ReservationInvariant
           /\ [Next]_vars => ReservationInvariant'
    BY ReservationStep
  <1> QED  BY <1>1, <1>2, StateIsSound, PolicyIsValid, PTL DEF Spec

\* Under orderly policies reservations and artifact state account exactly, but
\* for the two operations that move an artifact and keep a reservation on it
\* (engine.cpp 674-692, 300-317, trust.cpp 177-181).
THEOREM ReservationsAreAccounted ==
    ASSUME OrderlyPolicies PROVE Spec => []ReservationsAccount
  <1>1. ReservationInvariant => ReservationsAccount
    BY DEF ReservationInvariant, Accounted, ReservationsAccount
  <1> QED  BY <1>1, ReservationsAreSound, PTL

\* Under orderly policies a transition starts from the stage, and the
\* generation of that stage, its plan was made for, although commit() compares
\* neither with the plan: a reservation that survives a move is on a revision
\* no rule leads on from to the target (promotion.cpp 356-394, engine.cpp
\* 313-317, trust.cpp 84-90).
THEOREM TransitionsStartAsPlanned ==
    ASSUME OrderlyPolicies PROVE Spec => CommitsFromPlannedStage
  <1> DEFINE AsPlanned == \A r \in NewCommits : \A p \in plans :
                p.id = r.plan =>
                   /\ r.from = p.from
                   /\ artifacts[p.artifact][p.artifact_revision].stage_generation
                         = p.stage_generation
  <1>1. ASSUME TypeOK, PlanInvariant, ValidPolicy(policy),
               ReservationInvariant, [Next]_vars
        PROVE  AsPlanned
    <2> SUFFICES ASSUME NEW r \in NewCommits, NEW p \in plans, p.id = r.plan
                 PROVE  /\ r.from = p.from
                        /\ artifacts[p.artifact][p.artifact_revision].stage_generation
                              = p.stage_generation
      OBVIOUS
    <2> DEFINE artifact == artifacts[p.artifact][p.artifact_revision]
    <2>1. PICK c \in plans : /\ CommitTransition(c)
                             /\ r.plan = c.id
                             /\ r.from = artifacts[c.artifact][c.artifact_revision].stage
      BY <1>1, NewCommitMade
    <2>2. c = p
      BY <1>1, <2>1 DEF PlanInvariant, PlansAreFresh
    <2>3. PICK s \in pending : s.plan = p.id
      BY <2>1, <2>2 DEF CommitTransition, ReservationHeld
    <2>4. /\ s.artifact = p.artifact /\ s.from = p.from /\ s.to = p.to
          /\ s.artifact_revision = p.artifact_revision
          /\ s.stage_generation = p.stage_generation
      <3>1. s = ReservationFor(p)
        BY <1>1, <2>3 DEF ReservationInvariant, ReservationsMatchPlans
      <3> QED  BY <3>1 DEF ReservationFor
    <2>5. PICK i \in DOMAIN policy.rules : /\ policy.rules[i].from = artifact.stage
                                           /\ policy.rules[i].to = p.to
                                           /\ artifact.stage # p.to
      BY <1>1, <2>1, <2>2, CommitRule
    <2>6. EndsAreFinal(policy)
      BY <1>1 DEF TypeOK, OrderlyPolicies
    <2>7. artifact.stage \notin Ends
      BY <2>5, <2>6 DEF EndsAreFinal
    <2>8. /\ Accounted(s)
          /\ s.from = "Quarantined" => s.to = "Candidate"
      BY <1>1 DEF ReservationInvariant
    <2>9. ReservationAccounts(s)
      BY <2>4, <2>5, <2>7, <2>8 DEF Accounted
    <2> QED  BY <2>1, <2>2, <2>4, <2>9 DEF ReservationAccounts
  <1>2. TypeOK /\ PlanInvariant /\ ValidPolicy(policy) /\ ReservationInvariant
           /\ [Next]_vars => [AsPlanned]_vars
    BY <1>1
  <1> QED  BY <1>2, StateIsSound, PolicyIsValid, ReservationsAreSound, PTL
           DEF Spec, CommitsFromPlannedStage
=============================================================================
