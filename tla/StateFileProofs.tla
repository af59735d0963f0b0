--------------------------- MODULE StateFileProofs ---------------------------
(***************************************************************************)
(* The state file is sound: what write_x wrote of a record of the state,   *)
(* read_x accepts and gives back, and so the file of a whole state loads   *)
(* and gives that state back, unless the state holds a decision that       *)
(* cannot be read or is beyond a limit of the reader.                      *)
(***************************************************************************)
EXTENDS StateFile, EngineBoundsProofs

-----------------------------------------------------------------------------
(* Enumerators.                                                            *)

\* The byte of an enumerator is its place in the list.
LEMMA ByteOfKnown ==
    ASSUME NEW list, DOMAIN list \subseteq Nat \ {0}, NEW i \in DOMAIN list
    PROVE  /\ Byte(list, list[i]) \in DOMAIN list
           /\ Byte(list, list[i]) # 0
           /\ list[Byte(list, list[i])] = list[i]
  <1> DEFINE found == {j \in DOMAIN list : list[j] = list[i]}
  <1>1. found # {} /\ found \subseteq Nat
    OBVIOUS
  <1>2. Byte(list, list[i]) = Min(found)
    BY <1>1 DEF Byte
  <1>3. Min(found) \in found
    BY <1>1, MinOfSet
  <1> QED  BY <1>2, <1>3

\* A value that is not in the list has none.
LEMMA ByteOfUnknown ==
    ASSUME NEW list, NEW value, \A i \in DOMAIN list : list[i] # value
    PROVE  Byte(list, value) = 0
  BY DEF Byte

\* What the byte of a member of an enumeration gives back.
HasByte(list, value) ==
    /\ Known(list, Byte(list, value))
    /\ Byte(list, value) # 0
    /\ list[Byte(list, value)] = value

\* Every stage is in the list of stages.
LEMMA StageBytes ==
    /\ \A s \in Stage : HasByte(StageList, s)
    /\ Byte(StageList, "Invalid") = 0
  <1>1. Len(StageList) = 10 /\ DOMAIN StageList = 1 .. 10
    BY DEF StageList
  <1>2. \A s \in Stage : \E i \in 1 .. 10 : StageList[i] = s
    BY DEF StageList, Stage
  <1>3. \A i \in 1 .. 10 : StageList[i] # "Invalid"
    BY DEF StageList
  <1> QED  BY <1>1, <1>2, <1>3, ByteOfKnown, ByteOfUnknown DEF HasByte, Known

\* Every class of artifacts is in the list of classes.
LEMMA KindBytes ==
    /\ \A k \in ArtifactKind : HasByte(KindList, k)
    /\ Byte(KindList, "Invalid") = 0
  <1>1. Len(KindList) = 11 /\ DOMAIN KindList = 1 .. 11
    BY DEF KindList
  <1>2. \A k \in ArtifactKind : \E i \in 1 .. 11 : KindList[i] = k
    BY DEF KindList, ArtifactKind
  <1>3. \A i \in 1 .. 11 : KindList[i] # "Invalid"
    BY DEF KindList
  <1> QED  BY <1>1, <1>2, <1>3, ByteOfKnown, ByteOfUnknown DEF HasByte, Known

\* Every outcome of the engine is in the list of outcomes.
LEMMA OutcomeBytes ==
    \A o \in Outcome : HasByte(OutcomeList, o)
  <1>1. Len(OutcomeList) = 29 /\ DOMAIN OutcomeList = 1 .. 29
    BY DEF OutcomeList
  <1>2. \A o \in Outcome : \E i \in 1 .. 29 : OutcomeList[i] = o
    BY DEF OutcomeList, Outcome
  <1>3. SUFFICES ASSUME NEW o \in Outcome PROVE HasByte(OutcomeList, o)
    OBVIOUS
  <1>4. PICK i \in DOMAIN OutcomeList : OutcomeList[i] = o
    BY <1>1, <1>2
  <1>5. DOMAIN OutcomeList \subseteq Nat \ {0}
    BY <1>1
  <1> QED  BY <1>4, <1>5, ByteOfKnown DEF HasByte, Known

\* Whatever is in a list has a byte.
LEMMA RangeBytes ==
    ASSUME NEW list, DOMAIN list \subseteq Nat \ {0}, NEW value \in Range(list)
    PROVE  HasByte(list, value)
  <1>1. PICK i \in DOMAIN list : list[i] = value
    BY DEF Range
  <1> QED  BY <1>1, ByteOfKnown DEF HasByte, Known

\* The types of evidence.
LEMMA EvidenceTypeBytes ==
    /\ \A t \in Range(EvidenceTypeList) : HasByte(EvidenceTypeList, t)
    /\ Byte(EvidenceTypeList, "Invalid") = 0
  <1>1. DOMAIN EvidenceTypeList = (1 .. 18) \cup {63}
    BY DEF EvidenceTypeList
  <1>2. \A i \in 1 .. 18 : NamedTypes[i] # "Invalid"
    BY DEF NamedTypes
  <1>3. \A i \in DOMAIN EvidenceTypeList : EvidenceTypeList[i] # "Invalid"
    BY <1>2 DEF EvidenceTypeList
  <1>4. DOMAIN EvidenceTypeList \subseteq Nat \ {0}
    BY <1>1
  <1> QED  BY <1>3, <1>4, RangeBytes, ByteOfUnknown

\* An enumerator whose zero can be read.
ReadOrZero(list, value, zero) ==
    /\ KnownOrZero(list, Byte(list, value))
    /\ Enumerator(list, Byte(list, value), zero) = value

\* A member of the list, or its zero.
LEMMA ZeroBytes ==
    ASSUME NEW list, DOMAIN list \subseteq Nat \ {0},
           NEW zero, zero \notin Range(list), NEW value \in Range(list) \cup {zero}
    PROVE  ReadOrZero(list, value, zero)
  <1>1. CASE value \in Range(list)
    BY <1>1, RangeBytes DEF HasByte, ReadOrZero, KnownOrZero, Enumerator
  <1>2. CASE value = zero
    <2>1. Byte(list, value) = 0
      BY <1>2, ByteOfUnknown DEF Range
    <2> QED  BY <1>2, <2>1 DEF ReadOrZero, KnownOrZero, Enumerator
  <1> QED  BY <1>1, <1>2

\* The results of evidence and the resolutions of provenance.
LEMMA ResultBytes ==
    /\ \A r \in Range(ResultList) \cup {"Unknown"} :
          ReadOrZero(ResultList, r, "Unknown")
    /\ \A r \in Range(ResolutionList) \cup {"Unknown"} :
          ReadOrZero(ResolutionList, r, "Unknown")
  <1>1. /\ DOMAIN ResultList \subseteq Nat \ {0}
        /\ "Unknown" \notin Range(ResultList)
    BY DEF ResultList, Range
  <1>2. /\ DOMAIN ResolutionList \subseteq Nat \ {0}
        /\ "Unknown" \notin Range(ResolutionList)
    BY DEF ResolutionList, Range
  <1> QED  BY <1>1, <1>2, ZeroBytes

\* The kinds of gates.
LEMMA GateKindBytes ==
    \A k \in SimpleKinds \cup {"EvidenceRequired", "EvidenceFreshness",
                 "CompatibilityGenerationCurrent", "EnvironmentBinding",
                 "ProvenanceRequired", "ApprovalRequired"} :
        HasByte(GateKindList, k)
  <1>1. Len(GateKindList) = 18 /\ DOMAIN GateKindList = 1 .. 18
    BY DEF GateKindList
  <1>2. \A k \in SimpleKinds : \E i \in 1 .. 18 : GateKindList[i] = k
    BY DEF GateKindList, SimpleKinds
  <1>3. \A k \in {"EvidenceRequired", "EvidenceFreshness",
                  "CompatibilityGenerationCurrent", "EnvironmentBinding",
                  "ProvenanceRequired", "ApprovalRequired"} :
           \E i \in 1 .. 18 : GateKindList[i] = k
    BY DEF GateKindList
  <1>4. SUFFICES ASSUME NEW i \in DOMAIN GateKindList
                 PROVE  HasByte(GateKindList, GateKindList[i])
    BY <1>1, <1>2, <1>3
  <1>5. DOMAIN GateKindList \subseteq Nat \ {0}
    BY <1>1
  <1> QED  BY <1>5, ByteOfKnown DEF HasByte, Known

-----------------------------------------------------------------------------
(* Records one by one.  A reader takes what its writer wrote.              *)

\* Plans.
LEMMA PlanRoundTrip ==
    ASSUME NEW p \in PromotionPlan,
           p.id # 0, p.decision # 0, p.artifact_revision # 0, p.stage_generation # 0,
           p.epoch # 0
    PROVE  plan_readable(write_plan(p)) /\ read_plan(write_plan(p)) = p
  <1>1. HasByte(StageList, p.from) /\ HasByte(StageList, p.to)
    BY StageBytes DEF PromotionPlan
  <1> DEFINE f == write_plan(p)
  <1>2. /\ f[1] = p.id /\ f[2] = p.request /\ f[3] = p.attempt /\ f[4] = p.decision
        /\ f[5] = p.artifact /\ f[6] = p.artifact_revision
        /\ f[7] = Byte(StageList, p.from) /\ f[8] = Byte(StageList, p.to)
        /\ f[9] = p.stage_generation /\ f[10] = p.policy /\ f[11] = p.epoch
        /\ f[12] = p.snapshot /\ f[13] = p.compatibility /\ f[14] = p.expires
    BY DEF write_plan
  <1> HIDE DEF f
  <1>3. plan_readable(f)
    BY <1>1, <1>2 DEF plan_readable, HasByte
  <1>4. read_plan(f) = p
    BY <1>1, <1>2 DEF read_plan, HasByte, PromotionPlan
  <1> QED  BY <1>3, <1>4 DEF f

\* Promotion records and idempotency records.
LEMMA RecordRoundTrip ==
    /\ \A r \in PromotionRecord :
          /\ promotion_record_readable(write_promotion_record(r))
          /\ read_promotion_record(write_promotion_record(r)) = r
    /\ \A i \in IdempotencyRecord :
          /\ idempotency_readable(write_idempotency(i))
          /\ read_idempotency(write_idempotency(i)) = i
  <1>1. ASSUME NEW r \in PromotionRecord
        PROVE  /\ promotion_record_readable(write_promotion_record(r))
               /\ read_promotion_record(write_promotion_record(r)) = r
    <2>1. HasByte(StageList, r.from) /\ HasByte(StageList, r.to)
      BY StageBytes DEF PromotionRecord
    <2> DEFINE f == write_promotion_record(r)
    <2>2. /\ f[1] = r.id /\ f[2] = r.artifact /\ f[3] = r.artifact_revision
          /\ f[4] = Byte(StageList, r.from) /\ f[5] = Byte(StageList, r.to)
          /\ f[6] = r.decision /\ f[7] = r.plan /\ f[8] = r.request
          /\ f[9] = r.policy_generation /\ f[10] = r.epoch
      BY DEF write_promotion_record
    <2> HIDE DEF f
    <2>3. promotion_record_readable(f)
      BY <2>1, <2>2 DEF promotion_record_readable, HasByte
    <2>4. read_promotion_record(f) = r
      BY <2>1, <2>2 DEF read_promotion_record, HasByte, PromotionRecord
    <2> QED  BY <2>3, <2>4 DEF f
  <1>2. ASSUME NEW i \in IdempotencyRecord
        PROVE  /\ idempotency_readable(write_idempotency(i))
               /\ read_idempotency(write_idempotency(i)) = i
    <2>1. HasByte(OutcomeList, i.outcome)
      BY OutcomeBytes DEF IdempotencyRecord
    <2> QED  BY <2>1 DEF idempotency_readable, read_idempotency, write_idempotency,
                         HasByte, IdempotencyRecord
  <1> QED  BY <1>1, <1>2

\* What an explanation is like, and when it can be read.
Explanation ==
    [kind : ArtifactKind \cup {"Invalid"}, from : Stage \cup {"Invalid"},
     to : Stage, gates : Nat, reasons : Nat]

ReadableExplanation(x) ==
    /\ x.kind # "Invalid" /\ x.from # "Invalid"
    /\ x.gates <= kMaxDecisionGates /\ x.reasons <= kMaxDecisionReasons

\* Decisions and their explanations.
LEMMA DecisionRoundTrip ==
    ASSUME NEW d \in PromotionDecision, NEW x \in Explanation
    PROVE  /\ decision_readable(write_decision(d, x)) <=> ReadableExplanation(x)
           /\ read_decision(write_decision(d, x)) = d
           /\ read_explanation(write_decision(d, x)) = x
  <1>1. HasByte(OutcomeList, d.outcome) /\ HasByte(StageList, x.to)
    BY OutcomeBytes, StageBytes DEF PromotionDecision, Explanation
  <1>2. IF x.kind = "Invalid" THEN Byte(KindList, x.kind) = 0
        ELSE HasByte(KindList, x.kind)
    BY KindBytes DEF Explanation
  <1>3. IF x.from = "Invalid" THEN Byte(StageList, x.from) = 0
        ELSE HasByte(StageList, x.from)
    BY StageBytes DEF Explanation
  <1>4. ~Known(KindList, 0) /\ ~Known(StageList, 0)
    BY DEF Known, KindList, StageList
  <1> DEFINE f == write_decision(d, x)
  <1>5. /\ f[1] = d.request /\ f[2] = Byte(KindList, x.kind)
        /\ f[3] = Byte(StageList, x.from) /\ f[4] = Byte(StageList, x.to)
        /\ f[5] = Byte(OutcomeList, d.outcome) /\ f[6] = d.plan
        /\ f[7] = x.gates /\ f[8] = x.reasons
    BY DEF write_decision
  <1> HIDE DEF f
  <1>6. decision_readable(f) <=> ReadableExplanation(x)
    BY <1>1, <1>2, <1>3, <1>4, <1>5
       DEF decision_readable, ReadableExplanation, HasByte
  <1>7. read_decision(f) = d
    BY <1>1, <1>5 DEF read_decision, HasByte, PromotionDecision
  <1>8. read_explanation(f) = x
    BY <1>1, <1>2, <1>3, <1>5 DEF read_explanation, HasByte, Enumerator, Explanation
  <1> QED  BY <1>6, <1>7, <1>8 DEF f

\* Evidence, sealed with its digest.
LEMMA EvidenceRoundTrip ==
    ASSUME NEW e \in Nat \ {0}, NEW record \in EvidenceRecord,
           record.generation # 0, record.submission.subject_revision # 0
    PROVE  LET f == write_evidence(e, record, compute_evidence_integrity(e, record))
           IN  /\ evidence_readable(f)
               /\ read_evidence(f) = record
               /\ f[9] = compute_evidence_integrity(e, record)
  <1> DEFINE s == record.submission
             seal == compute_evidence_integrity(e, record)
             f == write_evidence(e, record, seal)
  <1>1. s \in Submissions /\ ValidSubmission(s)
    BY RecordsAssumption DEF EvidenceRecord
  <1>2. HasByte(EvidenceTypeList, s.type) /\ ReadOrZero(ResultList, s.result, "Unknown")
    BY <1>1, EvidenceTypeBytes, ResultBytes DEF ValidSubmission
  <1>3. /\ f[1] = e /\ f[2] = Byte(EvidenceTypeList, s.type)
        /\ f[3] = record.generation /\ f[4] = s.subject /\ f[5] = s.subject_digest
        /\ f[6] = s.subject_revision /\ f[7] = s.producer
        /\ f[8] = Byte(ResultList, s.result) /\ f[9] = seal
        /\ f[10] = s.produced /\ f[11] = s.has_window /\ f[12] = s.valid_from
        /\ f[13] = s.valid_until /\ f[14] = s.environment
        /\ f[15] = record.revoked /\ f[16] = record.superseded
    BY DEF write_evidence
  <1> HIDE DEF f, s
  <1>4. read_evidence(f).submission = s
    BY <1>1, <1>2, <1>3
       DEF read_evidence, ValidSubmission, HasByte, ReadOrZero
  <1>5. read_evidence(f) = record
    BY <1>3, <1>4 DEF read_evidence, EvidenceRecord, s
  <1>6. evidence_readable(f)
    <2>1. s.has_window => s.valid_from <= s.valid_until
      BY <1>1 DEF ValidSubmission
    <2>2. compute_evidence_integrity(f[1], read_evidence(f)) = f[9]
      BY <1>3, <1>5
    <2> HIDE DEF seal
    <2> QED  BY <1>2, <1>3, <2>1, <2>2
             DEF evidence_readable, HasByte, ReadOrZero, s
  <1> QED  BY <1>3, <1>5, <1>6 DEF f

\* A set of what is written of the members of a set is no larger.
LEMMA ImageCount ==
    ASSUME NEW S, IsFiniteSet(S), NEW f, DOMAIN f = S
    PROVE  LET T == {f[x] : x \in S}
           IN  IsFiniteSet(T) /\ Cardinality(T) \in Nat
               /\ Cardinality(S) \in Nat /\ Cardinality(T) <= Cardinality(S)
  <1> DEFINE T == {f[x] : x \in S}
             g == [x \in S |-> f[x]]
  <1>1. g \in Surjection(S, T)
    BY DEF Surjection
  <1> HIDE DEF T, g
  <1>2. IsFiniteSet(T) /\ Cardinality(T) <= Cardinality(S)
    BY <1>1, FS_Surjection
  <1>3. Cardinality(T) \in Nat /\ Cardinality(S) \in Nat
    BY <1>2, FS_CardinalityType
  <1> QED  BY <1>2, <1>3 DEF T

\* When different members are written differently, it is as large.
LEMMA WrittenCount ==
    ASSUME NEW S, IsFiniteSet(S), NEW f, DOMAIN f = S,
           \A x, y \in S : f[x] = f[y] => x = y
    PROVE  Cardinality({f[x] : x \in S}) = Cardinality(S)
  <1> DEFINE T == {f[x] : x \in S}
             g == [x \in S |-> f[x]]
  <1>1. g \in Bijection(S, T)
    <2>1. g \in Surjection(S, T)
      BY DEF Surjection
    <2>2. g \in Injection(S, T)
      BY DEF Injection, IsInjective
    <2> QED  BY <2>1, <2>2 DEF Bijection
  <1>2. ExistsBijection(S, T)
    BY <1>1 DEF ExistsBijection
  <1> HIDE DEF T
  <1>3. Cardinality(T) = Cardinality(S)
    BY <1>2, FS_Bijection
  <1> QED  BY <1>3 DEF T

\* The provenance of a registration.
LEMMA ProvenanceRoundTrip ==
    ASSUME NEW r \in Registrations
    PROVE  LET fields == {write_provenance(p) : p \in r.provenance}
           IN  /\ Cardinality(fields) <= kMaxProvenance
               /\ \A p \in fields : KnownOrZero(ResolutionList, p[2])
               /\ {read_provenance(p) : p \in fields} = r.provenance
  <1> DEFINE fields == {write_provenance(p) : p \in r.provenance}
             w == [p \in r.provenance |-> write_provenance(p)]
  <1>1. ValidRegistration(r)
    BY RecordsAssumption
  <1>2. fields = {w[p] : p \in r.provenance} /\ DOMAIN w = r.provenance
    OBVIOUS
  <1>3. IsFiniteSet(r.provenance) /\ Cardinality(r.provenance) <= kMaxProvenance
    BY <1>1 DEF ValidRegistration
  <1>4. Cardinality(fields) <= kMaxProvenance
    <2> HIDE DEF w
    <2> QED  BY <1>2, <1>3, ImageCount DEF kMaxProvenance
  <1>5. ASSUME NEW p \in r.provenance
        PROVE  /\ KnownOrZero(ResolutionList, write_provenance(p)[2])
               /\ read_provenance(write_provenance(p)) = p
    <2>1. /\ p = [reference |-> p.reference, resolution |-> p.resolution]
          /\ ReadOrZero(ResolutionList, p.resolution, "Unknown")
      BY <1>1, ResultBytes DEF ValidRegistration
    <2> QED  BY <2>1 DEF write_provenance, read_provenance, ReadOrZero
  <1>6. {read_provenance(p) : p \in fields} = r.provenance
    BY <1>5
  <1> QED  BY <1>4, <1>5, <1>6

\* Artifacts: a revision in the chain of the artifact it was registered for.
LEMMA ArtifactRoundTrip ==
    ASSUME NEW a, NEW v \in Nat \ {0}, NEW artifact \in ArtifactRecord,
           artifact.registration.id = a, artifact.stage_generation # 0
    PROVE  /\ artifact_readable(write_artifact(a, v, artifact))
           /\ read_artifact(write_artifact(a, v, artifact)) = artifact
           /\ write_artifact(a, v, artifact)[1] = a
  <1> DEFINE r == artifact.registration
             provenance == {write_provenance(p) : p \in r.provenance}
             f == write_artifact(a, v, artifact)
  <1>1. r \in Registrations /\ ValidRegistration(r)
    BY RecordsAssumption DEF ArtifactRecord
  <1>2. HasByte(KindList, r.kind) /\ HasByte(StageList, artifact.stage)
    BY <1>1, KindBytes, StageBytes DEF ValidRegistration, ArtifactRecord
  <1>3. /\ Cardinality(provenance) <= kMaxProvenance
        /\ \A p \in provenance : KnownOrZero(ResolutionList, p[2])
        /\ {read_provenance(p) : p \in provenance} = r.provenance
    BY <1>1, ProvenanceRoundTrip
  <1>4. /\ f[1] = a /\ f[2] = v /\ f[3] = Byte(KindList, r.kind)
        /\ f[4] = r.digest /\ f[5] = r.name /\ f[6] = provenance
        /\ f[7] = r.dependencies /\ f[8] = Byte(StageList, artifact.stage)
        /\ f[9] = artifact.stage_generation /\ f[10] = artifact.promoted
        /\ f[11] = artifact.promotion_decision /\ f[12] = artifact.quarantined
        /\ f[13] = artifact.revoked /\ f[14] = artifact.superseded
    BY DEF write_artifact
  <1> HIDE DEF f, provenance
  <1>5. artifact_readable(f)
    BY <1>1, <1>2, <1>3, <1>4 DEF artifact_readable, HasByte, ValidRegistration
  <1>6. read_artifact(f).registration = r
    <2>1. read_artifact(f).registration =
             [id |-> f[1], kind |-> KindList[f[3]], digest |-> f[4], name |-> f[5],
              provenance |-> {read_provenance(p) : p \in f[6]},
              dependencies |-> f[7]]
      BY DEF read_artifact
    <2>2. {read_provenance(p) : p \in f[6]} = r.provenance
      BY <1>3, <1>4
    <2>3. KindList[f[3]] = r.kind
      BY <1>2, <1>4 DEF HasByte
    <2>4. r = [id |-> r.id, kind |-> r.kind, digest |-> r.digest, name |-> r.name,
               provenance |-> r.provenance, dependencies |-> r.dependencies]
      BY <1>1 DEF ValidRegistration
    <2> QED  BY <1>4, <2>1, <2>2, <2>3, <2>4
  <1>7. read_artifact(f) = artifact
    BY <1>2, <1>4, <1>6 DEF read_artifact, ArtifactRecord, HasByte
  <1> QED  BY <1>4, <1>5, <1>7 DEF f

\* Vetoes.
LEMMA VetoRoundTrip ==
    \A veto \in VetoState : read_veto(write_veto(veto)) = veto
  BY DEF VetoState, read_veto, write_veto

\* Gates: each kind has fields of its own and zeros for the others.
LEMMA GateRoundTrip ==
    ASSUME NEW g, MadeGate(g), ValidGate(g)
    PROVE  gate_readable(write_gate(g)) /\ read_gate(write_gate(g)) = g
  <1> DEFINE f == write_gate(g)
             type == Enumerator(EvidenceTypeList, f[2], "Invalid")
             Typed == {"EvidenceRequired", "EvidenceFreshness",
                       "EnvironmentBinding", "ApprovalRequired"}
  <1>1. /\ f[1] = Byte(GateKindList, g.kind)
        /\ f[2] = Byte(EvidenceTypeList, GateField(g, "type", "Invalid"))
        /\ f[3] = GateField(g, "maxAge", 0) /\ f[4] = GateField(g, "generation", 0)
        /\ f[5] = GateField(g, "environment", "")
        /\ f[6] = GateField(g, "reference", "")
    BY DEF write_gate
  <1>2. HasByte(GateKindList, g.kind)
    BY GateKindBytes DEF MadeGate
  <1>3. Known(GateKindList, f[1]) /\ GateKindList[f[1]] = g.kind
    BY <1>1, <1>2 DEF HasByte
  <1> HIDE DEF f
  <1>4. CASE g.kind \in SimpleKinds
    <2>1. g = SimpleGate(g.kind)
      BY <1>4 DEF MadeGate, SimpleKinds
    <2>2. DOMAIN g = {"kind"}
      BY <2>1 DEF SimpleGate
    <2>3. f[2] = 0
      BY <1>1, <2>2, EvidenceTypeBytes DEF GateField
    <2>4. read_gate(f) = g
      BY <1>3, <1>4, <2>1 DEF read_gate, SimpleKinds
    <2> QED  BY <1>3, <2>3, <2>4 DEF gate_readable, KnownOrZero, f
  <1>5. CASE g.kind = "ProvenanceRequired"
    <2>1. g = ProvenanceGate(g.reference)
      BY <1>5 DEF MadeGate, SimpleKinds
    <2>2. DOMAIN g = {"kind", "reference"}
      BY <2>1 DEF ProvenanceGate
    <2>3. f[2] = 0 /\ f[6] = g.reference
      BY <1>1, <2>2, EvidenceTypeBytes DEF GateField
    <2>4. read_gate(f) = g
      BY <1>3, <1>5, <2>1, <2>3 DEF read_gate
    <2> QED  BY <1>3, <2>3, <2>4 DEF gate_readable, KnownOrZero, f
  <1>6. CASE g.kind = "CompatibilityGenerationCurrent"
    <2>1. g = CompatibilityGate(g.generation)
      BY <1>6 DEF MadeGate, SimpleKinds
    <2>2. DOMAIN g = {"kind", "generation"}
      BY <2>1 DEF CompatibilityGate
    <2>3. f[2] = 0 /\ f[4] = g.generation
      BY <1>1, <2>2, EvidenceTypeBytes DEF GateField
    <2>4. read_gate(f) = g
      BY <1>3, <1>6, <2>1, <2>3 DEF read_gate
    <2> QED  BY <1>3, <2>3, <2>4 DEF gate_readable, KnownOrZero, f
  <1>7. CASE g.kind \in Typed
    <2>1. /\ g.type \in Range(EvidenceTypeList)
          /\ CASE g.kind = "EvidenceRequired" -> g = EvidenceGate(g.type)
               [] g.kind = "EvidenceFreshness" -> g = FreshnessGate(g.type, g.maxAge)
               [] g.kind = "EnvironmentBinding" ->
                     g = EnvironmentGate(g.type, g.environment)
               [] g.kind = "ApprovalRequired" -> g = ApprovalGate(g.type)
      BY <1>7 DEF MadeGate, SimpleKinds
    <2>2. /\ "type" \in DOMAIN g
          /\ g.kind = "EvidenceFreshness" => "maxAge" \in DOMAIN g
          /\ g.kind = "EnvironmentBinding" => "environment" \in DOMAIN g
      <3>1. CASE g.kind = "EvidenceRequired"
        <4>1. g = EvidenceGate(g.type)
          BY <2>1, <3>1
        <4>2. DOMAIN g = {"kind", "type"}
          BY <4>1 DEF EvidenceGate
        <4> QED  BY <3>1, <4>2
      <3>2. CASE g.kind = "EvidenceFreshness"
        <4>1. g = FreshnessGate(g.type, g.maxAge)
          BY <2>1, <3>2
        <4>2. DOMAIN g = {"kind", "type", "maxAge"}
          BY <4>1 DEF FreshnessGate
        <4> QED  BY <3>2, <4>2
      <3>3. CASE g.kind = "EnvironmentBinding"
        <4>1. g = EnvironmentGate(g.type, g.environment)
          BY <2>1, <3>3
        <4>2. DOMAIN g = {"kind", "type", "environment"}
          BY <4>1 DEF EnvironmentGate
        <4> QED  BY <3>3, <4>2
      <3>4. CASE g.kind = "ApprovalRequired"
        <4>1. g = ApprovalGate(g.type)
          BY <2>1, <3>4
        <4>2. DOMAIN g = {"kind", "type"}
          BY <4>1 DEF ApprovalGate
        <4> QED  BY <3>4, <4>2
      <3> QED  BY <1>7, <3>1, <3>2, <3>3, <3>4
    <2>3. HasByte(EvidenceTypeList, g.type)
      BY <2>1, EvidenceTypeBytes
    <2>4. /\ f[2] = Byte(EvidenceTypeList, g.type)
          /\ g.kind = "EvidenceFreshness" => f[3] = g.maxAge
          /\ g.kind = "EnvironmentBinding" => f[5] = g.environment
      BY <1>1, <2>2 DEF GateField
    <2>5. type = g.type /\ Known(EvidenceTypeList, f[2])
      BY <2>3, <2>4 DEF HasByte, Enumerator
    <2>6. read_gate(f) = g
      <3> HIDE DEF type
      <3>1. read_gate(f) =
               CASE g.kind = "EvidenceRequired" -> EvidenceGate(type)
                 [] g.kind = "EvidenceFreshness" -> FreshnessGate(type, f[3])
                 [] g.kind = "EnvironmentBinding" -> EnvironmentGate(type, f[5])
                 [] g.kind = "ApprovalRequired" -> ApprovalGate(type)
        BY <1>3, <1>7 DEF read_gate, type
      <3> QED  BY <1>7, <2>1, <2>4, <2>5, <3>1
    <2> QED  BY <1>3, <2>5, <2>6 DEF gate_readable, KnownOrZero, f
  <1> QED  BY <1>4, <1>5, <1>6, <1>7 DEF MadeGate

\* Rules: of one class, or of all of them.
LEMMA RuleRoundTrip ==
    ASSUME NEW rule, BoundedRule(rule), rule.gates \in Seq(Range(rule.gates)),
           Len(rule.gates) <= kMaxRuleGates,
           \A g \in DOMAIN rule.gates : ValidGate(rule.gates[g])
    PROVE  rule_readable(write_rule(rule)) /\ read_rule(write_rule(rule)) = rule
  <1> DEFINE f == write_rule(rule)
             gates == [g \in DOMAIN rule.gates |-> write_gate(rule.gates[g])]
  <1>1. /\ f[1] = HasKindScope(rule)
        /\ f[2] = IF HasKindScope(rule)
                  THEN Byte(KindList, CHOOSE k \in rule.kinds : TRUE) ELSE 0
        /\ f[3] = Byte(StageList, rule.from) /\ f[4] = Byte(StageList, rule.to)
        /\ f[5] = rule.rollback /\ f[6] = gates
    BY DEF write_rule
  <1>2. HasByte(StageList, rule.from) /\ HasByte(StageList, rule.to)
    BY StageBytes DEF BoundedRule
  <1>3. \A g \in DOMAIN rule.gates : /\ gate_readable(gates[g])
                                     /\ read_gate(gates[g]) = rule.gates[g]
    BY GateRoundTrip DEF BoundedRule
  <1>4. DOMAIN gates = DOMAIN rule.gates /\ Len(gates) = Len(rule.gates)
    OBVIOUS
  <1> HIDE DEF f, gates
  <1>5. [g \in DOMAIN gates |-> read_gate(gates[g])] = rule.gates
    <2>1. rule.gates = [g \in DOMAIN rule.gates |-> rule.gates[g]]
      OBVIOUS
    <2> QED  BY <1>3, <1>4, <2>1
  <1>6. /\ KnownOrZero(KindList, f[2]) /\ (f[1] <=> f[2] # 0)
        /\ (IF f[1] THEN {KindList[f[2]]} ELSE ArtifactKind) = rule.kinds
    <2>1. CASE rule.kinds = ArtifactKind
      BY <1>1, <2>1 DEF HasKindScope, KnownOrZero
    <2>2. CASE rule.kinds # ArtifactKind
      <3>1. PICK kind \in ArtifactKind : rule.kinds = {kind}
        BY <2>2 DEF BoundedRule
      <3>2. (CHOOSE k \in rule.kinds : TRUE) = kind
        BY <3>1
      <3>3. f[1] = TRUE /\ f[2] = Byte(KindList, kind)
        BY <1>1, <2>2, <3>2 DEF HasKindScope
      <3>4. HasByte(KindList, kind)
        BY KindBytes
      <3> QED  BY <3>1, <3>3, <3>4 DEF HasByte, KnownOrZero
    <2> QED  BY <2>1, <2>2
  <1>7. rule_readable(f)
    BY <1>1, <1>2, <1>3, <1>4, <1>6 DEF rule_readable, HasByte, BoundedRule
  <1>8. read_rule(f) = rule
    <2>1. rule = [kinds |-> rule.kinds, from |-> rule.from, to |-> rule.to,
                  gates |-> rule.gates, rollback |-> rule.rollback]
      BY DEF BoundedRule
    <2>2. read_rule(f).gates = rule.gates
      BY <1>1, <1>5 DEF read_rule
    <2> QED  BY <1>1, <1>2, <1>6, <2>1, <2>2 DEF read_rule, HasByte
  <1> QED  BY <1>7, <1>8 DEF f

\* Lifecycle graphs.
LEMMA GraphRoundTrip ==
    ASSUME NEW p \in Policies, ValidPolicy(p)
    PROVE  /\ lifecycle_graph_readable(write_lifecycle_graph(p.graph))
           /\ read_lifecycle_graph(write_lifecycle_graph(p.graph)) = p.graph
  <1> DEFINE graph == p.graph
             w == [e \in graph |-> <<Byte(StageList, e[1]), Byte(StageList, e[2])>>]
             fields == write_lifecycle_graph(graph)
  <1>1. /\ graph \subseteq Stage \X Stage /\ IsFiniteSet(graph)
        /\ Cardinality(graph) <= kMaxGraphEdges
        /\ \A e \in graph : e[1] # e[2]
    BY RecordsAssumption DEF BoundedPolicy, ValidPolicy, Validate, kMaxEdges,
                             kMaxGraphEdges
  <1>2. fields = {w[e] : e \in graph} /\ DOMAIN w = graph
    BY DEF write_lifecycle_graph
  <1> HIDE DEF graph, fields
  <1>3. Cardinality(fields) <= kMaxGraphEdges
    <2> HIDE DEF w
    <2>1. /\ Cardinality(fields) \in Nat /\ Cardinality(graph) \in Nat
          /\ Cardinality(fields) <= Cardinality(graph)
      BY <1>1, <1>2, ImageCount
    <2> QED  BY <1>1, <2>1 DEF kMaxGraphEdges
  <1>4. ASSUME NEW e \in graph
        PROVE  /\ Known(StageList, w[e][1]) /\ Known(StageList, w[e][2])
               /\ w[e][1] # w[e][2]
               /\ <<StageList[w[e][1]], StageList[w[e][2]]>> = e
    <2>1. HasByte(StageList, e[1]) /\ HasByte(StageList, e[2])
      BY <1>1, StageBytes
    <2>2. e = <<e[1], e[2]>>
      BY <1>1
    <2>3. w[e] = <<Byte(StageList, e[1]), Byte(StageList, e[2])>>
      OBVIOUS
    <2> QED  BY <1>1, <2>1, <2>2, <2>3 DEF HasByte
  <1> HIDE DEF w
  <1>5. lifecycle_graph_readable(fields)
    BY <1>2, <1>3, <1>4 DEF lifecycle_graph_readable
  <1>6. read_lifecycle_graph(fields) = graph
    BY <1>2, <1>4 DEF read_lifecycle_graph
  <1> QED  BY <1>5, <1>6 DEF fields, graph

\* Policies that validate() accepted.
LEMMA PolicyRoundTrip ==
    ASSUME NEW p \in Policies, ValidPolicy(p)
    PROVE  policy_readable(write_policy(p)) /\ read_policy(write_policy(p)) = p
  <1> DEFINE f == write_policy(p)
             rules == [r \in DOMAIN p.rules |-> write_rule(p.rules[r])]
  <1>1. BoundedPolicy(p) /\ p.entry \in Stage
    BY RecordsAssumption, PoliciesAssumption
  <1>2. /\ f[1] = p.id /\ f[2] = p.generation /\ f[3] = Byte(StageList, p.entry)
        /\ f[4] = write_lifecycle_graph(p.graph) /\ f[5] = rules
    BY DEF write_policy
  <1>3. HasByte(StageList, p.entry)
    BY <1>1, StageBytes
  <1>4. \A r \in DOMAIN p.rules : /\ rule_readable(rules[r])
                                  /\ read_rule(rules[r]) = p.rules[r]
    <2> SUFFICES ASSUME NEW r \in DOMAIN p.rules
                 PROVE  /\ rule_readable(write_rule(p.rules[r]))
                        /\ read_rule(write_rule(p.rules[r])) = p.rules[r]
      OBVIOUS
    <2>1. BoundedRule(p.rules[r])
      BY <1>1 DEF BoundedPolicy
    <2>2. p.rules[r].gates \in Seq(Range(p.rules[r].gates))
      BY PoliciesAssumption
    <2>3. /\ \A g \in DOMAIN p.rules[r].gates : ValidGate(p.rules[r].gates[g])
          /\ Len(p.rules[r].gates) <= kMaxRuleGates
      BY DEF ValidPolicy, kMaxGates, kMaxRuleGates
    <2> QED  BY <2>1, <2>2, <2>3, RuleRoundTrip
  <1>5. p.rules \in Seq(Range(p.rules))
    BY PoliciesAssumption
  <1>6. DOMAIN rules = DOMAIN p.rules /\ Len(rules) = Len(p.rules)
    BY <1>5
  <1> HIDE DEF f, rules
  <1>7. [r \in DOMAIN rules |-> read_rule(rules[r])] = p.rules
    <2>1. p.rules = [r \in DOMAIN p.rules |-> p.rules[r]]
      BY <1>5
    <2> QED  BY <1>4, <1>6, <2>1
  <1>8. policy_readable(f)
    <2>1. Len(p.rules) <= kMaxPolicyRules
      <3>1. Len(p.rules) \in 1 .. kMaxRules
        BY DEF ValidPolicy
      <3>2. \A n \in 1 .. kMaxRules : n <= kMaxPolicyRules
        BY DEF kMaxRules, kMaxPolicyRules
      <3> QED  BY <3>1, <3>2
    <2> QED  BY <1>2, <1>3, <1>4, <1>6, <2>1, GraphRoundTrip
             DEF policy_readable, HasByte
  <1>9. read_policy(f) = p
    <2>1. p = [id |-> p.id, generation |-> p.generation, entry |-> p.entry,
               graph |-> p.graph, rules |-> p.rules]
      BY <1>1 DEF BoundedPolicy
    <2>2. read_policy(f).rules = p.rules
      BY <1>2, <1>7 DEF read_policy
    <2> QED  BY <1>2, <1>3, <2>1, <2>2, GraphRoundTrip DEF read_policy, HasByte
  <1> QED  BY <1>8, <1>9 DEF f

-----------------------------------------------------------------------------
(* The sections of a file.                                                 *)

\* The body of a section that is there once.
LEMMA BodyOfSection ==
    ASSUME NEW payload, NEW i \in DOMAIN payload,
           \A j \in DOMAIN payload : payload[j].kind = payload[i].kind => j = i
    PROVE  Body(payload, payload[i].kind) = payload[i].body
  <1>1. (CHOOSE j \in DOMAIN payload : payload[j].kind = payload[i].kind) = i
    OBVIOUS
  <1> QED  BY <1>1 DEF Body

\* The sections a coordinator writes, in their order.
SectionKinds ==
    <<"Header", "Policy", "Artifacts", "Evidence", "Plans", "Decisions",
      "Records", "Idempotency", "History", "Vetoes", "Generators">>

\* No two are of one kind.
LEMMA SectionsDiffer ==
    /\ DOMAIN SectionKinds = 1 .. 11
    /\ \A i, j \in 1 .. 11 : SectionKinds[i] = SectionKinds[j] => i = j
    /\ \A k \in Section : \E i \in 1 .. 11 : SectionKinds[i] = k
    /\ \A i \in 1 .. 11 : SectionKinds[i] \in Section
  <1>1. DOMAIN SectionKinds = 1 .. 11
    BY DEF SectionKinds
  <1>2. ASSUME NEW i \in 1 .. 11, NEW j \in 1 .. 11,
               SectionKinds[i] = SectionKinds[j]
        PROVE  i = j
    BY <1>2 DEF SectionKinds
  <1>3. \A k \in Section : \E i \in 1 .. 11 : SectionKinds[i] = k
    BY DEF SectionKinds, Section
  <1>4. \A i \in 1 .. 11 : SectionKinds[i] \in Section
    BY DEF SectionKinds, Section
  <1> QED  BY <1>1, <1>2, <1>3, <1>4

\* The payload of a file has each section once, with its body.
LEMMA PayloadSections ==
    ASSUME NEW state
    PROVE  LET payload == Payload(state)
           IN  /\ Len(payload) = 11
               /\ SectionsAreComplete(payload)
               /\ \A i \in 1 .. 11 :
                     Body(payload, SectionKinds[i]) = payload[i].body
  <1> DEFINE payload == Payload(state)
  <1>1. DOMAIN payload = 1 .. 11 /\ Len(payload) = 11
    BY DEF Payload
  <1>2. \A i \in 1 .. 11 : payload[i].kind = SectionKinds[i]
    <2> SUFFICES ASSUME NEW i \in 1 .. 11
                 PROVE  payload[i].kind = SectionKinds[i]
      OBVIOUS
    <2>1. /\ payload[1].kind = "Header" /\ payload[2].kind = "Policy"
          /\ payload[3].kind = "Artifacts" /\ payload[4].kind = "Evidence"
          /\ payload[5].kind = "Plans" /\ payload[6].kind = "Decisions"
          /\ payload[7].kind = "Records" /\ payload[8].kind = "Idempotency"
          /\ payload[9].kind = "History" /\ payload[10].kind = "Vetoes"
          /\ payload[11].kind = "Generators"
      BY DEF Payload, write_section
    <2> HIDE DEF payload
    <2> QED  BY <2>1 DEF SectionKinds
  <1> HIDE DEF payload
  <1>3. SectionsAreComplete(payload)
    BY <1>1, <1>2, SectionsDiffer DEF SectionsAreComplete
  <1>4. ASSUME NEW i \in 1 .. 11
        PROVE  Body(payload, SectionKinds[i]) = payload[i].body
    <2>1. \A j \in DOMAIN payload : payload[j].kind = payload[i].kind => j = i
      BY <1>1, <1>2, SectionsDiffer
    <2>2. Body(payload, payload[i].kind) = payload[i].body
      BY <1>1, <2>1, BodyOfSection
    <2> QED  BY <1>2, <2>2
  <1> QED  BY <1>1, <1>3, <1>4 DEF payload

\* What is written of a collection of the state.
WrittenChain(chains, a) ==
    <<a, [v \in DOMAIN chains[a] |-> write_artifact(a, v, chains[a][v])]>>

WrittenChains(chains) ==
    {WrittenChain(chains, a) : a \in {b \in ArtifactIds : chains[b] # <<>>}}

WrittenEvidence(stored, sealed) ==
    [e \in DOMAIN stored |-> write_evidence(e, stored[e], sealed[e])]

WrittenPlans(stored) == {write_plan(p) : p \in stored}

WrittenDecisions(stored, explained) ==
    [d \in DOMAIN stored |-> write_decision(stored[d], explained[d])]

WrittenRecords(stored) == {write_promotion_record(r) : r \in stored}

WrittenIdempotency(stored) == {write_idempotency(i) : i \in stored}

WrittenVetoes(stored) == {<<a, write_veto(stored[a])>> : a \in DOMAIN stored}

\* The bodies, one by one.
LEMMA PayloadBodies ==
    ASSUME NEW state
    PROVE  LET payload == Payload(state)
           IN  /\ Body(payload, "Header")
                     = <<state.epoch, state.compatibility_generation>>
               /\ Body(payload, "Policy") = write_policy(state.policy)
               /\ Body(payload, "Artifacts") = WrittenChains(state.artifacts)
               /\ Body(payload, "Evidence")
                     = WrittenEvidence(state.evidence, state.seals)
               /\ Body(payload, "Plans") = WrittenPlans(state.plans)
               /\ Body(payload, "Decisions")
                     = WrittenDecisions(state.decisions, state.explanations)
               /\ Body(payload, "Records") = WrittenRecords(state.records)
               /\ Body(payload, "Idempotency")
                     = WrittenIdempotency(state.idempotency)
               /\ Body(payload, "Vetoes") = WrittenVetoes(state.vetoes)
               /\ Body(payload, "Generators") =
                     <<state.plan_count, state.record_count>>
  <1> DEFINE payload == Payload(state)
  <1>1. \A i \in 1 .. 11 : Body(payload, SectionKinds[i]) = payload[i].body
    BY PayloadSections
  <1>2. /\ Body(payload, "Header") = payload[1].body
        /\ Body(payload, "Policy") = payload[2].body
        /\ Body(payload, "Artifacts") = payload[3].body
        /\ Body(payload, "Evidence") = payload[4].body
        /\ Body(payload, "Plans") = payload[5].body
        /\ Body(payload, "Decisions") = payload[6].body
        /\ Body(payload, "Records") = payload[7].body
        /\ Body(payload, "Idempotency") = payload[8].body
        /\ Body(payload, "Vetoes") = payload[10].body
        /\ Body(payload, "Generators") = payload[11].body
    <2> HIDE DEF payload
    <2> QED  BY <1>1 DEF SectionKinds
  <1> QED
    BY <1>2 DEF Payload, write_section, WrittenChains, WrittenChain,
       WrittenEvidence, WrittenPlans, WrittenDecisions, WrittenRecords,
       WrittenIdempotency, WrittenVetoes

-----------------------------------------------------------------------------
(* What the state is like when it is saved, beside what the engine keeps   *)
(* of it.                                                                  *)

\* A revision is in the chain of the artifact it was registered for.
RevisionsAreInPlace ==
    \A a \in ArtifactIds : \A v \in 1 .. Len(artifacts[a]) :
        artifacts[a][v].registration.id = a

\* The digest of an evidence record is that of the record as it is.
SealsAreCurrent ==
    /\ DOMAIN seals = DOMAIN evidence
    /\ seals = [e \in DOMAIN evidence |->
                   compute_evidence_integrity(e, evidence[e])]
    /\ \A e \in DOMAIN evidence : evidence[e].generation # 0

\* Every decision has its explanation, which lists no more gates than can be
\* read, and at most half as many while its plan can still be committed.
DecisionsAreExplained ==
    /\ explanations \in Seq(Explanation) /\ Len(explanations) = Len(decisions)
    /\ \A d \in 1 .. Len(decisions) :
          /\ explanations[d].kind = "Invalid" <=> explanations[d].from = "Invalid"
          /\ explanations[d].gates <= kMaxDecisionGates
    /\ \A p \in plans : p.decision \in 1 .. Len(decisions)
    /\ \A p, q \in plans : p.decision = q.decision => p = q
    /\ \A p \in plans :
          ReservationHeld(p)
             => 2 * explanations[p.decision].gates <= kMaxDecisionGates

FileInvariant == RevisionsAreInPlace /\ SealsAreCurrent /\ DecisionsAreExplained

\* The collections that no bound of EngineConfig is on are finite all the same.
UnboundedAreFinite == IsFiniteSet(idempotency) /\ IsFiniteSet(DOMAIN vetoes)

\* All that is used of the engine.
EngineInvariant ==
    /\ TypeOK /\ PlanInvariant /\ ValidPolicy(policy) /\ CountInvariant
    /\ RecordsTellStage /\ Consistent /\ UnboundedAreFinite

-----------------------------------------------------------------------------
(* What the sections give back.                                            *)

\* Artifacts, chain by chain.
LEMMA ChainsLoad ==
    ASSUME EngineInvariant, FileInvariant
    PROVE  /\ (\A c \in WrittenChains(artifacts) : ChainIsReadable(c))
                 <=> \A a \in ArtifactIds : Len(artifacts[a]) <= kMaxChain
           /\ [a \in ArtifactIds |-> ReadChain(WrittenChains(artifacts), a)] = artifacts
  <1>1. artifacts \in [ArtifactIds -> Seq(ArtifactRecord)]
    BY DEF EngineInvariant, TypeOK
  <1>2. ASSUME NEW a \in ArtifactIds, NEW v \in DOMAIN artifacts[a]
        PROVE  /\ artifact_readable(write_artifact(a, v, artifacts[a][v]))
               /\ read_artifact(write_artifact(a, v, artifacts[a][v]))
                     = artifacts[a][v]
               /\ write_artifact(a, v, artifacts[a][v])[1] = a
    <2>1. v \in 1 .. Len(artifacts[a])
      BY <1>1
    <2>2. artifacts[a][v] \in ArtifactRecord /\ v \in Nat \ {0}
      BY <1>1, <2>1
    <2>3. /\ artifacts[a][v].registration.id = a
          /\ artifacts[a][v].stage_generation # 0
      BY <2>1 DEF FileInvariant, RevisionsAreInPlace, EngineInvariant, Consistent,
                  RevisionsAreDecided
    <2> QED  BY <2>2, <2>3, ArtifactRoundTrip
  <1>3. ASSUME NEW a \in ArtifactIds
        PROVE  /\ WrittenChain(artifacts, a)[1] = a
               /\ DOMAIN WrittenChain(artifacts, a)[2] = DOMAIN artifacts[a]
               /\ \A v \in DOMAIN artifacts[a] :
                     WrittenChain(artifacts, a)[2][v] = write_artifact(a, v, artifacts[a][v])
               /\ Len(WrittenChain(artifacts, a)[2]) = Len(artifacts[a])
    BY <1>1 DEF WrittenChain
  <1>4. ASSUME NEW a \in ArtifactIds, artifacts[a] # <<>>
        PROVE  ChainIsReadable(WrittenChain(artifacts, a))
                  <=> Len(artifacts[a]) <= kMaxChain
    <2>1. DOMAIN artifacts[a] # {}
      <3>1. Len(artifacts[a]) \in Nat /\ Len(artifacts[a]) # 0
        BY <1>1, <1>4
      <3>2. DOMAIN artifacts[a] = 1 .. Len(artifacts[a])
        BY <1>1
      <3> QED  BY <3>1, <3>2
    <2>2. WrittenChain(artifacts, a)[2] # <<>>
      BY <1>3, <2>1
    <2> QED  BY <1>2, <1>3, <2>2 DEF ChainIsReadable, Countable
  <1>5. ASSUME NEW a \in ArtifactIds
        PROVE  ReadChain(WrittenChains(artifacts), a) = artifacts[a]
    <2> DEFINE found == {c \in WrittenChains(artifacts) : c[1] = a}
    <2>1. CASE artifacts[a] = <<>>
      <3>1. found = {}
        BY <1>3, <2>1 DEF WrittenChains
      <3> QED  BY <2>1, <3>1 DEF ReadChain
    <2>2. CASE artifacts[a] # <<>>
      <3>1. found = {WrittenChain(artifacts, a)}
        BY <1>3, <2>2 DEF WrittenChains
      <3>2. found # {} /\ (CHOOSE c \in found : TRUE) = WrittenChain(artifacts, a)
        BY <3>1
      <3> HIDE DEF found
      <3>3. ReadChain(WrittenChains(artifacts), a) =
               [v \in DOMAIN WrittenChain(artifacts, a)[2] |->
                   read_artifact(WrittenChain(artifacts, a)[2][v])]
        BY <3>2 DEF ReadChain, found
      <3>4. ReadChain(WrittenChains(artifacts), a) = [v \in DOMAIN artifacts[a] |-> artifacts[a][v]]
        BY <1>2, <1>3, <3>3
      <3> QED  BY <1>1, <3>4
    <2> QED  BY <2>1, <2>2
  <1>6. (\A c \in WrittenChains(artifacts) : ChainIsReadable(c))
           <=> \A a \in ArtifactIds : artifacts[a] # <<>> => Len(artifacts[a]) <= kMaxChain
    BY <1>4 DEF WrittenChains
  <1>7. \A a \in ArtifactIds : artifacts[a] = <<>> => Len(artifacts[a]) <= kMaxChain
    BY DEF kMaxChain
  <1> QED  BY <1>1, <1>5, <1>6, <1>7

\* Evidence, with its digests.
LEMMA EvidenceLoads ==
    ASSUME EngineInvariant, FileInvariant
    PROVE  LET written == WrittenEvidence(evidence, seals)
           IN  /\ \A e \in DOMAIN written : evidence_readable(written[e])
               /\ [e \in DOMAIN written |-> read_evidence(written[e])] = evidence
               /\ [e \in DOMAIN written |-> written[e][9]] = seals
  <1> DEFINE written == WrittenEvidence(evidence, seals)
  <1>1. evidence \in Seq(EvidenceRecord)
    BY DEF EngineInvariant, TypeOK
  <1>2. ASSUME NEW e \in DOMAIN evidence
        PROVE  /\ evidence_readable(written[e])
               /\ read_evidence(written[e]) = evidence[e]
               /\ written[e][9] = seals[e]
    <2>1. e \in Nat \ {0} /\ evidence[e] \in EvidenceRecord
      BY <1>1
    <2>2. evidence[e].generation # 0 /\ seals[e] = compute_evidence_integrity(e, evidence[e])
      BY DEF FileInvariant, SealsAreCurrent
    <2>3. evidence[e].submission.subject_revision # 0
      <3>1. LET s == evidence[e].submission
            IN  /\ s.subject \in ArtifactIds
                /\ s.subject_revision \in 1 .. Len(artifacts[s.subject])
        BY DEF EngineInvariant, Consistent, EvidenceIsBound, HasRevision
      <3> QED  BY <3>1
    <2>4. written[e] = write_evidence(e, evidence[e],
                                      compute_evidence_integrity(e, evidence[e]))
      BY <2>2 DEF WrittenEvidence
    <2> HIDE DEF written
    <2> QED  BY <2>1, <2>2, <2>3, <2>4, EvidenceRoundTrip
  <1>3. DOMAIN written = DOMAIN evidence
    BY DEF WrittenEvidence
  <1>4. /\ evidence = [e \in DOMAIN evidence |-> evidence[e]]
        /\ seals = [e \in DOMAIN evidence |-> seals[e]]
    BY <1>1 DEF FileInvariant, SealsAreCurrent
  <1> HIDE DEF written
  <1>5. /\ [e \in DOMAIN written |-> read_evidence(written[e])] = evidence
        /\ [e \in DOMAIN written |-> written[e][9]] = seals
    BY <1>2, <1>3, <1>4
  <1>6. \A e \in DOMAIN written : evidence_readable(written[e])
    BY <1>2, <1>3
  <1> QED  BY <1>5, <1>6 DEF written

\* Plans, promotion records and idempotency records.
LEMMA SetsLoad ==
    ASSUME EngineInvariant
    PROVE  /\ \A p \in plans : plan_readable(write_plan(p))
           /\ \A p \in plans : read_plan(write_plan(p)) = p
           /\ {read_plan(f) : f \in WrittenPlans(plans)} = plans
           /\ \A r \in records :
                 /\ promotion_record_readable(write_promotion_record(r))
                 /\ read_promotion_record(write_promotion_record(r)) = r
           /\ {read_promotion_record(f) : f \in WrittenRecords(records)} = records
           /\ \A i \in idempotency : /\ idempotency_readable(write_idempotency(i))
                                    /\ read_idempotency(write_idempotency(i)) = i
           /\ {read_idempotency(f) : f \in WrittenIdempotency(idempotency)}
                 = idempotency
  <1>1. /\ plans \subseteq PromotionPlan /\ records \subseteq PromotionRecord
        /\ idempotency \subseteq IdempotencyRecord
    BY DEF EngineInvariant, TypeOK
  <1>2. ASSUME NEW p \in plans
        PROVE  plan_readable(write_plan(p)) /\ read_plan(write_plan(p)) = p
    <2>1. p.decision # 0 /\ p.epoch # 0 /\ p.stage_generation # 0
      BY DEF EngineInvariant, Consistent, PlansAreDecided
    <2>2. /\ p.id \in 1 .. plan_count
          /\ p.artifact_revision \in 1 .. Len(artifacts[p.artifact])
      BY DEF EngineInvariant, PlanInvariant, PlansAreFresh, HasRevision
    <2>3. p.id # 0 /\ p.artifact_revision # 0
      BY <2>2
    <2>4. p \in PromotionPlan
      BY <1>1
    <2> QED  BY <2>1, <2>3, <2>4, PlanRoundTrip
  <1>3. \A r \in records :
           /\ promotion_record_readable(write_promotion_record(r))
           /\ read_promotion_record(write_promotion_record(r)) = r
    BY <1>1, RecordRoundTrip
  <1>4. \A i \in idempotency : /\ idempotency_readable(write_idempotency(i))
                               /\ read_idempotency(write_idempotency(i)) = i
    BY <1>1, RecordRoundTrip
  <1> QED  BY <1>2, <1>3, <1>4
           DEF WrittenPlans, WrittenRecords, WrittenIdempotency

\* Decisions and explanations; a decision that cannot be read stops the reader.
LEMMA DecisionsLoad ==
    ASSUME EngineInvariant, FileInvariant
    PROVE  LET written == WrittenDecisions(decisions, explanations)
           IN  /\ \A d \in DOMAIN decisions :
                     decision_readable(written[d]) <=> ~Unreadable(d)
               /\ DOMAIN written = DOMAIN decisions
               /\ [d \in DOMAIN written |-> read_decision(written[d])] = decisions
               /\ [d \in DOMAIN written |-> read_explanation(written[d])]
                     = explanations
  <1> DEFINE written == WrittenDecisions(decisions, explanations)
  <1>1. /\ decisions \in Seq(PromotionDecision) /\ explanations \in Seq(Explanation)
        /\ Len(explanations) = Len(decisions)
    BY DEF EngineInvariant, TypeOK, FileInvariant, DecisionsAreExplained
  <1>2. DOMAIN decisions = 1 .. Len(decisions) /\ DOMAIN explanations = DOMAIN decisions
    BY <1>1
  <1>3. ASSUME NEW d \in DOMAIN decisions
        PROVE  /\ decision_readable(written[d]) <=> ~Unreadable(d)
               /\ read_decision(written[d]) = decisions[d]
               /\ read_explanation(written[d]) = explanations[d]
    <2>1. decisions[d] \in PromotionDecision /\ explanations[d] \in Explanation
      BY <1>1, <1>2
    <2>2. written[d] = write_decision(decisions[d], explanations[d])
      BY DEF WrittenDecisions
    <2> HIDE DEF written
    <2>3. ReadableExplanation(explanations[d]) <=> ~Unreadable(d)
      <3>1. /\ explanations[d].kind = "Invalid" <=> explanations[d].from = "Invalid"
            /\ explanations[d].gates <= kMaxDecisionGates
        BY <1>2 DEF FileInvariant, DecisionsAreExplained
      <3>2. explanations[d].reasons \in Nat /\ kMaxDecisionReasons \in Nat
        BY <2>1, RecordsAssumption DEF Explanation
      <3> QED  BY <3>1, <3>2 DEF ReadableExplanation, Unreadable
    <2> QED  BY <2>1, <2>2, <2>3, DecisionRoundTrip
  <1>4. DOMAIN written = DOMAIN decisions
    BY DEF WrittenDecisions
  <1>5. /\ decisions = [d \in DOMAIN decisions |-> decisions[d]]
        /\ explanations = [d \in DOMAIN decisions |-> explanations[d]]
    BY <1>1, <1>2
  <1> HIDE DEF written
  <1>6. /\ [d \in DOMAIN written |-> read_decision(written[d])] = decisions
        /\ [d \in DOMAIN written |-> read_explanation(written[d])] = explanations
    BY <1>3, <1>4, <1>5
  <1> QED  BY <1>3, <1>4, <1>6 DEF written

\* Vetoes: there is one entry for each artifact that ever had one.
LEMMA VetoesLoad ==
    ASSUME TypeOK
    PROVE  LET written == WrittenVetoes(vetoes)
           IN  [a \in {v[1] : v \in written} |->
                  read_veto((CHOOSE v \in written : v[1] = a)[2])] = vetoes
  <1> DEFINE written == WrittenVetoes(vetoes)
  <1>1. vetoes \in [DOMAIN vetoes -> VetoState]
    BY DEF TypeOK
  <1>2. ASSUME NEW a \in DOMAIN vetoes
        PROVE  read_veto((CHOOSE v \in written : v[1] = a)[2]) = vetoes[a]
    <2> DEFINE mine == <<a, write_veto(vetoes[a])>>
    <2>1. mine \in written /\ mine[1] = a
      BY DEF WrittenVetoes
    <2>2. \A v \in written : v[1] = a => v = mine
      BY DEF WrittenVetoes
    <2> HIDE DEF mine, written
    <2>3. (CHOOSE v \in written : v[1] = a) = mine
      BY <2>1, <2>2
    <2>4. mine[2] = write_veto(vetoes[a])
      BY DEF mine
    <2> QED  BY <1>1, <2>3, <2>4, VetoRoundTrip
  <1>3. {v[1] : v \in written} = DOMAIN vetoes
    <2>1. \A v \in written : v[1] \in DOMAIN vetoes
      BY DEF WrittenVetoes
    <2>2. ASSUME NEW a \in DOMAIN vetoes
          PROVE  \E v \in written : v[1] = a
      <3> DEFINE mine == <<a, write_veto(vetoes[a])>>
      <3>1. mine \in written /\ mine[1] = a
        BY DEF WrittenVetoes
      <3> HIDE DEF mine, written
      <3> QED  BY <3>1
    <2> HIDE DEF written
    <2> QED  BY <2>1, <2>2
  <1> HIDE DEF written
  <1>4. vetoes = [a \in DOMAIN vetoes |-> vetoes[a]]
    BY <1>1
  <1>5. [a \in DOMAIN vetoes |-> read_veto((CHOOSE v \in written : v[1] = a)[2])] = vetoes
    BY <1>2, <1>4
  <1> QED  BY <1>3, <1>5 DEF written

\* The generators have issued every identity that is stored.
LEMMA GeneratorsLoad ==
    ASSUME EngineInvariant
    PROVE  /\ Observe(plan_count, plans) = plan_count
           /\ Observe(record_count, records) = record_count
  <1>1. ASSUME NEW n \in Nat, NEW S, \A r \in S : r.id \in Nat /\ r.id <= n
        PROVE  Observe(n, S) = n
    <2> DEFINE ids == {n} \cup {r.id : r \in S}
    <2>1. n \in ids /\ \A y \in ids : y \in Nat /\ y <= n
      BY <1>1
    <2> HIDE DEF ids
    <2>2. Max(ids) = n
      <3>1. \A x \in ids : (\A y \in ids : x >= y) => x = n
        BY <2>1
      <3>2. \A y \in ids : n >= y
        BY <2>1
      <3> QED  BY <2>1, <3>1, <3>2 DEF Max
    <2> QED  BY <2>2 DEF Observe, ids
  <1>2. plan_count \in Nat /\ \A p \in plans : p.id \in Nat /\ p.id <= plan_count
    BY DEF EngineInvariant, TypeOK, PlanInvariant, PlansAreFresh
  <1>3. record_count \in Nat
        /\ \A r \in records : r.id \in Nat /\ r.id <= record_count
    BY DEF EngineInvariant, TypeOK, RecordsTellStage, PromotionRecord
  <1> QED  BY <1>1, <1>2, <1>3

-----------------------------------------------------------------------------
(* The whole file.                                                         *)

\* The payload of the file of the present state.
Saved == Payload(snapshot)

\* The bodies of its sections, in terms of the state.
LEMMA SavedBodies ==
    /\ Body(Saved, "Header") = <<epoch, compatibility_generation>>
    /\ Body(Saved, "Policy") = write_policy(policy)
    /\ Body(Saved, "Artifacts") = WrittenChains(artifacts)
    /\ Body(Saved, "Evidence") = WrittenEvidence(evidence, seals)
    /\ Body(Saved, "Plans") = WrittenPlans(plans)
    /\ Body(Saved, "Decisions") = WrittenDecisions(decisions, explanations)
    /\ Body(Saved, "Records") = WrittenRecords(records)
    /\ Body(Saved, "Idempotency") = WrittenIdempotency(idempotency)
    /\ Body(Saved, "Vetoes") = WrittenVetoes(vetoes)
    /\ Body(Saved, "Generators") = <<plan_count, record_count>>
  <1>1. /\ snapshot.epoch = epoch
        /\ snapshot.compatibility_generation = compatibility_generation
        /\ snapshot.policy = policy /\ snapshot.artifacts = artifacts
        /\ snapshot.evidence = evidence /\ snapshot.seals = seals
        /\ snapshot.plans = plans /\ snapshot.decisions = decisions
        /\ snapshot.explanations = explanations /\ snapshot.records = records
        /\ snapshot.idempotency = idempotency /\ snapshot.vetoes = vetoes
        /\ snapshot.plan_count = plan_count /\ snapshot.record_count = record_count
    BY DEF snapshot
  <1> QED  BY <1>1, PayloadBodies DEF Saved

\* The frame of a file is sound whatever the state, but for its size.
LEMMA SavedFrame ==
    /\ FrameIsSound(encode(snapshot)) <=> ByteSize(Saved) <= kMaxSnapshotBytes
    /\ encode(snapshot).content.payload = Saved
    /\ SectionsAreComplete(Saved)
  <1>1. Len(Saved) = 11 /\ SectionsAreComplete(Saved)
    BY PayloadSections DEF Saved
  <1> DEFINE content == [version |-> kFormatVersion, reserved |-> 0,
                         length |-> ByteSize(Saved), payload |-> Saved]
  <1>2. encode(snapshot) = [content |-> content, footer |-> content]
    BY DEF encode, Saved
  <1>3. FrameIsSound(encode(snapshot)) <=> ByteSize(Saved) <= kMaxSnapshotBytes
    <2>1. /\ encode(snapshot).content = content /\ encode(snapshot).footer = content
      BY <1>2
    <2>2. /\ content.version = kFormatVersion /\ content.reserved = 0
          /\ content.length = ByteSize(Saved) /\ content.payload = Saved
      OBVIOUS
    <2> HIDE DEF content
    <2>3. Len(Saved) <= kMaxSections
      BY <1>1 DEF kMaxSections
    <2> QED  BY <2>1, <2>2, <2>3 DEF FrameIsSound
  <1> QED  BY <1>1, <1>2, <1>3

\* A section has as many entries as the collection it is written of.
LEMMA SavedCounts ==
    ASSUME EngineInvariant, FileInvariant
    PROVE  /\ Cardinality(Body(Saved, "Artifacts")) = Cardinality(RegisteredIds)
           /\ Cardinality(Body(Saved, "Vetoes")) = Cardinality(DOMAIN vetoes)
           /\ Cardinality(Body(Saved, "Plans")) = Cardinality(plans)
           /\ Cardinality(Body(Saved, "Records")) = Cardinality(records)
           /\ Cardinality(Body(Saved, "Idempotency")) = Cardinality(idempotency)
           /\ Len(Body(Saved, "Evidence")) = Len(evidence)
           /\ Len(Body(Saved, "Decisions")) = Len(decisions)
  <1>1. /\ IsFiniteSet(RegisteredIds) /\ IsFiniteSet(DOMAIN vetoes)
        /\ IsFiniteSet(plans) /\ IsFiniteSet(records) /\ IsFiniteSet(idempotency)
    BY DEF EngineInvariant, CountInvariant, Within, UnboundedAreFinite
  <1>2. Cardinality(WrittenChains(artifacts)) = Cardinality(RegisteredIds)
    <2> DEFINE w == [a \in RegisteredIds |-> WrittenChain(artifacts, a)]
    <2>1. WrittenChains(artifacts) = {w[a] : a \in RegisteredIds}
      BY DEF WrittenChains, RegisteredIds, Registered
    <2>2. DOMAIN w = RegisteredIds /\ \A a, b \in RegisteredIds : w[a] = w[b] => a = b
      BY DEF WrittenChain
    <2> HIDE DEF w
    <2> QED  BY <1>1, <2>1, <2>2, WrittenCount
  <1>3. Cardinality(WrittenVetoes(vetoes)) = Cardinality(DOMAIN vetoes)
    <2> DEFINE w == [a \in DOMAIN vetoes |-> <<a, write_veto(vetoes[a])>>]
    <2>1. WrittenVetoes(vetoes) = {w[a] : a \in DOMAIN vetoes}
      BY DEF WrittenVetoes
    <2>2. DOMAIN w = DOMAIN vetoes /\ \A a, b \in DOMAIN vetoes : w[a] = w[b] => a = b
      OBVIOUS
    <2> HIDE DEF w
    <2> QED  BY <1>1, <2>1, <2>2, WrittenCount
  <1>4. /\ \A p \in plans : read_plan(write_plan(p)) = p
        /\ \A r \in records : read_promotion_record(write_promotion_record(r)) = r
        /\ \A i \in idempotency : read_idempotency(write_idempotency(i)) = i
    BY SetsLoad
  <1>5. Cardinality(WrittenPlans(plans)) = Cardinality(plans)
    <2> DEFINE w == [p \in plans |-> write_plan(p)]
    <2>1. WrittenPlans(plans) = {w[p] : p \in plans}
      BY DEF WrittenPlans
    <2>2. DOMAIN w = plans /\ \A p, q \in plans : w[p] = w[q] => p = q
      BY <1>4
    <2> HIDE DEF w
    <2> QED  BY <1>1, <2>1, <2>2, WrittenCount
  <1>6. Cardinality(WrittenRecords(records)) = Cardinality(records)
    <2> DEFINE w == [r \in records |-> write_promotion_record(r)]
    <2>1. WrittenRecords(records) = {w[r] : r \in records}
      BY DEF WrittenRecords
    <2>2. DOMAIN w = records /\ \A r, s \in records : w[r] = w[s] => r = s
      BY <1>4
    <2> HIDE DEF w
    <2> QED  BY <1>1, <2>1, <2>2, WrittenCount
  <1>7. Cardinality(WrittenIdempotency(idempotency)) = Cardinality(idempotency)
    <2> DEFINE w == [i \in idempotency |-> write_idempotency(i)]
    <2>1. WrittenIdempotency(idempotency) = {w[i] : i \in idempotency}
      BY DEF WrittenIdempotency
    <2>2. DOMAIN w = idempotency /\ \A i, j \in idempotency : w[i] = w[j] => i = j
      BY <1>4
    <2> HIDE DEF w
    <2> QED  BY <1>1, <2>1, <2>2, WrittenCount
  <1>8. evidence \in Seq(EvidenceRecord) /\ decisions \in Seq(PromotionDecision)
    BY DEF EngineInvariant, TypeOK
  <1>9. /\ Len(WrittenEvidence(evidence, seals)) = Len(evidence)
        /\ Len(WrittenDecisions(decisions, explanations)) = Len(decisions)
    BY <1>8 DEF WrittenEvidence, WrittenDecisions
  <1> QED  BY <1>2, <1>3, <1>5, <1>6, <1>7, <1>9, SavedBodies

\* The state has more of something than can be read.
TooMany ==
    \/ \E S \in {RegisteredIds, DOMAIN vetoes} : Cardinality(S) > kMaxChains
    \/ \E S \in {plans, records, idempotency} : Cardinality(S) > kMaxEntries
    \/ \E n \in {Len(evidence), Len(decisions)} : n > kMaxEntries

\* The lists are read when none is beyond its limit.
LEMMA SavedCountsReadable ==
    ASSUME EngineInvariant, FileInvariant
    PROVE  CountsAreReadable(Saved) <=> ~TooMany
  <1>1. /\ Cardinality(RegisteredIds) \in Nat /\ Cardinality(DOMAIN vetoes) \in Nat
        /\ Cardinality(plans) \in Nat /\ Cardinality(records) \in Nat
        /\ Cardinality(idempotency) \in Nat
    BY FS_CardinalityType
       DEF EngineInvariant, CountInvariant, Within, UnboundedAreFinite
  <1>2. Len(evidence) \in Nat /\ Len(decisions) \in Nat
    BY DEF EngineInvariant, TypeOK
  <1>3. kMaxChains \in Nat /\ kMaxEntries \in Nat
    BY RecordsAssumption
  <1>4. CountsAreReadable(Saved) <=>
           /\ Cardinality(RegisteredIds) <= kMaxChains
           /\ Cardinality(DOMAIN vetoes) <= kMaxChains
           /\ Cardinality(plans) <= kMaxEntries
           /\ Cardinality(records) <= kMaxEntries
           /\ Cardinality(idempotency) <= kMaxEntries
           /\ Len(evidence) <= kMaxEntries
           /\ Len(decisions) <= kMaxEntries
    BY SavedCounts DEF CountsAreReadable, Countable
  <1>5. TooMany <=>
           \/ Cardinality(RegisteredIds) > kMaxChains
           \/ Cardinality(DOMAIN vetoes) > kMaxChains
           \/ Cardinality(plans) > kMaxEntries
           \/ Cardinality(records) > kMaxEntries
           \/ Cardinality(idempotency) > kMaxEntries
           \/ Len(evidence) > kMaxEntries
           \/ Len(decisions) > kMaxEntries
    BY DEF TooMany
  <1> QED  BY <1>1, <1>2, <1>3, <1>4, <1>5

\* The readers accept every section but those of the artifacts and of the
\* decisions, and these when no chain is too long and each decision can be read.
LEMMA SavedBodiesReadable ==
    ASSUME EngineInvariant, FileInvariant
    PROVE  BodiesAreReadable(Saved) <=>
              /\ \A a \in ArtifactIds : Len(artifacts[a]) <= kMaxChain
              /\ \A d \in DOMAIN decisions : ~Unreadable(d)
  <1>1. policy_readable(Body(Saved, "Policy"))
    BY PolicyRoundTrip, SavedBodies DEF EngineInvariant, TypeOK
  <1>2. (\A c \in Body(Saved, "Artifacts") : ChainIsReadable(c))
           <=> \A a \in ArtifactIds : Len(artifacts[a]) <= kMaxChain
    BY ChainsLoad, SavedBodies
  <1>3. \A e \in DOMAIN Body(Saved, "Evidence") :
           evidence_readable(Body(Saved, "Evidence")[e])
    BY EvidenceLoads, SavedBodies
  <1>4. /\ \A p \in Body(Saved, "Plans") : plan_readable(p)
        /\ \A r \in Body(Saved, "Records") : promotion_record_readable(r)
        /\ \A i \in Body(Saved, "Idempotency") : idempotency_readable(i)
    <2>1. /\ \A p \in plans : plan_readable(write_plan(p))
          /\ \A r \in records : promotion_record_readable(write_promotion_record(r))
          /\ \A i \in idempotency : idempotency_readable(write_idempotency(i))
      BY SetsLoad
    <2> QED  BY <2>1, SavedBodies
             DEF WrittenPlans, WrittenRecords, WrittenIdempotency
  <1>5. (\A d \in DOMAIN Body(Saved, "Decisions") :
            decision_readable(Body(Saved, "Decisions")[d]))
        <=> \A d \in DOMAIN decisions : ~Unreadable(d)
    BY DecisionsLoad, SavedBodies
  <1> QED  BY <1>1, <1>2, <1>3, <1>4, <1>5 DEF BodiesAreReadable

\* What is read is the state that was saved.
LEMMA SavedComesBack ==
    ASSUME EngineInvariant, FileInvariant
    PROVE  decode(encode(snapshot)) = snapshot
  <1> DEFINE loaded == decode(encode(snapshot))
             E == Body(Saved, "Evidence")
             D == Body(Saved, "Decisions")
  <1>1. encode(snapshot).content.payload = Saved
    BY SavedFrame
  <1>2. loaded =
           [epoch |-> Body(Saved, "Header")[1],
            compatibility_generation |-> Body(Saved, "Header")[2],
            policy |-> read_policy(Body(Saved, "Policy")),
            artifacts |-> [a \in ArtifactIds |->
                              ReadChain(Body(Saved, "Artifacts"), a)],
            evidence |-> [e \in DOMAIN E |-> read_evidence(E[e])],
            seals |-> [e \in DOMAIN E |-> E[e][9]],
            plans |-> {read_plan(p) : p \in Body(Saved, "Plans")},
            decisions |-> [d \in DOMAIN D |-> read_decision(D[d])],
            explanations |-> [d \in DOMAIN D |-> read_explanation(D[d])],
            records |-> {read_promotion_record(r) : r \in Body(Saved, "Records")},
            idempotency |-> {read_idempotency(i) : i \in Body(Saved, "Idempotency")},
            vetoes |-> [a \in {v[1] : v \in Body(Saved, "Vetoes")} |->
                           read_veto((CHOOSE v \in Body(Saved, "Vetoes") :
                                         v[1] = a)[2])],
            plan_count |-> Observe(Body(Saved, "Generators")[1],
                                   {read_plan(p) : p \in Body(Saved, "Plans")}),
            record_count |-> Observe(Body(Saved, "Generators")[2],
                                     {read_promotion_record(r) :
                                         r \in Body(Saved, "Records")})]
    BY <1>1 DEF decode
  <1>3. /\ Body(Saved, "Header")[1] = epoch
        /\ Body(Saved, "Header")[2] = compatibility_generation
        /\ Body(Saved, "Generators")[1] = plan_count
        /\ Body(Saved, "Generators")[2] = record_count
    BY SavedBodies
  <1>4. read_policy(Body(Saved, "Policy")) = policy
    BY PolicyRoundTrip, SavedBodies DEF EngineInvariant, TypeOK
  <1>5. [a \in ArtifactIds |-> ReadChain(Body(Saved, "Artifacts"), a)] = artifacts
    BY ChainsLoad, SavedBodies
  <1>6. /\ [e \in DOMAIN E |-> read_evidence(E[e])] = evidence
        /\ [e \in DOMAIN E |-> E[e][9]] = seals
    BY EvidenceLoads, SavedBodies
  <1>7. /\ {read_plan(p) : p \in Body(Saved, "Plans")} = plans
        /\ {read_promotion_record(r) : r \in Body(Saved, "Records")} = records
        /\ {read_idempotency(i) : i \in Body(Saved, "Idempotency")} = idempotency
    BY SetsLoad, SavedBodies
  <1>8. /\ [d \in DOMAIN D |-> read_decision(D[d])] = decisions
        /\ [d \in DOMAIN D |-> read_explanation(D[d])] = explanations
    BY DecisionsLoad, SavedBodies
  <1>9. [a \in {v[1] : v \in Body(Saved, "Vetoes")} |->
            read_veto((CHOOSE v \in Body(Saved, "Vetoes") : v[1] = a)[2])] = vetoes
    BY VetoesLoad, SavedBodies DEF EngineInvariant
  <1> HIDE DEF loaded, E, D
  <1>10. loaded = snapshot
    BY <1>2, <1>3, <1>4, <1>5, <1>6, <1>7, <1>8, <1>9, GeneratorsLoad DEF snapshot
  <1> QED  BY <1>10 DEF loaded

\* A state like this loads, within the limits of the reader.
LEMMA SoundStateLoads ==
    ASSUME EngineInvariant, FileInvariant, VerifyConsistency,
           ByteSize(Saved) \in Nat
    PROVE  SavedStateLoads
  <1> DEFINE file == encode(snapshot)
             size == FileBytes(file)
  <1>1. file.content.payload = Saved /\ SectionsAreComplete(Saved)
    BY SavedFrame
  <1>2. size = ByteSize(Saved) + 52 /\ kMaxSnapshotBytes \in Nat
    BY <1>1, RecordsAssumption DEF FileBytes, kHeaderSize, kFooterSize
  <1>3. FrameIsSound(file) <=> ByteSize(Saved) <= kMaxSnapshotBytes
    BY SavedFrame
  <1> HIDE DEF file, size
  <1>4. Loads(file) <=>
           /\ size <= kMaxSnapshotBytes
           /\ ~TooMany
           /\ \A a \in ArtifactIds : Len(artifacts[a]) <= kMaxChain
           /\ \A d \in DOMAIN decisions : ~Unreadable(d)
    <2>1. size <= kMaxSnapshotBytes => FrameIsSound(file)
      BY <1>2, <1>3
    <2> QED  BY <1>1, <2>1, SavedCountsReadable, SavedBodiesReadable
             DEF Loads, Decodes, size
  <1>5. Oversized(file) <=>
           \/ size > kMaxSnapshotBytes
           \/ TooMany
           \/ \E a \in ArtifactIds : Len(artifacts[a]) > kMaxChain
    BY DEF Oversized, TooMany, RegisteredIds, size
  <1>6. size > kMaxSnapshotBytes <=> ~(size <= kMaxSnapshotBytes)
    BY <1>2
  <1>7. \A a \in ArtifactIds :
           Len(artifacts[a]) > kMaxChain <=> ~(Len(artifacts[a]) <= kMaxChain)
    <2>1. \A a \in ArtifactIds : Len(artifacts[a]) \in Nat
      BY DEF EngineInvariant, TypeOK
    <2> QED  BY <2>1 DEF kMaxChain
  <1>8. Loads(file) <=> ~(Oversized(file) \/ \E d \in DOMAIN decisions : Unreadable(d))
    BY <1>4, <1>5, <1>6, <1>7
  <1>9. decode(file) = snapshot
    BY SavedComesBack DEF file
  <1> QED  BY <1>8, <1>9 DEF SavedStateLoads, file

-----------------------------------------------------------------------------
(* The steps of the engine with its file are steps of the engine.          *)

\* Without explanations and seals, it is the engine.
LEMMA FileIsEngine == FileSpec => Spec
  <1>1. FileInit => Init
    BY DEF FileInit
  <1>2. [FileNext]_fileVars => [Next]_vars
    BY DEF FileNext, Next, fileVars
  <1> QED  BY <1>1, <1>2, PTL DEF FileSpec, Spec

\* An operation adds at most one idempotency record and one veto entry, and the
\* commit that marks an idempotency record makes no more of them.
LEMMA FiniteStep ==
    ASSUME UnboundedAreFinite, [Next]_vars
    PROVE  UnboundedAreFinite'
  <1>1. \/ idempotency' = idempotency
        \/ \E i : idempotency' = idempotency \cup {i}
        \/ \E p \in plans : idempotency' = MarkCommitted(p)
    BY DEF Next, OtherOperation, vars, evaluate, EvaluateUnknown, EvaluateRejected,
       EvaluatePlanned, EvaluateAtCapacity, Answer, commit, CommitRefused,
       CommitPolicyStale, CommitExpired, CommitReservationLost,
       CommitEvidenceChanged, CommitGatesFailed, CommitTransition,
       release_quarantine, submit_evidence, revoke_evidence, register_artifact,
       publish_policy, restart, recover_in_flight, set_compatibility_generation,
       set_admission, ClockStep, quarantine, revoke, supersede, retire,
       set_security_veto, set_dependency_veto
  <1>2. IsFiniteSet(idempotency)'
    <2>1. CASE idempotency' = idempotency
      BY <2>1 DEF UnboundedAreFinite
    <2>2. ASSUME NEW i, idempotency' = idempotency \cup {i}
          PROVE  IsFiniteSet(idempotency)'
      BY <2>2, FS_AddElement DEF UnboundedAreFinite
    <2>3. ASSUME NEW p \in plans, idempotency' = MarkCommitted(p)
          PROVE  IsFiniteSet(idempotency)'
      <3> DEFINE mark == [i \in idempotency |->
                            IF i.request = p.request
                            THEN [i EXCEPT !.outcome = "PromotionCommitted",
                                           !.decision = p.decision]
                            ELSE i]
      <3>1. MarkCommitted(p) = {mark[i] : i \in idempotency} /\ DOMAIN mark = idempotency
        BY DEF MarkCommitted
      <3> HIDE DEF mark
      <3> QED  BY <2>3, <3>1, ImageCount DEF UnboundedAreFinite
    <2> QED  BY <1>1, <2>1, <2>2, <2>3
  <1>3. vetoes' = vetoes \/ \E id : DOMAIN vetoes' = DOMAIN vetoes \cup {id}
    <2>1. ASSUME NEW id, NEW veto, PutVeto(id, veto)
          PROVE  DOMAIN vetoes' = DOMAIN vetoes \cup {id}
      BY <2>1 DEF PutVeto
    <2>2. vetoes' = vetoes \/ \E id : \E veto : PutVeto(id, veto)
      BY DEF Next, OtherOperation, vars, evaluate, EvaluateUnknown, EvaluateRejected,
         EvaluatePlanned, EvaluateAtCapacity, commit, CommitRefused,
         CommitPolicyStale, CommitExpired, CommitReservationLost,
         CommitEvidenceChanged, CommitGatesFailed, CommitTransition,
         release_quarantine, submit_evidence, revoke_evidence, register_artifact,
         publish_policy, restart, recover_in_flight, set_compatibility_generation,
         set_admission, ClockStep, quarantine, revoke, supersede, retire,
         set_security_veto, set_dependency_veto
    <2> QED  BY <2>1, <2>2
  <1>4. IsFiniteSet(DOMAIN vetoes)'
    BY <1>3, FS_AddElement DEF UnboundedAreFinite
  <1> QED  BY <1>2, <1>4 DEF UnboundedAreFinite

\* They are finite in every behaviour.
LEMMA StaysFinite == Spec => []UnboundedAreFinite
  <1>1. Init => UnboundedAreFinite
    <2> SUFFICES ASSUME Init PROVE UnboundedAreFinite
      OBVIOUS
    <2>1. idempotency = {} /\ vetoes = <<>>
      BY DEF Init
    <2>2. DOMAIN vetoes = {}
      BY <2>1
    <2> QED  BY <2>1, <2>2, FS_EmptySet DEF UnboundedAreFinite
  <1>2. UnboundedAreFinite /\ [Next]_vars => UnboundedAreFinite'
    BY FiniteStep
  <1> QED  BY <1>1, <1>2, PTL DEF Spec

\* So what the engine keeps holds here.
LEMMA EngineIsKept == FileSpec => [](EngineInvariant /\ VerifyConsistency)
  <1>1. TypeOK /\ PlanInvariant /\ ValidPolicy(policy) /\ CountInvariant
           /\ RecordsTellStage /\ Consistent /\ UnboundedAreFinite => EngineInvariant
    BY DEF EngineInvariant
  <1> QED  BY <1>1, FileIsEngine, StateIsSound, PolicyIsValid, CountsAreSound,
              StageIsTold, StateStaysConsistent, StateIsConsistent, StaysFinite, PTL

\* A registration goes to the chain of its artifact and stays there.
LEMMA InPlaceStep ==
    ASSUME TypeOK, PlansAreFresh, RevisionsAreInPlace, [Next]_vars
    PROVE  RevisionsAreInPlace'
  <1> SUFFICES ASSUME NEW a \in ArtifactIds, NEW v \in 1 .. Len(artifacts'[a])
               PROVE  artifacts'[a][v].registration.id = a
    BY DEF RevisionsAreInPlace
  <1>1. CASE v \in 1 .. Len(artifacts[a])
    BY <1>1, RevisionStays DEF RevisionsAreInPlace
  <1>2. CASE v \notin 1 .. Len(artifacts[a])
    <2>1. PICK r \in Registrations : r.id = a /\ artifacts'[a][v] = NewRevision(r)
      BY <1>2, NewRevisionStep
    <2> QED  BY <2>1 DEF NewRevision
  <1> QED  BY <1>1, <1>2

\* submit_evidence(): what the digests cover of the records before it stays.
LEMMA SubmitSeals ==
    ASSUME TypeOK, SealsAreCurrent, NEW s \in Submissions, submit_evidence(s)
    PROVE  LET n == Len(evidence) + 1
           IN  /\ n \in Nat /\ DOMAIN evidence = 1 .. n - 1
               /\ DOMAIN evidence' = 1 .. n /\ Len(evidence') = n
               /\ evidence'[n].generation # 0
               /\ \A e \in DOMAIN evidence :
                     /\ evidence'[e].generation = evidence[e].generation
                     /\ compute_evidence_integrity(e, evidence'[e])
                           = compute_evidence_integrity(e, evidence[e])
  <1> DEFINE old == Replaced(s)
             kept == [e \in DOMAIN evidence |->
                         IF e \in old
                         THEN [evidence[e] EXCEPT !.superseded = TRUE]
                         ELSE evidence[e]]
             generation == IF old = {} THEN 1
                           ELSE evidence[CHOOSE e \in old : TRUE].generation + 1
             new == [submission |-> s, generation |-> generation,
                     revoked |-> FALSE, superseded |-> FALSE]
  <1>1. evidence' = Append(kept, new)
    BY DEF submit_evidence, SupersedeEvidence
  <1>2. /\ evidence \in Seq(EvidenceRecord)
        /\ DOMAIN evidence = 1 .. Len(evidence) /\ Len(evidence) \in Nat
    BY DEF TypeOK
  <1>3. new.generation # 0
    <2>1. new.generation = generation
      OBVIOUS
    <2>2. CASE old = {}
      BY <2>1, <2>2
    <2>3. CASE old # {}
      <3>1. PICK e \in old : e = CHOOSE x \in old : TRUE
        BY <2>3
      <3>2. e \in DOMAIN evidence
        BY DEF Replaced
      <3>3. evidence[e] \in EvidenceRecord
        BY <1>2, <3>2
      <3>4. evidence[e].generation \in Nat
        BY <3>3 DEF EvidenceRecord
      <3> QED  BY <2>1, <2>3, <3>1, <3>4
    <2> QED  BY <2>2, <2>3
  <1>4. \A e \in DOMAIN evidence :
           /\ kept[e].generation = evidence[e].generation
           /\ kept[e].submission = evidence[e].submission
           /\ kept[e].revoked = evidence[e].revoked
    <2>1. ASSUME NEW x \in EvidenceRecord
          PROVE  LET y == [x EXCEPT !.superseded = TRUE]
                 IN  /\ y.generation = x.generation
                     /\ y.submission = x.submission /\ y.revoked = x.revoked
      BY DEF EvidenceRecord
    <2> QED  BY <1>2, <2>1
  <1>5. /\ DOMAIN evidence' = 1 .. Len(evidence) + 1
        /\ Len(evidence') = Len(evidence) + 1
        /\ \A e \in 1 .. Len(evidence) : evidence'[e] = kept[e]
        /\ evidence'[Len(evidence) + 1] = new
    <2> DEFINE K == {kept[e] : e \in DOMAIN evidence} \cup {new}
    <2>1. kept \in [1 .. Len(evidence) -> K] /\ new \in K
      BY <1>2
    <2> HIDE DEF kept, K, new
    <2>2. kept \in Seq(K) /\ Len(kept) = Len(evidence)
      BY <1>2, <2>1
    <2> QED  BY <1>1, <1>2, <2>1, <2>2
  <1> HIDE DEF kept, new
  <1>6. \A e \in DOMAIN evidence :
           /\ evidence'[e].generation = evidence[e].generation
           /\ compute_evidence_integrity(e, evidence'[e])
                 = compute_evidence_integrity(e, evidence[e])
    BY <1>2, <1>4, <1>5 DEF compute_evidence_integrity
  <1>7. 1 .. (Len(evidence) + 1) - 1 = 1 .. Len(evidence)
    BY <1>2
  <1> QED  BY <1>2, <1>3, <1>5, <1>6, <1>7

\* The digests follow the records.
LEMMA SealStep ==
    ASSUME TypeOK, SealsAreCurrent, [FileNext]_fileVars
    PROVE  SealsAreCurrent'
  <1>1. CASE UNCHANGED <<evidence, seals>>
    BY <1>1 DEF SealsAreCurrent
  <1>2. ASSUME NEW s \in Submissions, submit_evidence(s), SealNew
        PROVE  SealsAreCurrent'
    <2> DEFINE n == Len(evidence) + 1
               Seal(e) == compute_evidence_integrity(e, evidence'[e])
    <2>1. /\ n \in Nat /\ DOMAIN evidence = 1 .. n - 1
          /\ DOMAIN evidence' = 1 .. n /\ Len(evidence') = n
          /\ evidence'[n].generation # 0
          /\ \A e \in DOMAIN evidence :
                /\ evidence'[e].generation = evidence[e].generation
                /\ Seal(e) = compute_evidence_integrity(e, evidence[e])
      BY <1>2, SubmitSeals
    <2>2. n - 1 \in Nat /\ n = (n - 1) + 1
      BY DEF TypeOK
    <2> HIDE DEF n, Seal
    <2>3. seals = [e \in 1 .. n - 1 |-> Seal(e)]
      BY <2>1 DEF SealsAreCurrent
    <2>4. seals' = Append(seals, Seal(n))
      BY <1>2, <2>1 DEF SealNew, Seal
    <2>5. seals' = [e \in 1 .. n |-> Seal(e)]
      <3> DEFINE S == {Seal(e) : e \in 1 .. n}
      <3>1. seals \in [1 .. n - 1 -> S] /\ Seal(n) \in S
        BY <2>2, <2>3
      <3> HIDE DEF S
      <3>2. seals \in Seq(S) /\ Len(seals) = n - 1
        BY <2>2, <3>1
      <3>3. /\ seals' \in Seq(S) /\ Len(seals') = n
            /\ \A e \in 1 .. n : seals'[e] = IF e = n THEN Seal(n) ELSE seals[e]
        BY <2>2, <2>4, <3>1, <3>2
      <3>4. DOMAIN seals' = 1 .. n /\ \A e \in 1 .. n : seals'[e] = Seal(e)
        BY <2>2, <2>3, <3>3
      <3>5. seals' = [e \in DOMAIN seals' |-> seals'[e]]
        BY <3>3
      <3> QED  BY <3>4, <3>5
    <2>6. \A e \in DOMAIN evidence' : evidence'[e].generation # 0
      BY <2>1, <2>2 DEF SealsAreCurrent
    <2> QED  BY <2>1, <2>5, <2>6 DEF SealsAreCurrent, Seal
  <1>3. ASSUME NEW d \in DOMAIN evidence, revoke_evidence(d), SealAgain(d)
        PROVE  SealsAreCurrent'
    <2>1. evidence \in Seq(EvidenceRecord)
      BY DEF TypeOK
    <2>2. ASSUME NEW x \in EvidenceRecord
          PROVE  [x EXCEPT !.revoked = TRUE].generation = x.generation
      BY DEF EvidenceRecord
    <2>3. /\ DOMAIN evidence' = DOMAIN evidence
          /\ \A e \in DOMAIN evidence : e # d => evidence'[e] = evidence[e]
          /\ evidence'[d].generation = evidence[d].generation
      <3>1. evidence' = [evidence EXCEPT ![d] = [evidence[d] EXCEPT !.revoked = TRUE]]
        BY <1>3 DEF revoke_evidence
      <3>2. evidence[d] \in EvidenceRecord
        BY <2>1
      <3>3. /\ DOMAIN evidence' = DOMAIN evidence
            /\ \A e \in DOMAIN evidence : e # d => evidence'[e] = evidence[e]
            /\ evidence'[d] = [evidence[d] EXCEPT !.revoked = TRUE]
        BY <2>1, <3>1
      <3> QED  BY <2>2, <3>2, <3>3
    <2>4. seals' = [seals EXCEPT ![d] = compute_evidence_integrity(d, evidence'[d])]
      BY <1>3 DEF SealAgain
    <2>5. seals = [e \in DOMAIN evidence |-> compute_evidence_integrity(e, evidence[e])]
      BY DEF SealsAreCurrent
    <2>6. seals' = [e \in DOMAIN evidence |-> compute_evidence_integrity(e, evidence'[e])]
      <3> DEFINE Seal(e) == compute_evidence_integrity(e, evidence'[e])
      <3>1. \A e \in DOMAIN evidence :
               e # d => Seal(e) = compute_evidence_integrity(e, evidence[e])
        BY <2>3
      <3>2. seals' = [seals EXCEPT ![d] = Seal(d)]
        BY <2>4
      <3> HIDE DEF Seal
      <3>3. seals' = [e \in DOMAIN evidence |-> Seal(e)]
        BY <2>5, <3>1, <3>2
      <3> QED  BY <3>3 DEF Seal
    <2>7. \A e \in DOMAIN evidence' : evidence'[e].generation # 0
      BY <2>3 DEF SealsAreCurrent
    <2>8. DOMAIN seals' = DOMAIN evidence'
      BY <2>3, <2>6
    <2> QED  BY <2>3, <2>6, <2>7, <2>8 DEF SealsAreCurrent
  <1>4. CASE \/ \E s \in Submissions : submit_evidence(s) /\ SealNew
             \/ \E d \in DOMAIN evidence : revoke_evidence(d) /\ SealAgain(d)
    BY <1>2, <1>3, <1>4
  <1>5. CASE ~(\/ \E s \in Submissions : submit_evidence(s) /\ SealNew
               \/ \E d \in DOMAIN evidence : revoke_evidence(d) /\ SealAgain(d))
    <2>1. UNCHANGED <<evidence, seals>>
      BY <1>5 DEF FileNext, fileVars, vars, OtherOperation, Explain, ExplainAgain,
         register_artifact, publish_policy, restart, recover_in_flight,
         set_compatibility_generation, set_admission, ClockStep, evaluate, commit,
         quarantine, release_quarantine, revoke, supersede, retire,
         set_security_veto, set_dependency_veto
    <2> QED  BY <1>1, <2>1
  <1> QED  BY <1>4, <1>5

-----------------------------------------------------------------------------
(* Explanations.                                                           *)

\* An explanation that has a class when it has a source stage, and no more
\* gates than the reader takes.
SoundExplanation(x) ==
    /\ x \in Explanation
    /\ x.kind = "Invalid" <=> x.from = "Invalid"
    /\ x.gates <= kMaxDecisionGates

\* The gate that ends an evaluation is one of the list.
LEMMA StopIsWithin ==
    ASSUME NEW gates, Len(gates) \in Nat
    PROVE  SelectInSeq(gates, LAMBDA g : g.kind = "DependentArtifactPromoted")
              \in 0 .. Len(gates)
  <1> DEFINE I == {i \in 1 .. Len(gates) :
                      gates[i].kind = "DependentArtifactPromoted"}
             stop == SelectInSeq(gates, LAMBDA g :
                                    g.kind = "DependentArtifactPromoted")
  <1>1. stop = IF I # {} THEN Min(I) ELSE 0
    BY DEF SelectInSeq
  <1>2. I \subseteq Nat /\ I \subseteq 1 .. Len(gates)
    OBVIOUS
  <1> HIDE DEF I, stop
  <1>3. I # {} => Min(I) \in I
    BY <1>2, MinOfSet
  <1>4. stop = 0 \/ stop \in 1 .. Len(gates)
    BY <1>1, <1>2, <1>3
  <1>5. stop \in 0 .. Len(gates)
    BY <1>4
  <1> QED  BY <1>5 DEF stop

\* The gates of one evaluation are at most half of them.
LEMMA ListedGatesBound ==
    ASSUME TypeOK, NEW q
    PROVE  /\ Len(ListedGates(q)) \in Nat
           /\ 2 * Len(ListedGates(q)) <= kMaxDecisionGates
           /\ ListedReasons(q) \in Nat
  <1> DEFINE artifact == artifacts[q.artifact][q.artifact_revision]
             kind == artifact.registration.kind
             rule == FindRule(policy, kind, artifact.stage, q.to)
             gates == policy.rules[rule].gates
             stop == SelectInSeq(gates, LAMBDA g :
                                    g.kind = "DependentArtifactPromoted")
  <1>1. kMaxDecisionGates \in Nat
    BY RecordsAssumption
  <1>2. policy \in Policies /\ BoundedPolicy(policy)
    BY RecordsAssumption DEF TypeOK
  <1>3. /\ Len(ListedGates(q)) \in Nat
        /\ DOMAIN ListedGates(q) = 1 .. Len(ListedGates(q))
        /\ 2 * Len(ListedGates(q)) <= kMaxDecisionGates
    <2>1. CASE rule = 0
      <3>1. ListedGates(q) = <<>>
        BY <2>1 DEF ListedGates
      <3> QED  BY <1>1, <3>1
    <2>2. CASE rule # 0
      <3>1. rule \in DOMAIN policy.rules
        BY <1>2, <2>2, FoundRule DEF HasRule
      <3>2. BoundedRule(policy.rules[rule]) /\ gates \in Seq(Range(gates))
        BY <1>2, <3>1, PoliciesAssumption DEF BoundedPolicy
      <3>3. 2 * Len(gates) <= kMaxDecisionGates
        BY <3>2 DEF BoundedRule
      <3>4. ListedGates(q) = gates \/ ListedGates(q) = SubSeq(gates, 1, stop)
        BY <2>2 DEF ListedGates
      <3>5. Len(gates) \in Nat /\ DOMAIN gates = 1 .. Len(gates)
        <4> HIDE DEF gates
        <4> QED  BY <3>2
      <3>6. stop \in 0 .. Len(gates)
        <4> HIDE DEF gates
        <4> QED  BY <3>5, StopIsWithin
      <3> HIDE DEF stop, gates
      <3>7. /\ SubSeq(gates, 1, stop) \in Seq(Range(gates))
            /\ Len(SubSeq(gates, 1, stop)) = stop
        BY <3>2, <3>5, <3>6
      <3>8. /\ Len(SubSeq(gates, 1, stop)) \in Nat
            /\ DOMAIN SubSeq(gates, 1, stop) = 1 .. Len(SubSeq(gates, 1, stop))
            /\ 2 * Len(SubSeq(gates, 1, stop)) <= kMaxDecisionGates
        BY <1>1, <3>3, <3>5, <3>6, <3>7
      <3> QED  BY <3>3, <3>4, <3>5, <3>8
    <2> QED  BY <2>1, <2>2
  <1>4. ListedReasons(q) \in Nat
    <2> DEFINE listed == ListedGates(q)
               failed == {g \in DOMAIN listed : GateCode(listed[g], q) # "Ok"}
    <2>1. ListedReasons(q) = 1 \/ ListedReasons(q) = Cardinality(failed)
      BY DEF ListedReasons
    <2>2. failed \in SUBSET (1 .. Len(listed))
      BY <1>3
    <2> HIDE DEF listed, failed
    <2>3. Len(listed) \in Nat
      BY <1>3 DEF listed
    <2>4. IsFiniteSet(1 .. Len(listed))
      BY <2>3, FS_Interval
    <2>5. Cardinality(failed) \in Nat
      BY <2>2, <2>4, FS_Subset, FS_CardinalityType
    <2> QED  BY <2>1, <2>5
  <1> QED  BY <1>3, <1>4

\* A count of reasons stays a number.
LEMMA ReasonsType ==
    ASSUME NEW n \in Nat, NEW more \in Nat
    PROVE  AddReasons(n, more) \in Nat
  <1>1. kMaxDecisionReasons \in Nat
    BY RecordsAssumption
  <1> DEFINE S == {n + more, kMaxDecisionReasons + 1}
  <1>2. S \subseteq Nat /\ S # {}
    BY <1>1
  <1>3. Min(S) \in S
    BY <1>2, MinOfSet
  <1> QED  BY <1>2, <1>3 DEF AddReasons

\* A decision on a revision that exists has a class and a source stage.
LEMMA AboutType ==
    ASSUME TypeOK, NEW q, q.artifact \in ArtifactIds, q.to \in Stage,
           HasRevision(q.artifact, q.artifact_revision),
           NEW gates \in Nat, NEW reasons \in Nat
    PROVE  /\ About(q, gates, reasons) \in Explanation
           /\ About(q, gates, reasons).kind # "Invalid"
           /\ About(q, gates, reasons).from # "Invalid"
           /\ About(q, gates, reasons).gates = gates
  <1> DEFINE artifact == artifacts[q.artifact][q.artifact_revision]
  <1>1. artifact \in ArtifactRecord
    BY RevisionType
  <1>2. artifact.registration \in Registrations /\ artifact.stage \in Stage
    BY <1>1 DEF ArtifactRecord
  <1>3. artifact.registration.kind \in ArtifactKind
    BY <1>2, RecordsAssumption DEF ValidRegistration
  <1>4. AddReasons(reasons, 0) \in Nat
    BY ReasonsType
  <1>5. "Invalid" \notin ArtifactKind /\ "Invalid" \notin Stage
    BY DEF ArtifactKind, Stage
  <1>6. About(q, gates, reasons) =
           [kind |-> artifact.registration.kind, from |-> artifact.stage,
            to |-> q.to, gates |-> gates, reasons |-> AddReasons(reasons, 0)]
    BY DEF About
  <1> HIDE DEF artifact
  <1> QED  BY <1>2, <1>3, <1>4, <1>5, <1>6 DEF Explanation

\* The explanation evaluate() and release_quarantine() give.
LEMMA FirstExplanation ==
    ASSUME TypeOK
    PROVE  /\ \A q \in Requests :
                 /\ SoundExplanation(EvaluateExplanation(q))
                 /\ 2 * EvaluateExplanation(q).gates <= kMaxDecisionGates
           /\ \A id \in QuarantineIds :
                 Registered(id) => SoundExplanation(ReleaseExplanation(id))
  <1>1. kMaxDecisionGates \in Nat
    BY RecordsAssumption
  <1>2. ASSUME NEW x \in Explanation, x.kind # "Invalid", x.from # "Invalid",
               2 * x.gates <= kMaxDecisionGates
        PROVE  SoundExplanation(x)
    BY <1>1, <1>2 DEF SoundExplanation, Explanation
  <1>3. ASSUME NEW q, q.artifact \in ArtifactIds, q.to \in Stage,
               HasRevision(q.artifact, q.artifact_revision),
               NEW n \in Nat, NEW reasons \in Nat, 2 * n <= kMaxDecisionGates
        PROVE  /\ SoundExplanation(About(q, n, reasons))
               /\ 2 * About(q, n, reasons).gates <= kMaxDecisionGates
    BY <1>2, <1>3, AboutType
  <1>4. ASSUME NEW q \in Requests
        PROVE  /\ SoundExplanation(EvaluateExplanation(q))
               /\ 2 * EvaluateExplanation(q).gates <= kMaxDecisionGates
    <2>1. q.artifact \in ArtifactIds /\ q.to \in Stage
      BY InputsAssumption
    <2>2. CASE ~HasRevision(q.artifact, q.artifact_revision)
      <3>1. EvaluateExplanation(q) =
               [kind |-> "Invalid", from |-> "Invalid", to |-> q.to, gates |-> 0,
                reasons |-> 1]
        BY <2>2 DEF EvaluateExplanation
      <3> QED  BY <1>1, <2>1, <3>1 DEF SoundExplanation, Explanation
    <2>3. CASE HasRevision(q.artifact, q.artifact_revision)
      <3>1. PICK n \in Nat, reasons \in Nat :
               /\ EvaluateExplanation(q) = About(q, n, reasons)
               /\ 2 * n <= kMaxDecisionGates
        <4>1. CASE ~GatesAreEvaluated(q)
          BY <1>1, <2>3, <4>1 DEF EvaluateExplanation
        <4>2. CASE GatesAreEvaluated(q)
          <5>1. \/ EvaluateExplanation(q) = About(q, Len(ListedGates(q)), 1)
                \/ EvaluateExplanation(q) =
                      About(q, Len(ListedGates(q)), ListedReasons(q))
            BY <2>3, <4>2 DEF EvaluateExplanation
          <5> QED  BY <5>1, ListedGatesBound
        <4> QED  BY <4>1, <4>2
      <3> QED  BY <1>3, <2>1, <2>3, <3>1
    <2> QED  BY <2>2, <2>3
  <1>5. ASSUME NEW id \in QuarantineIds, Registered(id)
        PROVE  SoundExplanation(ReleaseExplanation(id))
    <2> DEFINE q == ReleaseRequest(id)
    <2>1. /\ q.artifact = id /\ q.artifact_revision = Current(id)
          /\ q.to = "Candidate"
      BY DEF ReleaseRequest
    <2>2. id \in ArtifactIds /\ q.to \in Stage
      BY <2>1, InputsAssumption DEF Stage
    <2> HIDE DEF q
    <2>3. HasRevision(q.artifact, q.artifact_revision)
      BY <1>5, <2>1, <2>2, CurrentIsRevision
    <2>4. ReleaseExplanation(id) = About(q, Len(ListedGates(q)), ListedReasons(q))
      BY DEF ReleaseExplanation, q
    <2> QED  BY <1>3, <2>1, <2>2, <2>3, <2>4, ListedGatesBound
  <1> QED  BY <1>4, <1>5

\* commit() evaluates the gates again only while the plan holds its reservation,
\* and the decision of such a plan lists them once.
LEMMA SecondExplanation ==
    ASSUME TypeOK, PlansAreFresh, DecisionsAreExplained, NEW p \in plans
    PROVE  SoundExplanation(CommitExplanation(p))
  <1> DEFINE before == explanations[p.decision]
             again == RequestOf(p)
  <1>1. kMaxDecisionGates \in Nat /\ p \in PromotionPlan
    BY RecordsAssumption DEF TypeOK
  <1>2. SoundExplanation(before)
    <2>1. p.decision \in 1 .. Len(explanations) /\ explanations \in Seq(Explanation)
      BY DEF DecisionsAreExplained
    <2>2. before \in Explanation
      BY <2>1
    <2> QED  BY <2>1, <2>2 DEF DecisionsAreExplained, SoundExplanation
  <1>3. CASE ~PolicyCurrent(p) \/ Expired(p) \/ ~ReservationHeld(p)
    <2>1. CommitExplanation(p) =
             [before EXCEPT !.reasons = AddReasons(@, 1)]
      BY <1>3 DEF CommitExplanation
    <2> HIDE DEF before
    <2>2. before \in Explanation /\ AddReasons(before.reasons, 1) \in Nat
      BY <1>2, ReasonsType DEF SoundExplanation, Explanation
    <2> QED  BY <1>2, <2>1, <2>2 DEF SoundExplanation, Explanation
  <1>4. CASE PolicyCurrent(p) /\ ~Expired(p) /\ ReservationHeld(p)
    <2>1. /\ again.artifact = p.artifact /\ again.to = p.to
          /\ again.artifact_revision = p.artifact_revision
      BY DEF RequestOf
    <2>2. /\ again.artifact \in ArtifactIds /\ again.to \in Stage
          /\ HasRevision(again.artifact, again.artifact_revision)
      BY <1>1, <2>1 DEF PromotionPlan, PlansAreFresh
    <2>3. 2 * before.gates <= kMaxDecisionGates
      BY <1>4 DEF DecisionsAreExplained
    <2>4. /\ CommitExplanation(p) =
                About(again, before.gates + Len(ListedGates(again)),
                      before.reasons + ListedReasons(again)
                         + IF EvidenceUnchanged(p) THEN 0 ELSE 1)
      BY <1>4 DEF CommitExplanation
    <2> HIDE DEF before, again
    <2>5. /\ before.gates \in Nat /\ before.reasons \in Nat
          /\ Len(ListedGates(again)) \in Nat /\ ListedReasons(again) \in Nat
          /\ 2 * Len(ListedGates(again)) <= kMaxDecisionGates
      BY <1>2, ListedGatesBound DEF SoundExplanation, Explanation
    <2> DEFINE n == before.gates + Len(ListedGates(again))
               reasons == before.reasons + ListedReasons(again)
                             + IF EvidenceUnchanged(p) THEN 0 ELSE 1
    <2>6. n \in Nat /\ reasons \in Nat /\ n <= kMaxDecisionGates
      <3>1. \A i, j, max \in Nat : 2 * i <= max /\ 2 * j <= max => i + j <= max
        OBVIOUS
      <3>2. n <= kMaxDecisionGates
        BY <1>1, <2>3, <2>5, <3>1
      <3>3. n \in Nat /\ reasons \in Nat
        BY <2>5
      <3> QED  BY <3>2, <3>3
    <2>7. CommitExplanation(p) = About(again, n, reasons)
      BY <2>4
    <2> HIDE DEF n, reasons
    <2> QED  BY <2>2, <2>6, <2>7, AboutType DEF SoundExplanation
  <1> QED  BY <1>3, <1>4

\* A new decision comes with its explanation, after those that are there.
LEMMA NewDecision ==
    ASSUME TypeOK, DecisionsAreExplained, NEW d, NEW x, SoundExplanation(x),
           decisions' = Append(decisions, d), explanations' = Append(explanations, x)
    PROVE  LET n == Len(decisions) + 1
           IN  /\ n \in Nat /\ Len(decisions') = n
               /\ explanations' \in Seq(Explanation) /\ Len(explanations') = n
               /\ explanations'[n] = x
               /\ \A e \in 1 .. Len(decisions) : explanations'[e] = explanations[e]
               /\ \A e \in 1 .. n : SoundExplanation(explanations'[e])
  <1>1. /\ decisions \in Seq(PromotionDecision) /\ explanations \in Seq(Explanation)
        /\ Len(explanations) = Len(decisions) /\ x \in Explanation
        /\ Len(decisions) \in Nat
    BY DEF TypeOK, DecisionsAreExplained, SoundExplanation
  <1>2. Len(decisions') = Len(decisions) + 1
    BY <1>1
  <1>3. /\ explanations' \in Seq(Explanation)
        /\ Len(explanations') = Len(decisions) + 1
        /\ explanations'[Len(decisions) + 1] = x
        /\ \A e \in 1 .. Len(decisions) : explanations'[e] = explanations[e]
    BY <1>1
  <1>4. \A e \in 1 .. Len(decisions) : SoundExplanation(explanations[e])
    BY <1>1 DEF DecisionsAreExplained, SoundExplanation
  <1>5. \A e \in 1 .. Len(decisions) + 1 :
           e \in 1 .. Len(decisions) \/ e = Len(decisions) + 1
    BY <1>1
  <1> QED  BY <1>1, <1>2, <1>3, <1>4, <1>5

\* evaluate(): the plan it may make is of the new decision.
LEMMA EvaluateExplained ==
    ASSUME TypeOK, PlansAreFresh, DecisionsAreExplained,
           NEW q \in Requests, evaluate(q), Explain(EvaluateExplanation(q))
    PROVE  DecisionsAreExplained'
  <1> DEFINE x == EvaluateExplanation(q)
             n == Len(decisions) + 1
             new == PlanFor(q)
  <1>1. SoundExplanation(x) /\ 2 * x.gates <= kMaxDecisionGates
    BY FirstExplanation
  <1>2. \E d : decisions' = Append(decisions, d)
    BY DEF evaluate, EvaluateUnknown, EvaluateRejected, EvaluatePlanned,
           EvaluateAtCapacity, Answer, Decide
  <1>3. explanations' = Append(explanations, x)
    BY DEF Explain
  <1>4. new.decision = n /\ new.id = plan_count + 1
    BY DEF PlanFor, NextDecision
  <1>5. /\ plans' \subseteq plans \cup {new}
        /\ pending' \subseteq pending \cup {ReservationFor(new)}
        /\ new \in plans' \/ pending' \subseteq pending
    BY EvictSubset DEF evaluate, EvaluateUnknown, EvaluateRejected, EvaluatePlanned,
           EvaluateAtCapacity, Release
  <1> HIDE DEF x, new
  <1>6. /\ n \in Nat /\ Len(decisions') = n
        /\ explanations' \in Seq(Explanation) /\ Len(explanations') = n
        /\ explanations'[n] = x
        /\ \A e \in 1 .. Len(decisions) : explanations'[e] = explanations[e]
        /\ \A e \in 1 .. n : SoundExplanation(explanations'[e])
    BY <1>1, <1>2, <1>3, NewDecision
  <1>7. /\ \A p \in plans : p.decision \in 1 .. Len(decisions) /\ p.id \in 1 .. plan_count
        /\ \A p, r \in plans : p.decision = r.decision => p = r
        /\ Len(decisions) \in Nat /\ plan_count \in Nat
    BY DEF DecisionsAreExplained, PlansAreFresh, TypeOK
  <1>8. \A p \in plans' : p.decision \in 1 .. n
    BY <1>4, <1>5, <1>7
  <1>9. \A p, r \in plans' : p.decision = r.decision => p = r
    BY <1>4, <1>5, <1>7
  <1>10. ASSUME NEW p \in plans', ReservationHeld(p)'
         PROVE  2 * explanations'[p.decision].gates <= kMaxDecisionGates
    <2>1. CASE p = new
      BY <1>1, <1>4, <1>6, <2>1
    <2>2. CASE p \in plans
      <3>1. PICK r \in pending' : r.artifact = p.artifact /\ r.plan = p.id
        BY <1>10 DEF ReservationHeld
      <3>2. ReservationFor(new).plan = plan_count + 1
        BY <1>4 DEF ReservationFor
      <3>3. r \in pending
        BY <1>5, <1>7, <2>2, <3>1, <3>2
      <3>4. ReservationHeld(p)
        BY <3>1, <3>3 DEF ReservationHeld
      <3>5. 2 * explanations[p.decision].gates <= kMaxDecisionGates
        BY <2>2, <3>4 DEF DecisionsAreExplained
      <3> QED  BY <1>6, <1>7, <2>2, <3>5
    <2> QED  BY <1>5, <2>1, <2>2
  <1> HIDE DEF n
  <1> QED  BY <1>6, <1>8, <1>9, <1>10 DEF DecisionsAreExplained, SoundExplanation

\* release_quarantine(): neither plans nor reservations change.
LEMMA ReleaseExplained ==
    ASSUME TypeOK, DecisionsAreExplained, NEW id \in QuarantineIds,
           release_quarantine(id), Explain(ReleaseExplanation(id))
    PROVE  DecisionsAreExplained'
  <1> DEFINE x == ReleaseExplanation(id)
             n == Len(decisions) + 1
  <1>1. SoundExplanation(x)
    BY FirstExplanation DEF release_quarantine
  <1>2. \E d : decisions' = Append(decisions, d)
    BY DEF release_quarantine, Decide
  <1>3. explanations' = Append(explanations, x)
    BY DEF Explain
  <1> HIDE DEF x
  <1>4. /\ n \in Nat /\ Len(decisions') = n
        /\ explanations' \in Seq(Explanation) /\ Len(explanations') = n
        /\ \A e \in 1 .. Len(decisions) : explanations'[e] = explanations[e]
        /\ \A e \in 1 .. n : SoundExplanation(explanations'[e])
    BY <1>1, <1>2, <1>3, NewDecision
  <1>5. plans' = plans /\ pending' = pending
    BY DEF release_quarantine
  <1>6. \A p \in plans : p.decision \in 1 .. Len(decisions) /\ p.decision \in 1 .. n
    BY DEF DecisionsAreExplained, TypeOK
  <1>7. \A p \in plans :
           ReservationHeld(p)' => 2 * explanations'[p.decision].gates <= kMaxDecisionGates
    BY <1>4, <1>5, <1>6 DEF DecisionsAreExplained, ReservationHeld
  <1>8. \A p, q \in plans : p.decision = q.decision => p = q
    BY DEF DecisionsAreExplained
  <1> HIDE DEF n
  <1> QED  BY <1>4, <1>5, <1>6, <1>7, <1>8 DEF DecisionsAreExplained, SoundExplanation

\* commit(): the plan does not hold its reservation after it, whatever the
\* outcome.
LEMMA CommitExplained ==
    ASSUME TypeOK, PlansAreFresh, DecisionsAreExplained, NEW p \in plans,
           commit(p), ExplainAgain(p.decision, CommitExplanation(p))
    PROVE  DecisionsAreExplained'
  <1> DEFINE x == CommitExplanation(p)
  <1>1. SoundExplanation(x)
    BY SecondExplanation
  <1>2. plans' = plans /\ pending' \subseteq pending /\ ~ReservationHeld(p)'
    BY DEF commit, CommitRefused, CommitPolicyStale, CommitExpired,
       CommitReservationLost, CommitEvidenceChanged, CommitGatesFailed,
       CommitTransition, Release, ReservationHeld
  <1>3. Len(decisions') = Len(decisions)
    <2>1. decisions \in Seq(PromotionDecision)
      BY DEF TypeOK
    <2>2. \E o : decisions' = [decisions EXCEPT ![p.decision].outcome = o]
      BY DEF commit, CommitRefused, CommitPolicyStale, CommitExpired,
         CommitReservationLost, CommitEvidenceChanged, CommitGatesFailed,
         CommitTransition, Redecide
    <2> QED  BY <2>1, <2>2
  <1>4. explanations' = [explanations EXCEPT ![p.decision] = x]
    BY DEF ExplainAgain
  <1> HIDE DEF x
  <1>5. /\ explanations \in Seq(Explanation) /\ Len(explanations) = Len(decisions)
        /\ p.decision \in 1 .. Len(decisions) /\ x \in Explanation
    BY <1>1 DEF DecisionsAreExplained, SoundExplanation
  <1>6. /\ explanations' \in Seq(Explanation) /\ Len(explanations') = Len(decisions)
        /\ \A e \in 1 .. Len(decisions) :
              explanations'[e] = IF e = p.decision THEN x ELSE explanations[e]
    BY <1>4, <1>5
  <1>7. \A e \in 1 .. Len(decisions) : SoundExplanation(explanations'[e])
    <2>1. \A e \in 1 .. Len(decisions) : SoundExplanation(explanations[e])
      BY <1>5 DEF DecisionsAreExplained, SoundExplanation
    <2> QED  BY <1>1, <1>6, <2>1
  <1>8. ASSUME NEW q \in plans, ReservationHeld(q)'
        PROVE  2 * explanations'[q.decision].gates <= kMaxDecisionGates
    <2>1. q # p /\ ReservationHeld(q)
      BY <1>2, <1>8 DEF ReservationHeld
    <2>2. q.decision # p.decision /\ q.decision \in 1 .. Len(decisions)
      BY <2>1 DEF DecisionsAreExplained
    <2>3. explanations'[q.decision] = explanations[q.decision]
      BY <1>6, <2>2
    <2> QED  BY <2>1, <2>3 DEF DecisionsAreExplained
  <1> QED  BY <1>2, <1>3, <1>6, <1>7, <1>8
           DEF DecisionsAreExplained, SoundExplanation

\* All the steps.
LEMMA ExplanationStep ==
    ASSUME TypeOK, PlansAreFresh, DecisionsAreExplained, [FileNext]_fileVars
    PROVE  DecisionsAreExplained'
  <1>1. CASE UNCHANGED <<decisions, explanations, plans>> /\ pending' \subseteq pending
    BY <1>1 DEF DecisionsAreExplained, ReservationHeld
  <1>2. CASE \/ \E q \in Requests : evaluate(q) /\ Explain(EvaluateExplanation(q))
             \/ \E p \in plans : commit(p)
                   /\ ExplainAgain(p.decision, CommitExplanation(p))
             \/ \E id \in QuarantineIds :
                   release_quarantine(id) /\ Explain(ReleaseExplanation(id))
    BY <1>2, EvaluateExplained, CommitExplained, ReleaseExplained
  <1>3. CASE \/ \E s \in Submissions : submit_evidence(s) /\ SealNew
             \/ \E e \in DOMAIN evidence : revoke_evidence(e) /\ SealAgain(e)
             \/ OtherOperation /\ UNCHANGED <<explanations, seals>>
             \/ UNCHANGED fileVars
    <2>1. UNCHANGED <<decisions, explanations, plans>> /\ pending' \subseteq pending
      BY <1>3 DEF fileVars, vars, OtherOperation, SealNew, SealAgain, Release,
         submit_evidence, revoke_evidence, register_artifact, publish_policy,
         restart, recover_in_flight, set_compatibility_generation, set_admission,
         ClockStep, quarantine, revoke, supersede, retire, set_security_veto,
         set_dependency_veto
    <2> QED  BY <1>1, <2>1
  <1> QED  BY <1>2, <1>3 DEF FileNext

\* The file's part of the state is sound in every behaviour.
THEOREM FileIsSound == FileSpec => []FileInvariant
  <1>1. FileInit => FileInvariant
    <2> SUFFICES ASSUME FileInit PROVE FileInvariant
      OBVIOUS
    <2>1. /\ evidence = <<>> /\ decisions = <<>> /\ plans = {}
          /\ explanations = <<>> /\ seals = <<>>
          /\ \A a \in ArtifactIds : Len(artifacts[a]) = 0
      BY DEF FileInit, Init
    <2>2. RevisionsAreInPlace
      BY <2>1 DEF RevisionsAreInPlace
    <2>3. SealsAreCurrent
      BY <2>1 DEF SealsAreCurrent
    <2>4. DecisionsAreExplained
      BY <2>1 DEF DecisionsAreExplained
    <2> QED  BY <2>2, <2>3, <2>4 DEF FileInvariant
  <1>2. EngineInvariant /\ FileInvariant /\ [FileNext]_fileVars => FileInvariant'
    <2> SUFFICES ASSUME EngineInvariant, FileInvariant, [FileNext]_fileVars
                 PROVE  FileInvariant'
      OBVIOUS
    <2>1. TypeOK /\ PlansAreFresh /\ [Next]_vars
      BY DEF EngineInvariant, PlanInvariant, FileNext, Next, fileVars
    <2> QED  BY <2>1, InPlaceStep, SealStep, ExplanationStep DEF FileInvariant
  <1> QED  BY <1>1, <1>2, EngineIsKept, PTL DEF FileSpec

\* Whatever state the operations reach, for every policy, every history and every
\* limit of the reader, and however many bytes a payload takes, the file saved
\* of it loads exactly when each of its decisions can be read, no list of it is
\* longer and the whole file no larger than the reader takes; what is loaded is
\* the state that was saved, and it passes the checks of install_state()
\* (snapshot.cpp 54-623, io.cpp 21-46, codec.cpp, store.cpp 98-233).
THEOREM SavedFileLoads ==
    ASSUME \A payload : ByteSize(payload) \in Nat
    PROVE  FileSpec => []SavedStateLoads
  <1>1. EngineInvariant /\ FileInvariant /\ VerifyConsistency => SavedStateLoads
    <2>1. ByteSize(Saved) \in Nat
      OBVIOUS
    <2> QED  BY <2>1, SoundStateLoads
  <1> QED  BY <1>1, EngineIsKept, FileIsSound, PTL
=============================================================================
