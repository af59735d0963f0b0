------------------------------ MODULE StateFile ------------------------------
(***************************************************************************)
(* What the state file of a coordinator holds and whether a coordinator    *)
(* can start from it (persist/snapshot.cpp): the engine, with the parts of *)
(* its records that only the file's reader looks at.  These are the        *)
(* explanation of each decision (the class and the stages it is about, how *)
(* many gates and how many reasons it lists) and the integrity digest of   *)
(* each evidence record.                                                   *)
(***************************************************************************)
EXTENDS PromotionEngine, RecordCodec

CONSTANTS
    kMaxChains,          \* artifacts and vetoes that can be read: 1000000
    kMaxEntries,         \* entries of any other list: 10000000
    kMaxSnapshotBytes,   \* bytes of a file that is read: 256 MiB
    ByteSize(_)          \* the bytes of a payload, a number that depends on the
                         \* layout, which is left out

VARIABLES
    explanations,   \* the explanation of each decision
    seals           \* integrity_digest of each evidence record

fileVars == <<vars, explanations, seals>>

-----------------------------------------------------------------------------
(* What the validate() functions let in.                                   *)

\* ArtifactRegistration::validate().
ValidRegistration(r) ==
    /\ r = [id |-> r.id, kind |-> r.kind, digest |-> r.digest, name |-> r.name,
            provenance |-> r.provenance, dependencies |-> r.dependencies]
    /\ r.kind \in ArtifactKind
    /\ IsFiniteSet(r.provenance) /\ Cardinality(r.provenance) <= kMaxProvenance
    /\ \A p \in r.provenance :
          /\ p = [reference |-> p.reference, resolution |-> p.resolution]
          /\ p.resolution \in Range(ResolutionList) \cup {"Unknown"}
    /\ Len(r.dependencies) <= kMaxDependencies

\* EvidenceSubmission::validate().
ValidSubmission(s) ==
    /\ s = [subject |-> s.subject, subject_revision |-> s.subject_revision,
            subject_digest |-> s.subject_digest, type |-> s.type,
            producer |-> s.producer, result |-> s.result,
            produced |-> s.produced, environment |-> s.environment,
            has_window |-> s.has_window, valid_from |-> s.valid_from,
            valid_until |-> s.valid_until]
    /\ s.type \in Range(EvidenceTypeList)
    /\ s.result \in Range(ResultList) \cup {"Unknown"}
    /\ s.has_window => s.valid_from <= s.valid_until

\* The gates that the make_..._gate() functions make, with a type of evidence
\* where they need one.
MadeGate(g) ==
    \/ g.kind \in SimpleKinds /\ g = SimpleGate(g.kind)
    \/ g.kind = "ProvenanceRequired" /\ g = ProvenanceGate(g.reference)
    \/ /\ g.kind = "CompatibilityGenerationCurrent"
       /\ g = CompatibilityGate(g.generation)
    \/ /\ g.kind \in {"EvidenceRequired", "EvidenceFreshness",
                       "EnvironmentBinding", "ApprovalRequired"}
       /\ g.type \in Range(EvidenceTypeList)
       /\ CASE g.kind = "EvidenceRequired" -> g = EvidenceGate(g.type)
            [] g.kind = "EvidenceFreshness" -> g = FreshnessGate(g.type, g.maxAge)
            [] g.kind = "EnvironmentBinding" ->
                  g = EnvironmentGate(g.type, g.environment)
            [] g.kind = "ApprovalRequired" -> g = ApprovalGate(g.type)

\* What the factories make of a rule.  commit() evaluates the gates of a plan a
\* second time, so a decision can list those of a rule twice.
BoundedRule(rule) ==
    /\ rule = [kinds |-> rule.kinds, from |-> rule.from, to |-> rule.to,
               gates |-> rule.gates, rollback |-> rule.rollback]
    /\ rule.kinds = ArtifactKind \/ \E kind \in ArtifactKind : rule.kinds = {kind}
    /\ rule.from \in Stage /\ rule.to \in Stage
    /\ 2 * Len(rule.gates) <= kMaxDecisionGates
    /\ \A g \in DOMAIN rule.gates : MadeGate(rule.gates[g])

\* What PromotionPolicy and add_edge() make of a policy.
BoundedPolicy(p) ==
    /\ p = [id |-> p.id, generation |-> p.generation, entry |-> p.entry,
            graph |-> p.graph, rules |-> p.rules]
    /\ p.graph \subseteq Stage \X Stage /\ IsFiniteSet(p.graph)
    /\ \A e \in p.graph : e[1] # e[2]
    /\ \A r \in DOMAIN p.rules : BoundedRule(p.rules[r])

ASSUME RecordsAssumption ==
    /\ kMaxDecisionGates \in Nat /\ kMaxDecisionReasons \in Nat
    /\ {kMaxChains, kMaxEntries, kMaxSnapshotBytes} \subseteq Nat
    /\ \A r \in Registrations : ValidRegistration(r)
    /\ \A s \in Submissions : ValidSubmission(s)
    /\ \A p \in Policies : BoundedPolicy(p)

-----------------------------------------------------------------------------
(* What an operation adds to a decision.                                   *)

\* The gates evaluate_gates() lists: all of the rule, up to the gate that ends
\* the evaluation.
ListedGates(q) ==
    LET artifact == artifacts[q.artifact][q.artifact_revision]
        rule == FindRule(policy, artifact.registration.kind, artifact.stage, q.to)
        gates == policy.rules[rule].gates
    IN  IF rule = 0 THEN <<>>
        ELSE IF DependencyUnregistered(gates, artifact)
        THEN SubSeq(gates, 1, SelectInSeq(gates, LAMBDA g :
                                  g.kind = "DependentArtifactPromoted"))
        ELSE gates

\* A reason for each gate that fails, or one that there is no rule.
ListedReasons(q) ==
    LET gates == ListedGates(q)
    IN  IF gates = <<>> /\ EvaluateGates(q) # "PromotionEligible" THEN 1
        ELSE Cardinality({g \in DOMAIN gates : GateCode(gates[g], q) # "Ok"})

\* Counts beyond the bound of the file are alike (bound of the model).
AddReasons(n, more) == Min({n + more, kMaxDecisionReasons + 1})

\* A decision on a revision that exists.
About(q, gates, reasons) ==
    LET artifact == artifacts[q.artifact][q.artifact_revision]
    IN  [kind |-> artifact.registration.kind, from |-> artifact.stage,
         to |-> q.to, gates |-> gates, reasons |-> AddReasons(reasons, 0)]

\* Whether evaluate() comes to evaluate_gates().
GatesAreEvaluated(q) ==
    LET artifact == artifacts[q.artifact][q.artifact_revision]
    IN  /\ KnownRevision(q)
        /\ artifact.stage # q.to
        /\ StageIsReachable(artifact.registration.kind, artifact.stage, q.to)
        /\ ~ConflictingReservation(q.artifact, q.request, q.attempt)

EvaluateExplanation(q) ==
    IF ~HasRevision(q.artifact, q.artifact_revision)
    THEN [kind |-> "Invalid", from |-> "Invalid", to |-> q.to, gates |-> 0,
          reasons |-> 1]
    ELSE IF ~GatesAreEvaluated(q) THEN About(q, 0, 1)
    ELSE About(q, Len(ListedGates(q)),
               IF /\ Verdict(q) = "PromotionEligible"
                  /\ ~ReservationAvailable(q.artifact)
               THEN 1 ELSE ListedReasons(q))

\* Each refused commit adds to what the decision lists.
CommitExplanation(p) ==
    LET before == explanations[p.decision]
        again == RequestOf(p)
    IN  IF ~PolicyCurrent(p) \/ Expired(p) \/ ~ReservationHeld(p)
        THEN [before EXCEPT !.reasons = AddReasons(@, 1)]
        ELSE About(again, before.gates + Len(ListedGates(again)),
                   before.reasons + ListedReasons(again)
                      + IF EvidenceUnchanged(p) THEN 0 ELSE 1)

ReleaseExplanation(id) ==
    LET q == ReleaseRequest(id)
    IN  About(q, Len(ListedGates(q)), ListedReasons(q))

-----------------------------------------------------------------------------
(* The operations, with what they do to explanations and seals.            *)

FileInit == Init /\ explanations = <<>> /\ seals = <<>>

Explain(explanation) ==
    explanations' = Append(explanations, explanation) /\ UNCHANGED seals

ExplainAgain(decision, explanation) ==
    /\ explanations' = [explanations EXCEPT ![decision] = explanation]
    /\ UNCHANGED seals

\* submit_evidence() computes the digest of the new record; the record it
\* replaces keeps its own, which does not cover the supersession.
SealNew ==
    /\ seals' = Append(seals, compute_evidence_integrity(Len(evidence'),
                                                        evidence'[Len(evidence')]))
    /\ UNCHANGED explanations

\* Mutant of SealAgain: the digest stays that of the record before.
SealNotAgain(e) == UNCHANGED <<seals, explanations>>

\* revoke_evidence() computes the digest of the revoked record.
SealAgain(e) ==
    /\ seals' = [seals EXCEPT ![e] = compute_evidence_integrity(e, evidence'[e])]
    /\ UNCHANGED explanations

FileNext ==
    \/ \E s \in Submissions : submit_evidence(s) /\ SealNew
    \/ \E e \in DOMAIN evidence : revoke_evidence(e) /\ SealAgain(e)
    \/ \E q \in Requests : evaluate(q) /\ Explain(EvaluateExplanation(q))
    \/ \E p \in plans : commit(p) /\ ExplainAgain(p.decision, CommitExplanation(p))
    \/ \E id \in QuarantineIds :
          release_quarantine(id) /\ Explain(ReleaseExplanation(id))
    \/ OtherOperation /\ UNCHANGED <<explanations, seals>>

FileSpec == FileInit /\ [][FileNext]_fileVars

-----------------------------------------------------------------------------
(* Saving.  snapshot() copies the state without the reservations; encode() *)
(* writes its sections, however many entries and bytes they have.  The     *)
(* audit history is not part of the model, so its section is empty.        *)

snapshot ==
    [epoch |-> epoch, compatibility_generation |-> compatibility_generation,
     policy |-> policy, artifacts |-> artifacts, evidence |-> evidence,
     seals |-> seals, plans |-> plans, decisions |-> decisions,
     explanations |-> explanations, records |-> records,
     idempotency |-> idempotency, vetoes |-> vetoes,
     plan_count |-> plan_count, record_count |-> record_count]

Section == {"Header", "Policy", "Artifacts", "Evidence", "Plans", "Decisions",
            "Records", "Idempotency", "History", "Vetoes", "Generators"}

write_section(kind, body) == [kind |-> kind, body |-> body]

Payload(state) ==
    <<write_section("Header", <<state.epoch, state.compatibility_generation>>),
      write_section("Policy", write_policy(state.policy)),
      write_section("Artifacts",
          {<<a, [v \in DOMAIN state.artifacts[a] |->
                    write_artifact(a, v, state.artifacts[a][v])]>> :
             a \in {b \in ArtifactIds : state.artifacts[b] # <<>>}}),
      write_section("Evidence",
          [e \in DOMAIN state.evidence |->
              write_evidence(e, state.evidence[e], state.seals[e])]),
      write_section("Plans", {write_plan(p) : p \in state.plans}),
      write_section("Decisions",
          [d \in DOMAIN state.decisions |->
              write_decision(state.decisions[d], state.explanations[d])]),
      write_section("Records", {write_promotion_record(r) : r \in state.records}),
      write_section("Idempotency",
                    {write_idempotency(i) : i \in state.idempotency}),
      write_section("History", {}),
      write_section("Vetoes",
                    {<<a, write_veto(state.vetoes[a])>> : a \in DOMAIN state.vetoes}),
      write_section("Generators", <<state.plan_count, state.record_count>>)>>

kFormatVersion == 1

\* The footer digest stands for what it covers.
encode(state) ==
    LET payload == Payload(state)
        content == [version |-> kFormatVersion, reserved |-> 0,
                    length |-> ByteSize(payload), payload |-> payload]
    IN  [content |-> content, footer |-> content]

-----------------------------------------------------------------------------
(* Loading: read_file() and decode().                                      *)

kMaxSections == 32
kMaxChain == 1024

kHeaderSize == 20
kFooterSize == 32

\* The size of the file on disk.
FileBytes(file) == kHeaderSize + ByteSize(file.content.payload) + kFooterSize

\* The checks before any record is read.
FrameIsSound(file) ==
    LET content == file.content
    IN  /\ file.footer = content
        /\ content.version = kFormatVersion /\ content.reserved = 0
        /\ content.length <= kMaxSnapshotBytes
        /\ content.length = ByteSize(content.payload)
        /\ Len(content.payload) <= kMaxSections

\* Every section is known, every mandatory one is there, and none is twice.
SectionsAreComplete(payload) ==
    /\ {payload[i].kind : i \in DOMAIN payload} = Section
    /\ \A i, j \in DOMAIN payload : payload[i].kind = payload[j].kind => i = j

Body(payload, kind) ==
    payload[CHOOSE i \in DOMAIN payload : payload[i].kind = kind].body

\* count(): the length of a list that is read.
Countable(n, limit) == n <= limit

CountsAreReadable(payload) ==
    /\ \A kind \in {"Artifacts", "Vetoes"} :
          Countable(Cardinality(Body(payload, kind)), kMaxChains)
    /\ \A kind \in {"Plans", "Records", "Idempotency"} :
          Countable(Cardinality(Body(payload, kind)), kMaxEntries)
    /\ \A kind \in {"Evidence", "Decisions"} :
          Countable(Len(Body(payload, kind)), kMaxEntries)

ChainIsReadable(chain) ==
    /\ chain[2] # <<>> /\ Countable(Len(chain[2]), kMaxChain)
    /\ \A v \in DOMAIN chain[2] :
          artifact_readable(chain[2][v]) /\ chain[2][v][1] = chain[1]

BodiesAreReadable(payload) ==
    /\ policy_readable(Body(payload, "Policy"))
    /\ \A c \in Body(payload, "Artifacts") : ChainIsReadable(c)
    /\ \A e \in DOMAIN Body(payload, "Evidence") :
          evidence_readable(Body(payload, "Evidence")[e])
    /\ \A p \in Body(payload, "Plans") : plan_readable(p)
    /\ \A d \in DOMAIN Body(payload, "Decisions") :
          decision_readable(Body(payload, "Decisions")[d])
    /\ \A r \in Body(payload, "Records") : promotion_record_readable(r)
    /\ \A i \in Body(payload, "Idempotency") : idempotency_readable(i)

\* decode() gives a state and not an error.
Decodes(file) ==
    /\ FrameIsSound(file)
    /\ SectionsAreComplete(file.content.payload)
    /\ CountsAreReadable(file.content.payload)
    /\ BodiesAreReadable(file.content.payload)

\* load() gives a state: read_file() refuses a file that is too large before
\* decode() sees it.
Loads(file) == FileBytes(file) <= kMaxSnapshotBytes /\ Decodes(file)

\* The chain read for an artifact, empty for one that was not written.
ReadChain(chains, id) ==
    LET found == {c \in chains : c[1] = id}
        chain == CHOOSE c \in found : TRUE
    IN  IF found = {} THEN <<>>
        ELSE [v \in DOMAIN chain[2] |-> read_artifact(chain[2][v])]

\* A generator continues after what it issued and after all that is stored.
Observe(counter, stored) == Max({counter} \cup {r.id : r \in stored})

\* The policy of the state is that of its section: set_active_policy() replaces
\* what the header says of it, so the comparison of the two finds them equal.
decode(file) ==
    LET payload == file.content.payload
        header == Body(payload, "Header")
        stored_evidence == Body(payload, "Evidence")
        stored_decisions == Body(payload, "Decisions")
        loaded_plans == {read_plan(p) : p \in Body(payload, "Plans")}
        loaded_records == {read_promotion_record(r) : r \in Body(payload, "Records")}
        generators == Body(payload, "Generators")
    IN  [epoch |-> header[1], compatibility_generation |-> header[2],
         policy |-> read_policy(Body(payload, "Policy")),
         artifacts |-> [a \in ArtifactIds |->
                           ReadChain(Body(payload, "Artifacts"), a)],
         evidence |-> [e \in DOMAIN stored_evidence |->
                          read_evidence(stored_evidence[e])],
         seals |-> [e \in DOMAIN stored_evidence |-> stored_evidence[e][9]],
         plans |-> loaded_plans,
         decisions |-> [d \in DOMAIN stored_decisions |->
                           read_decision(stored_decisions[d])],
         explanations |-> [d \in DOMAIN stored_decisions |->
                              read_explanation(stored_decisions[d])],
         records |-> loaded_records,
         idempotency |-> {read_idempotency(i) : i \in Body(payload, "Idempotency")},
         vetoes |-> [a \in {v[1] : v \in Body(payload, "Vetoes")} |->
                        read_veto((CHOOSE v \in Body(payload, "Vetoes") :
                                      v[1] = a)[2])],
         plan_count |-> Observe(generators[1], loaded_plans),
         record_count |-> Observe(generators[2], loaded_records)]

-----------------------------------------------------------------------------
(* Properties.                                                             *)

\* A decision the reader of the file refuses: it is about a revision that is
\* not registered and so has no class and no source stage, or its plan was
\* committed in vain so often that it has more reasons than can be read.
Unreadable(d) ==
    \/ explanations[d].kind = "Invalid"
    \/ explanations[d].reasons > kMaxDecisionReasons

\* The state has more of something than a file that is read may have, or the
\* file saved of it is too large.  The
\* engine bounds its plans, its records, its artifacts and their revisions by
\* EngineConfig, which the file's limits do not know of, and its decisions,
\* idempotency records, vetoes and superseded evidence not at all.
Oversized(file) ==
    \/ \E a \in ArtifactIds : Len(artifacts[a]) > kMaxChain
    \/ \E S \in {{a \in ArtifactIds : Registered(a)}, DOMAIN vetoes} :
          Cardinality(S) > kMaxChains
    \/ \E S \in {plans, records, idempotency} : Cardinality(S) > kMaxEntries
    \/ \E n \in {Len(evidence), Len(decisions)} : n > kMaxEntries
    \/ FileBytes(file) > kMaxSnapshotBytes

\* Whatever state the operations reach, the file saved of it loads and gives
\* that state back, every enumerator, list and digest of it, and it passes the
\* checks of install_state(), up to the very limits of the reader.  A state
\* beyond one of them, or with a decision of the kind above, is saved all the
\* same, for encode() and save() test neither, and the file does not load
\* (snapshot.cpp 54-156, 158-623, io.cpp 21-46, codec.cpp, store.cpp 98-233,
\* engine.cpp 641-651, trust.cpp 507).
SavedStateLoads ==
    LET file == encode(snapshot)
    IN  IF Oversized(file) \/ \E d \in DOMAIN decisions : Unreadable(d)
        THEN ~Loads(file)
        ELSE Loads(file) /\ decode(file) = snapshot /\ VerifyConsistency

\* "Decodes exactly what Writer produced" (detail/reader.hpp 22): a file that a
\* coordinator saved is one that a coordinator can load (snapshot.cpp 158-606).
EverySavedStateLoads == Loads(encode(snapshot))
=============================================================================
