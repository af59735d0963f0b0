------------------------------- MODULE Registry -------------------------------
(***************************************************************************)
(* Registration of artifact revisions, ingestion of evidence, publication  *)
(* of policies and the control operations of the engine                    *)
(* (engine/engine.cpp).                                                    *)
(***************************************************************************)
EXTENDS GateEvaluation

-----------------------------------------------------------------------------
(* register_artifact().                                                    *)

NewRevision(registration) ==
    [registration |-> registration, stage |-> policy.entry,
     stage_generation |-> 1, promoted |-> FALSE, promotion_decision |-> 0,
     quarantined |-> FALSE, revoked |-> FALSE, superseded |-> FALSE]

\* Mutant of Demoted: the previous revision keeps its stage.
DemotedInPlace(previous) == [previous EXCEPT !.superseded = TRUE]

\* Mutant of Demoted: a revision that was revoked becomes superseded.
DemotedWhateverItIs(previous) ==
    [previous EXCEPT !.superseded = TRUE, !.stage = "Superseded",
                     !.stage_generation = @ + 1]

\* What a newer revision does to the one before it.  Its promotion flag and a
\* reservation on it stay.
Demoted(previous) ==
    IF previous.stage \in {"Promoted", "Revoked", "Retired"}
    THEN [previous EXCEPT !.superseded = TRUE]
    ELSE [previous EXCEPT !.superseded = TRUE, !.stage = "Superseded",
                          !.stage_generation = @ + 1]

\* The chain with its last revision demoted.
DemoteLast(chain) ==
    [i \in DOMAIN chain |-> IF i = Len(chain) THEN Demoted(chain[i])
                            ELSE chain[i]]

SameContentOtherKind(registration) ==
    \E a \in ArtifactIds : \E i \in DOMAIN artifacts[a] :
        /\ artifacts[a][i].registration.digest = registration.digest
        /\ artifacts[a][i].registration.kind # registration.kind

register_artifact(registration) ==
    LET id == registration.id
        chain == artifacts[id]
    IN  /\ admission_open
        /\ \/ Registered(id)
           \/ Cardinality({a \in ArtifactIds : Registered(a)}) < MaxArtifacts
        /\ ~SameContentOtherKind(registration)
        /\ Len(chain) < MaxRevisions
        /\ Registered(id) =>
              chain[Len(chain)].registration.digest # registration.digest
        /\ artifacts' = [artifacts EXCEPT ![id] =
                            Append(DemoteLast(chain), NewRevision(registration))]
        /\ UNCHANGED <<evidence, plans, plan_count, pending, decisions,
                       records, record_count, idempotency, policy, epoch,
                       compatibility_generation, vetoes, admission_open, now>>

-----------------------------------------------------------------------------
(* submit_evidence().                                                      *)

EvidenceKey(s) == <<s.subject, s.subject_revision, s.type, s.producer>>

\* The record a submission replaces: at most one record of a key is not
\* superseded.  A revoked record is replaced like any other.
Replaced(s) ==
    {e \in DOMAIN evidence : /\ EvidenceKey(evidence[e].submission) = EvidenceKey(s)
                             /\ ~evidence[e].superseded}

\* Mutant of EvidenceAdmitted: the bounds leave room for one record more.
OneMoreRecord(s) ==
    \/ Replaced(s) # {}
    \/ /\ Len(evidence) <= MaxEvidence
       /\ Cardinality(GatherEvidence(s.subject, s.subject_revision))
             <= MaxEvidencePerRevision

\* The bounds hold back new keys only.
EvidenceAdmitted(s) ==
    \/ Replaced(s) # {}
    \/ /\ Len(evidence) < MaxEvidence
       /\ Cardinality(GatherEvidence(s.subject, s.subject_revision))
             < MaxEvidencePerRevision

\* Mutant of SupersedeEvidence: a record that was revoked stays as it is.
SupersedeUnlessRevoked(old) ==
    [e \in DOMAIN evidence |->
        IF e \in old /\ ~evidence[e].revoked
        THEN [evidence[e] EXCEPT !.superseded = TRUE]
        ELSE evidence[e]]

\* The replaced record keeps its identity and is marked.
SupersedeEvidence(old) ==
    [e \in DOMAIN evidence |->
        IF e \in old THEN [evidence[e] EXCEPT !.superseded = TRUE]
        ELSE evidence[e]]

submit_evidence(s) ==
    LET old == Replaced(s)
        generation == IF old = {} THEN 1
                      ELSE evidence[CHOOSE e \in old : TRUE].generation + 1
        kept == SupersedeEvidence(old)
    IN  /\ admission_open
        /\ HasRevision(s.subject, s.subject_revision)
        /\ artifacts[s.subject][s.subject_revision].registration.digest
              = s.subject_digest
        /\ EvidenceAdmitted(s)
        /\ Len(evidence) < EvidenceLimit
        /\ evidence' = Append(kept, [submission |-> s, generation |-> generation,
                                     revoked |-> FALSE, superseded |-> FALSE])
        /\ UNCHANGED <<artifacts, plans, plan_count, pending, decisions,
                       records, record_count, idempotency, policy, epoch,
                       compatibility_generation, vetoes, admission_open, now>>

-----------------------------------------------------------------------------
(* Policy, epochs, admission and time.  None of the first four operations  *)
(* asks whether admission is open.                                         *)

\* Only a policy of the same identity must advance its generation, and no
\* reservation is released.
publish_policy(p) ==
    /\ ValidPolicy(p)
    /\ p.id = policy.id => p.generation > policy.generation
    /\ policy' = p
    /\ UNCHANGED <<artifacts, evidence, plans, plan_count, pending, decisions,
                   records, record_count, idempotency, epoch,
                   compatibility_generation, vetoes, admission_open, now>>

\* Mutant of restart: the reservations survive.
RestartKeepingReservations(e) ==
    /\ e > epoch
    /\ epoch' = e
    /\ UNCHANGED <<artifacts, evidence, plans, plan_count, pending, decisions,
                   records, record_count, idempotency, policy,
                   compatibility_generation, vetoes, admission_open, now>>

restart(e) ==
    /\ e > epoch
    /\ epoch' = e
    /\ pending' = {}
    /\ UNCHANGED <<artifacts, evidence, plans, plan_count, decisions,
                   records, record_count, idempotency, policy,
                   compatibility_generation, vetoes, admission_open, now>>

recover_in_flight ==
    /\ pending # {}
    /\ pending' = {}
    /\ UNCHANGED <<artifacts, evidence, plans, plan_count, decisions,
                   records, record_count, idempotency, policy, epoch,
                   compatibility_generation, vetoes, admission_open, now>>

set_compatibility_generation(g) ==
    /\ g > compatibility_generation
    /\ compatibility_generation' = g
    /\ pending' = {}
    /\ UNCHANGED <<artifacts, evidence, plans, plan_count, decisions,
                   records, record_count, idempotency, policy, epoch,
                   vetoes, admission_open, now>>

\* close_admission() and open_admission().
set_admission(open) ==
    /\ admission_open' = open
    /\ UNCHANGED <<artifacts, evidence, plans, plan_count, pending, decisions,
                   records, record_count, idempotency, policy, epoch,
                   compatibility_generation, vetoes, now>>

\* now_millis() reads the wall clock, which may be set back.
ClockStep ==
    /\ now' \in Instants
    /\ UNCHANGED <<artifacts, evidence, plans, plan_count, pending, decisions,
                   records, record_count, idempotency, policy, epoch,
                   compatibility_generation, vetoes, admission_open>>
=============================================================================
