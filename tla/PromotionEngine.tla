--------------------------- MODULE PromotionEngine ---------------------------
(***************************************************************************)
(* The promotion engine: every public operation of PromotionEngine that    *)
(* changes the authoritative state, in any order and from any number of    *)
(* callers.  Each operation holds state_mutex_ exclusively from its first  *)
(* check to its last write, so it is one step; evaluate() and commit() are *)
(* two, and anything may happen between them.                              *)
(***************************************************************************)
EXTENDS Registry, TrustMutation

\* The operations that neither make a decision nor touch evidence.
OtherOperation ==
    \/ \E r \in Registrations : register_artifact(r)
    \/ \E p \in Policies : publish_policy(p)
    \/ \E e \in Epochs : restart(e)
    \/ recover_in_flight
    \/ \E g \in CompatibilityGenerations : set_compatibility_generation(g)
    \/ \E open \in AdmissionStates : set_admission(open)
    \/ ClockStep
    \/ \E id \in QuarantineIds : quarantine(id)
    \/ \E id \in WithdrawalIds, d \in RevocationTargets : revoke(id, d)
    \/ \E id \in WithdrawalIds, successor \in ArtifactIds : supersede(id, successor)
    \/ \E id \in WithdrawalIds : retire(id)
    \/ \E id \in VetoIds, b \in BOOLEAN : set_security_veto(id, b)
    \/ \E id \in VetoIds, b \in BOOLEAN : set_dependency_veto(id, b)

Next ==
    \/ \E s \in Submissions : submit_evidence(s)
    \/ \E e \in DOMAIN evidence : revoke_evidence(e)
    \/ \E q \in Requests : evaluate(q)
    \/ \E p \in plans : commit(p)
    \/ \E id \in QuarantineIds : release_quarantine(id)
    \/ OtherOperation

Spec == Init /\ [][Next]_vars

-----------------------------------------------------------------------------
(* Properties.                                                             *)

\* The records a step adds for a plan.
NewCommits == {r \in records' \ records : r.plan # 0}

\* A plan made under an earlier coordinator epoch, compatibility generation or
\* policy never commits: restart() and set_compatibility_generation() release
\* the reservations, and nothing gives a plan its reservation back, although
\* the plan itself stays stored (engine.cpp 177-201, trust.cpp 584-586,
\* promotion.cpp 289-318).
OldAuthorityNeverCommits ==
    [][\A r \in NewCommits : \A p \in plans :
          p.id = r.plan => /\ p.epoch = epoch
                           /\ p.compatibility = compatibility_generation
                           /\ p.policy = policy]_vars

\* A plan makes at most one transition, however often its commit is retried
\* and whatever happens between the attempts (promotion.cpp 343-354, 461).
PlanCommitsOnce ==
    \A r, s \in records : r.plan # 0 /\ r.plan = s.plan => r = s

\* A request makes at most one transition: retrying evaluate() never plans a
\* second one (promotion.cpp 56-69).
RequestCommitsOnce ==
    \A r, s \in records :
        r.plan # 0 /\ s.plan # 0 /\ r.request = s.request => r = s

\* Why the three properties above hold, step by step: identities are fresh; a
\* stored plan names a revision that exists; a reservation belongs to one plan,
\* that was made under the authority of the moment and has not committed; and
\* the idempotency record of a request names the only plan it ever got
\* (promotion.cpp 142-217, 343-354, 411-461).
PlansAreFresh ==
    /\ \A p \in plans : /\ p.id \in 1 .. plan_count
                        /\ HasRevision(p.artifact, p.artifact_revision)
    /\ \A p, q \in plans : p.id = q.id => p = q

ReservationsAreCurrent ==
    /\ \A r \in pending : r.plan \in 1 .. plan_count
    /\ \A r, s \in pending : r.plan = s.plan => r = s
    /\ \A r \in pending : \A p \in plans :
          p.id = r.plan => /\ p.request = r.request
                           /\ p.epoch = epoch
                           /\ p.compatibility = compatibility_generation

CommitsAreFinal ==
    /\ \A r \in records : r.plan \in 0 .. plan_count
    /\ \A r \in records : \A s \in pending : r.plan # s.plan

RequestsHaveOnePlan ==
    /\ \A i, j \in idempotency : i.request = j.request => i = j
    /\ \A r \in pending :
          \E i \in idempotency : i.request = r.request /\ i.plan = r.plan
    /\ \A r \in records :
          r.plan # 0 =>
              \E i \in idempotency : i.request = r.request /\ i.plan = r.plan

PlanInvariant ==
    /\ PlansAreFresh
    /\ ReservationsAreCurrent
    /\ CommitsAreFinal
    /\ PlanCommitsOnce
    /\ RequestsHaveOnePlan

\* The transition of a request is recorded.
RequestRecorded(request) == \E r \in records : r.plan # 0 /\ r.request = request

\* A retry is answered from the decision that the request's idempotency record
\* names, which every later commit() of the plan rewrites, and not from the
\* outcome of that record.  So a retry is told of success only if the
\* idempotency record has the request committed, and that it has for every
\* request whose transition is recorded and for no other, but for one whose
\* record may have been evicted.  The converse of the first part does not
\* hold: a second commit() of the plan leaves CONFLICT in the decision of a
\* request that committed (promotion.cpp 56-69, 343-354, 441-459).
IdempotencyAgreesWithRecords ==
    \A i \in idempotency :
        /\ i.decision \in DOMAIN decisions
        /\ decisions[i.decision].request = i.request
        /\ decisions[i.decision].outcome = "PromotionCommitted"
              => i.outcome = "PromotionCommitted"
        /\ RequestRecorded(i.request) => i.outcome = "PromotionCommitted"
        /\ i.outcome = "PromotionCommitted"
              => RequestRecorded(i.request) \/ record_count > MaxRecords

\* A transition starts from the stage, and the generation of that stage, its
\* plan was made for, although commit() compares neither with the plan:
\* whatever moves an artifact releases the reservation or leaves the artifact
\* where no rule leads to the plan's target (promotion.cpp 356-394,
\* engine.cpp 313-317, trust.cpp 84-90).
CommitsFromPlannedStage ==
    [][\A r \in NewCommits : \A p \in plans :
          p.id = r.plan =>
             /\ r.from = p.from
             /\ artifacts[p.artifact][p.artifact_revision].stage_generation
                   = p.stage_generation]_vars

\* check_invariants() of a reservation: it is on a revision that exists and is at
\* the stage, and the generation of it, that was reserved.
ReservationAccounts(r) ==
    /\ HasRevision(r.artifact, r.artifact_revision)
    /\ LET artifact == artifacts[r.artifact][r.artifact_revision]
       IN  /\ artifact.stage_generation = r.stage_generation
           /\ artifact.stage = r.from

\* Reservations and artifact state account exactly, except that two operations
\* move an artifact and keep a reservation on it: the registration of a newer
\* revision, and the release of a quarantine while a request to leave QUARANTINED
\* is outstanding (engine.cpp 674-692, 300-317, trust.cpp 177-181).
ReservationsAccount ==
    \A r \in pending :
        \/ ReservationAccounts(r)
        \/ r.artifact_revision # Current(r.artifact)
        \/ /\ r.from = "Quarantined"
           /\ artifacts[r.artifact][r.artifact_revision].stage_generation
                 > r.stage_generation

\* Only the newest revision of an artifact is ever promoted, although a
\* reservation survives the registration of a newer one (engine.cpp 300-317).
OnlyCurrentRevisionIsPromoted ==
    [][\A r \in NewCommits :
          r.to = "Promoted" => r.artifact_revision = Current(r.artifact)]_vars

\* The records kept are those of the last MaxRecords transitions.
LatestRecordsAreKept ==
    {r.id : r \in records}
        = {n \in 1 .. record_count : n + MaxRecords > record_count}

\* The promotions of a revision that are still on record.
PromotionRecords(id, revision) ==
    {r \in records : /\ r.artifact = id /\ r.artifact_revision = revision
                     /\ r.to = "Promoted"}

\* The newest of them is of the plan and the request that decision d is about.
PromotionIsOnRecord(id, revision, d) ==
    \E r \in PromotionRecords(id, revision) :
        /\ \A s \in PromotionRecords(id, revision) : s.id <= r.id
        /\ r.decision = d
        /\ r.plan = decisions[d].plan /\ r.request = decisions[d].request

\* A revision that holds the promotion flag names a decision that is held, and
\* the newest record of its promotion is of that decision, its plan and its
\* request.  It has none only when so many transitions were recorded that
\* records were evicted, oldest first, and with its record every older one of
\* the revision's promotions has gone.  Whether the decision still says
\* committed is not part of it: a second commit() of the plan rewrites it
\* (engine.cpp 692-712, promotion.cpp 343-354, 398-454).
PromotedHasRecord ==
    /\ LatestRecordsAreKept
    /\ \A a \in ArtifactIds : \A v \in DOMAIN artifacts[a] :
          artifacts[a][v].promoted =>
             LET d == artifacts[a][v].promotion_decision
             IN  /\ d \in DOMAIN decisions
                 /\ \/ PromotionIsOnRecord(a, v, d)
                    \/ PromotionRecords(a, v) = {} /\ record_count > MaxRecords

\* A current revision that is quarantined is not promoted, and one that was
\* revoked does not hold the promotion flag again, in whatever order plans,
\* commits and operations come (engine.cpp 727-738).
NoAuthorityWithoutTrust ==
    \A a \in ArtifactIds :
        Registered(a) =>
            LET artifact == artifacts[a][Current(a)]
            IN  /\ artifact.quarantined => artifact.stage # "Promoted"
                /\ artifact.revoked => ~artifact.promoted

\* A revision that was revoked or retired stays so, whichever way it came there:
\* by revoke(), which records the revocation, or by a request under the rule
\* that leads to REVOKED, which records none, and whatever newer revisions,
\* releases and outstanding plans do later (policy.cpp 501-506, engine.cpp
\* 306-317, trust.cpp 62-70).
WithdrawnTrustIsFinal ==
    [][\A a \in ArtifactIds : \A v \in DOMAIN artifacts[a] :
          artifacts[a][v].stage \in {"Revoked", "Retired"}
             => artifacts'[a][v].stage \in {"Revoked", "Retired"}]_vars

\* The records kept of a revision tell one story: each starts at the stage the
\* one before it reached, or at a stage that an operation without a record (a
\* quarantine, a newer revision) put it in (promotion.cpp 398-444).
RecordsFormAPath ==
    \A r, s \in records :
        /\ r.artifact = s.artifact /\ r.artifact_revision = s.artifact_revision
        /\ r.id < s.id
        /\ \A t \in records : ~(/\ t.artifact = r.artifact
                                /\ t.artifact_revision = r.artifact_revision
                                /\ r.id < t.id /\ t.id < s.id)
        => s.from \in {r.to, "Quarantined", "Superseded"}

\* The gates of the rule a transition was made under.
GatesOf(r) ==
    LET kind == artifacts[r.artifact][r.artifact_revision].registration.kind
        gates == policy.rules[FindRule(policy, kind, r.from, r.to)].gates
    IN  {gates[g] : g \in DOMAIN gates}

\* A transition that demands fresh evidence rests on evidence its plan named
\* that is fresh when it commits, in the integers and not in the unsigned
\* arithmetic of the code, whatever the wall clock did since the plan
\* (evaluate.cpp 645-666).
StaleEvidenceNeverCommits ==
    [][\A r \in NewCommits : \A p \in plans :
          p.id = r.plan =>
             \A g \in {x \in GatesOf(r) : x.kind = "EvidenceFreshness"} :
                \E e \in p.snapshot :
                   LET s == evidence[e].submission
                   IN  /\ s.type = g.type /\ s.result = "Pass"
                       /\ s.produced <= now + FutureSkew
                       /\ now - s.produced <= g.maxAge
                       /\ s.has_window => now \in s.valid_from .. s.valid_until
      ]_vars

\* An artifact whose dependencies must be promoted commits only while each of
\* them has a current revision that holds authority: revoking, retiring or
\* quarantining a dependency after the plan was made stops it
\* (evaluate.cpp 524-560).
DependenciesHoldAuthority ==
    [][\A r \in NewCommits :
          (\E g \in GatesOf(r) : g.kind = "DependentArtifactPromoted")
             => LET names == artifacts[r.artifact][r.artifact_revision].registration.dependencies
                IN  \A n \in DOMAIN names : \E a \in ArtifactIds :
                       /\ Registered(a)
                       /\ artifacts[a][Current(a)].registration.name = names[n]
                       /\ CurrentlyAuthoritative(artifacts[a][Current(a)])]_vars

\* The reservations, plans, records, artifacts and revisions stay within
\* EngineConfig, although each bound is tested in an operation of its own and
\* a plan is evicted before the bound of reservations is tested
\* (promotion.cpp 143-145, 194-205, 441-443, engine.cpp 254-258, 289-298).
BoundsHold ==
    /\ Cardinality(pending) <= MaxPending
    /\ Cardinality(plans) <= MaxPlans
    /\ Cardinality(records) <= MaxRecords
    /\ Cardinality({a \in ArtifactIds : Registered(a)}) <= MaxArtifacts
    /\ \A a \in ArtifactIds : Len(artifacts[a]) <= MaxRevisions

\* At most one record of an evidence key is not superseded, so that the record
\* a resubmission replaces is the only one (engine.cpp 388-403).
OneRecordPerEvidenceKey ==
    \A e, f \in DOMAIN evidence :
        /\ EvidenceKey(evidence[e].submission) = EvidenceKey(evidence[f].submission)
        /\ ~evidence[e].superseded /\ ~evidence[f].superseded
        => e = f

\* The evidence a gate can still use stays within EngineConfig, in all and for
\* each revision, although a resubmission passes both bounds and every record it
\* replaces is kept: the records that count are one for each key, and a new key
\* waits for room among all records (engine.cpp 405-422).
LiveEvidenceIsBounded ==
    LET live == {e \in DOMAIN evidence : ~evidence[e].superseded}
    IN  /\ Cardinality(live) <= MaxEvidence
        /\ \A a \in ArtifactIds : \A v \in DOMAIN artifacts[a] :
              Cardinality(live \cap GatherEvidence(a, v)) <= MaxEvidencePerRevision

-----------------------------------------------------------------------------
(* The promise the engine keeps.  A request is answered once it has an     *)
(* idempotency record, its reservation is its grant, and it has committed  *)
(* when its record says so of the plan it got.                             *)

CommittedRequests ==
    {i.request : i \in {j \in idempotency : /\ j.plan # 0
                                            /\ j.outcome = "PromotionCommitted"}}

Grants == {[artifact |-> r.artifact, request |-> r.request] : r \in pending}

Promise ==
    INSTANCE ExclusivePromotion
    WITH Artifacts <- ArtifactIds, Requests <- RequestIds,
         answered <- {i.request : i \in idempotency},
         grants <- Grants,
         committed <- CommittedRequests,
         authority <- <<epoch, compatibility_generation>>

\* The engine implements exclusive promotion: whatever callers, plans, policies,
\* operations and restarts do, a request is granted its artifact at most once
\* and alone, commits at most once and only under that grant, and no grant
\* outlives the epoch and the compatibility generation it was given under
\* (promotion.cpp 38-226, 264-509, engine.cpp 167-209, trust.cpp 571-592).
ImplementsExclusivePromotion == Promise!Spec
=============================================================================
