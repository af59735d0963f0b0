------------------------------- MODULE MCEngine -------------------------------
(***************************************************************************)
(* Small instances of the promotion engine.                                *)
(***************************************************************************)
EXTENDS DocumentedClaims

-----------------------------------------------------------------------------
(* Policies with a short pipeline and the gates of the reference policy.   *)

ShortGraph ==
    {<<"Candidate", "Approved">>, <<"Approved", "Promoted">>,
     <<"Quarantined", "Candidate">>}
    \cup ({"Candidate", "Approved", "Promoted"} \X {"Quarantined"})
    \cup ({"Approved", "Promoted"} \X {"Revoked", "Superseded"})
    \cup ({"Promoted", "Superseded", "Revoked"} \X {"Retired"})

ShortRules ==
    <<Guarded(ArtifactKind, "Candidate", "Approved", <<EvidenceGate("BuildPass")>>),
      Guarded(ArtifactKind, "Approved", "Promoted",
              <<SimpleGate("PolicyGenerationCurrent"),
                SimpleGate("CoordinatorEpochCurrent")>>),
      Rule(ArtifactKind, "Quarantined", "Candidate", <<EvidenceGate("BuildPass")>>),
      Rule(ArtifactKind, "Promoted", "Revoked", <<SimpleGate("ArtifactIdentity")>>)>>

ShortPolicy(id, generation) ==
    [id |-> id, generation |-> generation, entry |-> "Candidate",
     graph |-> ShortGraph, rules |-> ShortRules]

PolicyA1 == ShortPolicy("A", 1)
PolicyA2 == ShortPolicy("A", 2)

OnePolicy == {PolicyA1}
TwoGenerations == {PolicyA1, PolicyA2}

\* One step to promotion, over promoted dependencies.
DirectGraph ==
    {<<"Candidate", "Promoted">>, <<"Promoted", "Quarantined">>,
     <<"Quarantined", "Candidate">>, <<"Promoted", "Superseded">>,
     <<"Promoted", "Retired">>}

DirectPolicy(gates) ==
    [id |-> "D", generation |-> 1, entry |-> "Candidate",
     graph |-> DirectGraph,
     rules |-> <<Guarded(ArtifactKind, "Candidate", "Promoted", gates)>>]

DependencyPolicy == DirectPolicy(<<SimpleGate("DependentArtifactPromoted")>>)
DependencyPolicies == {DependencyPolicy}

FreshPolicy == DirectPolicy(<<FreshnessGate("BuildPass", 2)>>)
FreshPolicies == {FreshPolicy}

OpenPolicy == DirectPolicy(<<>>)
OpenPolicies == {OpenPolicy}

-----------------------------------------------------------------------------
(* Artifacts, evidence and requests.                                       *)

Registration(id, digest, name, dependencies) ==
    [id |-> id, kind |-> "Library", digest |-> digest, name |-> name,
     dependencies |-> dependencies,
     provenance |-> {[reference |-> "source", resolution |-> "Resolved"]}]

OneRevision == {Registration("a", "d1", "lib", <<>>)}
TwoRevisions == OneRevision \cup {Registration("a", "d2", "lib", <<>>)}

\* b may depend on the artifact that is called lib, which may not exist yet.
Dependents ==
    OneRevision \cup {Registration("b", "d2", "app", <<"lib">>),
                     Registration("b", "d2", "app", <<>>)}

Submission(revision, digest, type, result) ==
    [subject |-> "a", subject_revision |-> revision, subject_digest |-> digest,
     type |-> type, producer |-> "w", result |-> result, produced |-> 0,
     environment |-> "linux", has_window |-> FALSE, valid_from |-> 0,
     valid_until |-> 0]

OneSubmission == {Submission(1, "d1", "BuildPass", "Pass")}

ProducedAt(t) == [Submission(1, "d1", "BuildPass", "Pass") EXCEPT !.produced = t]

\* A build reported at each instant, one report that is valid for a while, and
\* evidence of another key.
TimedSubmissions ==
    {ProducedAt(t) : t \in {0, 3}} \cup
    {[ProducedAt(3) EXCEPT !.has_window = TRUE, !.valid_from = 2,
                           !.valid_until = 3],
     Submission(1, "d1", "UnitTestPass", "Pass")}

Request(request, revision, digest, to) ==
    [request |-> request, attempt |-> 1, artifact |-> "a",
     artifact_revision |-> revision, digest |-> digest, to |-> to,
     epoch |-> 1]

\* Two callers race to approve the artifact, a third promotes it.
RacingRequests ==
    {Request("r1", 1, "d1", "Approved"), Request("r2", 1, "d1", "Approved"),
     Request("r3", 1, "d1", "Promoted")}

\* An artifact is approved, promoted and sent to REVOKED by a request, and a
\* quarantined one sent back by a request.
LifecycleRequests ==
    {Request("r1", 1, "d1", "Approved"), Request("r2", 1, "d1", "Promoted"),
     Request("r3", 1, "d1", "Candidate"), Request("r4", 1, "d1", "Revoked")}

DependentRequests ==
    {Request("r1", 1, "d1", "Promoted"),
     [Request("r2", 1, "d2", "Promoted") EXCEPT !.artifact = "b"],
     [Request("r3", 1, "d2", "Promoted") EXCEPT !.artifact = "b"]}

\* Both revisions of an artifact are promoted.
RevisionRequests ==
    {Request("r1", 1, "d1", "Promoted"), Request("r2", 2, "d2", "Promoted")}

TimedRequests ==
    {Request("r1", 1, "d1", "Promoted"), Request("r2", 1, "d1", "Promoted")}
=============================================================================
