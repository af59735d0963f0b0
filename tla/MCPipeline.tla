------------------------------ MODULE MCPipeline ------------------------------
(***************************************************************************)
(* The reference pipeline for an executable, with three tries for each     *)
(* stage and each epoch.                                                   *)
(***************************************************************************)
EXTENDS ReferencePipeline

Reference == ReferencePolicy("R", 1, 1)
ReferencePolicies == {Reference}

Executable ==
    {[id |-> "a", kind |-> "Executable", digest |-> "d1", name |-> "tool",
      dependencies |-> <<>>,
      provenance |-> {[reference |-> "source", resolution |-> "Resolved"]}]}

Submission(type) ==
    [subject |-> "a", subject_revision |-> 1, subject_digest |-> "d1",
     type |-> type, producer |-> "w", result |-> "Pass", produced |-> 1,
     environment |-> "windows-x64-msvc", has_window |-> FALSE,
     valid_from |-> 0, valid_until |-> 0]

ExecutableEvidence ==
    <<Submission("ProvenanceComplete"), Submission("BuildPass"),
      Submission("UnitTestPass"), Submission("IntegrationTestPass"),
      Submission("ReproducibilityPass"), Submission("MachineCriticApproval"),
      Submission("SignatureValid")>>

EvidenceSet == {ExecutableEvidence[i] : i \in DOMAIN ExecutableEvidence}

Tries == 1 .. 3

PipelineRequests ==
    {[request |-> <<stage, try, e>>, try |-> try, attempt |-> 1,
      artifact |-> "a", artifact_revision |-> 1, digest |-> "d1",
      to |-> stage, epoch |-> e] :
        stage \in {"Verified", "Qualified", "Staged", "Approved", "Promoted"},
        try \in Tries, e \in {1, 2}}
=============================================================================
