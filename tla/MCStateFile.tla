----------------------------- MODULE MCStateFile -----------------------------
(***************************************************************************)
(* The engine of MCEngine together with its state file.                    *)
(***************************************************************************)
EXTENDS MCEngine, StateFile

\* A size for the payload that grows with the state: one byte for each evidence
\* record, decision and promotion record.
EntryCount(payload) ==
    Len(Body(payload, "Evidence")) + Len(Body(payload, "Decisions"))
        + Cardinality(Body(payload, "Records"))
=============================================================================
