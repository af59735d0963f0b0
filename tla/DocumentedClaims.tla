--------------------------- MODULE DocumentedClaims ---------------------------
(***************************************************************************)
(* What comments and checks of the repository say of the engine and the    *)
(* engine does not do.  Each claim is refuted by a run of its own; the     *)
(* properties that hold are in PromotionEngine.                            *)
(***************************************************************************)
EXTENDS PromotionEngine

\* "artifact identity has more than one currently promoted revision" is an
\* invariant violation to check_invariants() (engine.cpp 669-672).
OneAuthoritativeRevision ==
    \A a \in ArtifactIds :
        \A v, w \in DOMAIN artifacts[a] :
            /\ CurrentlyAuthoritative(artifacts[a][v])
            /\ CurrentlyAuthoritative(artifacts[a][w])
            => v = w
=============================================================================
