-------------------------- MODULE ExclusivePromotion --------------------------
(***************************************************************************)
(* What the engine promises its callers, without policies, evidence,       *)
(* stages or plans (engine.hpp 117-139, 239-246): a request is answered once; it    *)
(* may be granted its artifact, exclusively; it commits at most once, and  *)
(* only while it still holds the artifact; and it holds nothing any more   *)
(* once the authority under which it was granted has changed.  A grant may *)
(* be withdrawn at any time, and is never given back.                      *)
(***************************************************************************)
CONSTANTS Artifacts, Requests

VARIABLES
    answered,    \* requests that were answered
    grants,      \* the artifacts held: [artifact, request]
    committed,   \* requests that made their transition
    authority    \* under which the grants were given

vars == <<answered, grants, committed, authority>>

Init ==
    /\ answered = {} /\ grants = {} /\ committed = {}
    /\ authority = <<1, 1>>

Refuse(r) ==
    /\ r \notin answered
    /\ answered' = answered \cup {r}
    /\ UNCHANGED <<grants, committed, authority>>

Grant(r, a) ==
    /\ r \notin answered
    /\ \A g \in grants : g.artifact # a
    /\ answered' = answered \cup {r}
    /\ grants' = grants \cup {[artifact |-> a, request |-> r]}
    /\ UNCHANGED <<committed, authority>>

Commit(g) ==
    /\ g.request \notin committed
    /\ committed' = committed \cup {g.request}
    /\ grants' = grants \ {g}
    /\ UNCHANGED <<answered, authority>>

Withdraw ==
    /\ grants' \in SUBSET grants
    /\ UNCHANGED <<answered, committed, authority>>

ChangeAuthority ==
    /\ authority' # authority
    /\ grants' = {}
    /\ UNCHANGED <<answered, committed>>

Next ==
    \/ \E r \in Requests : Refuse(r)
    \/ \E r \in Requests, a \in Artifacts : Grant(r, a)
    \/ \E g \in grants : Commit(g)
    \/ Withdraw
    \/ ChangeAuthority

Spec == Init /\ [][Next]_vars
=============================================================================
