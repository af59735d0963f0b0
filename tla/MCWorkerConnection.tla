-------------------------- MODULE MCWorkerConnection --------------------------
(***************************************************************************)
(* A worker that is restarted while its predecessor may still be there,    *)
(* and a peer that is no worker.                                           *)
(***************************************************************************)
EXTENDS WorkerConnection

Restarted == {[worker |-> "w", boot |-> 1], [worker |-> "w", boot |-> 2]}

NeverShaken == Frame(<<"Promotion", "Request">>, "Promotion", NoId, NoAuthority, "Ok")
NoFrame == Frame(UnknownType, NoId, NoId, NoAuthority, "Ok")

\* At once a promotion that no handshake preceded, a handshake without an
\* identity, and bytes that are no frame.
Strange == {<<NeverShaken, Hello, NoFrame>>}
=============================================================================
