----------------------------- MODULE FrameProtocol -----------------------------
(***************************************************************************)
(* The frames of the wire protocol (distributed/protocol.cpp): the types   *)
(* of messages and what a header has to say.  A frame is a record of the   *)
(* header's fields; of the payload it keeps the code of an error.          *)
(***************************************************************************)
EXTENDS Naturals

\* What a worker can ask for.
Operation ==
    {"Hello", "RegisterArtifact", "SubmitEvidence", "Promotion", "Evaluate",
     "ArtifactState", "History", "Quarantine", "ReleaseQuarantine", "Revoke",
     "RevokeEvidence", "Supersede", "Retire", "SnapshotSave", "Explain"}

RequestType == {<<op, "Request">> : op \in Operation}
ResponseType == {<<op, "Response">> : op \in Operation}

Error == <<"Error">>
Goodbye == <<"Goodbye">>

is_valid_message_type(type) ==
    type \in RequestType \cup ResponseType \cup {Error, Goodbye}

\* The operations handle_frame() serves without comparing the authority of
\* the frame with its own: those that learn it, those that only read, and the
\* save.
Reads == {"ArtifactState", "History", "Explain"}
NeedNoAuthority == Reads \cup {"Hello", "SnapshotSave"}

-----------------------------------------------------------------------------
(* Identities.  The identity of a promotion is the caller's and is the     *)
(* same when it tries again; every other one is issued by the generator of *)
(* the client, which is salted, and never comes twice.                     *)

NoId == "none"
Generated == "generated"
Placeholder == "placeholder"   \* the identity (1, 1)

NoAuthority == [coordinator |-> 0, epoch |-> 0]

Frame(type, request, correlation, authority, code) ==
    [type |-> type, request |-> request, correlation |-> correlation,
     authority |-> authority, code |-> code]

\* Stands for every code with which the engine refuses to serve a request.
EngineError == "EngineError"

\* What can be in a header: a type that is no message type stands for them all.
UnknownType == <<"Unknown">>

Authorities == [coordinator : Nat, epoch : Nat]
Identities == Operation \cup {NoId, Generated, Placeholder}
Frames ==
    [type : RequestType \cup ResponseType \cup {Error, Goodbye, UnknownType},
     request : Identities, correlation : Identities, authority : Authorities,
     code : {"Ok", "ProtocolMalformed", "DuplicateRequest", "InvalidIdentity",
             "StaleWorkerBoot", "ShuttingDown", "StaleCoordinatorEpoch",
             EngineError}]

\* decode_frame() accepts the frame; encode_frame() makes no other.
decode_frame(f) ==
    /\ is_valid_message_type(f.type)
    /\ f.request # NoId \/ f.correlation # NoId

\* An answer to f with the header fill_response_header() gives it; nobody looks
\* at the request identity of an answer.
Response(f, type, authority, code) ==
    Frame(type, NoId, f.request, authority, code)

Answer(f, authority) == Response(f, <<f.type[1], "Response">>, authority, "Ok")

error_response(f, authority, code) == Response(f, Error, authority, code)
=============================================================================
