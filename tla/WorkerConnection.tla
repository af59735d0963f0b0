--------------------------- MODULE WorkerConnection ---------------------------
(***************************************************************************)
(* Workers and the coordinator over loopback sockets: WorkerClient         *)
(* (worker_client.cpp), the accept loop, the connection threads and stop() *)
(* of CoordinatorServer (coordinator_server.cpp), and the sockets between  *)
(* them (socket.cpp).  A client calls, loses its connection, connects      *)
(* again and calls again; the coordinator stops, crashes and restarts;     *)
(* a process that is no worker may connect as well.                        *)
(*                                                                         *)
(* The engine is left out: a promotion that is served is a change that is  *)
(* saved, and its answer is a choice.  What happens inside a call of the   *)
(* engine, and between a change and its save, is the subject of            *)
(* PromotionEngine and CoordinatorServer.                                  *)
(***************************************************************************)
EXTENDS FrameProtocol, FiniteSets, Sequences

CONSTANTS
    Clients,           \* instances of WorkerClient: [worker, boot]; the number
                       \* of a boot says nothing of when the instance starts,
                       \* since it is drawn from entropy()
    Calls,             \* the operations each caller wants an answer to
    Sockets,           \* connections at a time, numbered (bound of the model)
    MaxIncarnations,   \* coordinator processes started (bound of the model)
    StrangerFrames,    \* the sequences of frames a peer sends that is no
                       \* WorkerClient
    SendBuffer,        \* answers a connection holds that its peer has not read
    MaxDisturbances    \* how often such a peer connects, a peer is silent for
                       \* longer than the receive timeout while the
                       \* coordinator runs, or a worker ends (bound of the
                       \* model)

ASSUME ConnectionAssumption ==
    /\ \A c \in Clients : c.boot \in Nat \ {0}
    /\ Calls \subseteq Operation \ {"Hello"}
    /\ StrangerFrames \subseteq Seq(Frames)
    /\ Sockets \subseteq Nat \ {0} /\ SendBuffer \in Nat \ {0}
    /\ MaxIncarnations \in Nat \ {0} /\ MaxDisturbances \in Nat

VARIABLES
    running,        \* "no", "yes", or "stopping" once stop() began
    accepting,      \* the accept thread is in its loop
    incarnation,    \* number of processes started
    authority,      \* of the running process
    disk,           \* the authority in the state file
    worker_boots,   \* the newest boot of each worker
    greeted,        \* history: the clients whose handshake the process accepted
    socket,         \* the connections
    client,         \* the workers
    disturbances    \* see MaxDisturbances

serverVars == <<running, accepting, incarnation, authority, disk>>
vars == <<serverVars, worker_boots, greeted, socket, client, disturbances>>

WorkerIds == {c.worker : c \in Clients}
Stranger == [worker |-> "stranger", boot |-> 0]
NoSocket == 0

-----------------------------------------------------------------------------
(* A connection: the bytes on their way, the client's end, and the thread  *)
(* that serves it with its local variables.                                *)

FreeSocket ==
    [peer |-> Stranger, open |-> FALSE, to_server |-> <<>>, to_client |-> <<>>,
     thread |-> "ended", handshake_completed |-> FALSE, seen |-> {},
     response |-> <<>>]

\* A new connection waits in the backlog of the listener.
NewSocket(peer, frames) ==
    [FreeSocket EXCEPT !.peer = peer, !.open = TRUE, !.to_server = frames,
                       !.thread = "backlog"]

\* A connection that both sides have closed is gone; what a peer that is no worker
\* does with its end after that is of no interest.
Reclaimed(s) ==
    IF s.thread = "ended" /\ (s.open => s.peer = Stranger) THEN FreeSocket ELSE s

\* The process closes its end: close() of the thread's socket, or the end of
\* the process.
ServerCloses(s) ==
    Reclaimed([s EXCEPT !.thread = "ended", !.to_server = <<>>,
                        !.response = <<>>, !.handshake_completed = FALSE,
                        !.seen = {}])

ClientCloses(s) == Reclaimed([s EXCEPT !.open = FALSE, !.to_client = <<>>])

FreeSockets == {k \in Sockets : socket[k] = FreeSocket}

\* A free connection for the peer.  Which one makes no difference; that each peer
\* has one it prefers spares states.
NextSocket(peer) ==
    CHOOSE k \in FreeSockets :
        peer.boot + 1 \in FreeSockets => k = peer.boot + 1

Update(k, s) == socket' = [socket EXCEPT ![k] = s]

Disturb == disturbances < MaxDisturbances /\ disturbances' = disturbances + 1

\* connect_loopback() succeeds from listen() to shutdown() of the listener.
Listening == running = "yes" \/ (running = "stopping" /\ accepting)

-----------------------------------------------------------------------------
(* A client.  pc is the call it waits for an answer to, or "idle"; todo is *)
(* what its caller has no answer to yet; refused tells that a coordinator  *)
(* refused its boot, after which the caller gives up.                      *)

NewClient ==
    [pc |-> "idle", socket |-> NoSocket, connected |-> FALSE,
     authority |-> NoAuthority, todo |-> Calls, refused |-> FALSE]

Gone == [NewClient EXCEPT !.pc = "gone", !.todo = {}]

Waiting(c) == client[c].pc \notin {"idle", "gone"}

Init ==
    /\ running = "no" /\ accepting = FALSE /\ incarnation = 0
    /\ authority = NoAuthority /\ disk = NoAuthority
    /\ worker_boots = [w \in WorkerIds |-> 0] /\ greeted = {}
    /\ socket = [k \in Sockets |-> FreeSocket]
    /\ client = [c \in Clients |-> NewClient]
    /\ disturbances = 0

-----------------------------------------------------------------------------
(* The worker.                                                             *)

\* The identity of the frame of an operation.
Identity(op) == IF op = "Promotion" THEN op ELSE Generated

Request(op, auth) == Frame(<<op, "Request">>, Identity(op), NoId, auth, "Ok")

Hello == Request("Hello", NoAuthority)

\* Mutant of connect: the handshake is left out once the authority is known.
ConnectWithoutHandshake(c) ==
    /\ client[c].pc = "idle" /\ ~client[c].connected
    /\ Listening /\ ~client[c].refused /\ FreeSockets # {}
    /\ LET known == client[c].authority # NoAuthority
       IN  /\ Update(NextSocket(c), NewSocket(c, IF known THEN <<>> ELSE <<Hello>>))
           /\ client' = [client EXCEPT ![c].pc = IF known THEN "idle" ELSE "Hello",
                                       ![c].socket = NextSocket(c), ![c].connected = TRUE]
    /\ UNCHANGED <<serverVars, worker_boots, greeted, disturbances>>

\* connect() up to the answer to its handshake.
connect(c) ==
    /\ client[c].pc = "idle" /\ ~client[c].connected
    /\ Listening /\ ~client[c].refused /\ FreeSockets # {}
    /\ Update(NextSocket(c), NewSocket(c, <<Hello>>))
    /\ client' = [client EXCEPT ![c].pc = "Hello", ![c].socket = NextSocket(c),
                                ![c].connected = TRUE]
    /\ UNCHANGED <<serverVars, worker_boots, greeted, disturbances>>

\* The part of a call up to the answer; on a connection that was lost, without
\* a new connect(), every call fails.
call(c, op) ==
    /\ client[c].pc = "idle" /\ client[c].connected
    /\ LET k == client[c].socket
           s == socket[k]
       IN  Update(k, IF s.thread = "ended" THEN s
                     ELSE [s EXCEPT !.to_server = Append(@, Request(op, client[c].authority))])
    /\ client' = [client EXCEPT ![c].pc = op]
    /\ UNCHANGED <<serverVars, worker_boots, greeted, disturbances>>

\* What exchange() makes of the answer, for a call and for the handshake of
\* connect(), which closes the connection when it failed.  A caller whose call
\* the engine refused has its answer.
Returned(c, answered) ==
    [client[c] EXCEPT !.pc = "idle",
                      !.todo = IF answered THEN @ \ {client[c].pc} ELSE @]

Refused(c, answer) ==
    IF client[c].pc = "Hello"
    THEN [Returned(c, FALSE) EXCEPT !.socket = NoSocket, !.connected = FALSE,
                                    !.refused = TRUE]
    ELSE Returned(c, answer.code = EngineError)

\* Any newer authority the answer reports is adopted.
Adopted(c, answer) ==
    [Returned(c, TRUE) EXCEPT !.authority = answer.authority]

Correlates(c, answer) == answer.correlation = Identity(client[c].pc)

\* The end of exchange(), with an answer.
exchange(c) ==
    LET k == client[c].socket
        answer == Head(socket[k].to_client)
        rest == [socket[k] EXCEPT !.to_client = Tail(@)]
        failed == ~Correlates(c, answer) \/ answer.type = Error
    IN  /\ Waiting(c)
        /\ socket[k].to_client # <<>>
        /\ client' = [client EXCEPT ![c] = IF failed THEN Refused(c, answer)
                                           ELSE Adopted(c, answer)]
        /\ Update(k, IF failed /\ client[c].pc = "Hello" THEN ClientCloses(rest)
                     ELSE rest)
        /\ UNCHANGED <<serverVars, worker_boots, greeted, disturbances>>

\* The end of exchange() without one: the peer has closed the connection, and
\* the client's end, which the code closes with the next connect(), is of no
\* use any more.
connection_closed(c) ==
    LET k == client[c].socket
    IN  /\ Waiting(c)
        /\ socket[k].thread = "ended" /\ socket[k].to_client = <<>>
        /\ client' = [client EXCEPT ![c].pc = "idle", ![c].socket = NoSocket,
                                    ![c].connected = FALSE]
        /\ Update(k, ClientCloses(socket[k]))
        /\ UNCHANGED <<serverVars, worker_boots, greeted, disturbances>>

\* disconnect(): a last frame, and the socket is closed.
disconnect(c) ==
    LET k == client[c].socket
        last == Frame(Goodbye, Generated, NoId, client[c].authority, "Ok")
    IN  /\ client[c].pc = "idle" /\ client[c].connected
        /\ client[c].todo = {}
        /\ client' = [client EXCEPT ![c].socket = NoSocket, ![c].connected = FALSE]
        /\ Update(k, ClientCloses(IF socket[k].thread = "ended" THEN socket[k]
                                  ELSE [socket[k] EXCEPT !.to_server = Append(@, last)]))
        /\ UNCHANGED <<serverVars, worker_boots, greeted, disturbances>>

\* A worker process ends, at any point: also by a signal, when it calls on a
\* connection it has lost and writes to a socket that was reset.
ClientEnds(c) ==
    LET k == client[c].socket
    IN  /\ client[c].pc # "gone" /\ Disturb
        /\ client' = [client EXCEPT ![c] = Gone]
        /\ IF k = NoSocket THEN UNCHANGED socket
           ELSE Update(k, ClientCloses(socket[k]))
        /\ UNCHANGED <<serverVars, worker_boots, greeted>>

\* A peer that is no WorkerClient connects and sends what it likes.
StrangerConnects(frames) ==
    /\ Listening /\ Disturb
    /\ FreeSockets # {}
    /\ Update(NextSocket(Stranger), NewSocket(Stranger, frames))
    /\ UNCHANGED <<serverVars, worker_boots, greeted, client>>

\* It may read its answers, and it may go; it has to do neither.
StrangerReads(k) ==
    /\ socket[k].peer = Stranger /\ socket[k].to_client # <<>>
    /\ Update(k, [socket[k] EXCEPT !.to_client = Tail(@)])
    /\ UNCHANGED <<serverVars, worker_boots, greeted, client, disturbances>>

StrangerLeaves(k) ==
    /\ socket[k].peer = Stranger /\ socket[k].open
    /\ Update(k, ClientCloses(socket[k]))
    /\ UNCHANGED <<serverVars, worker_boots, greeted, client, disturbances>>

-----------------------------------------------------------------------------
(* The coordinator process.                                                *)

\* start(): the epoch after the one in the state file, or, without a file, an
\* identity of its own.
start ==
    /\ running = "no" /\ incarnation < MaxIncarnations
    /\ running' = "yes" /\ accepting' = TRUE /\ incarnation' = incarnation + 1
    /\ authority' = IF disk = NoAuthority
                    THEN [coordinator |-> incarnation + 1, epoch |-> 1]
                    ELSE [disk EXCEPT !.epoch = @ + 1]
    /\ UNCHANGED <<disk, worker_boots, greeted, socket, client, disturbances>>

\* Every end of a connection that the process has is closed, accepted or not,
\* and what it had in memory is gone.
ProcessEnds ==
    /\ running' = "no" /\ accepting' = FALSE /\ authority' = NoAuthority
    /\ worker_boots' = [w \in WorkerIds |-> 0] /\ greeted' = {}
    /\ socket' = [k \in Sockets |-> ServerCloses(socket[k])]
    /\ UNCHANGED <<incarnation, client, disturbances>>

\* The last process neither crashes nor stops (bound of the model).
Crash ==
    /\ running # "no" /\ incarnation < MaxIncarnations
    /\ ProcessEnds
    /\ UNCHANGED disk

stop ==
    /\ running = "yes" /\ incarnation < MaxIncarnations
    /\ running' = "stopping"
    /\ UNCHANGED <<accepting, incarnation, authority, disk, worker_boots,
                   greeted, socket, client, disturbances>>

\* The accept thread of a server that stops: the connection stop() makes, or one
\* that was first in the backlog, ends the loop and is closed.
AcceptLoopEnds ==
    /\ running = "stopping" /\ accepting
    /\ accepting' = FALSE
    /\ \/ UNCHANGED socket
       \/ \E k \in Sockets : /\ socket[k].thread = "backlog"
                             /\ Update(k, ServerCloses(socket[k]))
    /\ UNCHANGED <<running, incarnation, authority, disk, worker_boots,
                   greeted, client, disturbances>>

\* The rest of stop(), once every thread is joined: the listener is closed, with
\* what waits in its backlog, and the state is saved.
stop_joined ==
    /\ running = "stopping" /\ ~accepting
    /\ \A k \in Sockets : socket[k].thread \in {"backlog", "ended"}
    /\ disk' = authority
    /\ ProcessEnds

\* accept_loop(): a connection gets a thread of its own.
accept(k) ==
    /\ running = "yes" /\ accepting
    /\ socket[k].thread = "backlog"
    /\ Update(k, [socket[k] EXCEPT !.thread = "receive"])
    /\ UNCHANGED <<serverVars, worker_boots, greeted, client, disturbances>>

-----------------------------------------------------------------------------
(* serve_connection().                                                     *)

Incoming(k) == Head(socket[k].to_server)

\* The thread has received a frame, which it takes from the connection.
Received(k) == socket[k].thread = "receive" /\ socket[k].to_server # <<>>

\* The connection with the answer that is sent next.
Answering(k, answer) ==
    [socket[k] EXCEPT !.to_server = Tail(@), !.response = <<answer>>,
                      !.thread = "reply",
                      !.seen = @ \cup ({Incoming(k).request} \ {Generated})]

\* The connection after the answers were sent.
Sent(s, answers) ==
    [s EXCEPT !.to_client = IF s.open THEN @ \o answers ELSE @,
              !.response = <<>>, !.thread = "receive"]

\* send_all() returns: there is room for an answer, or nobody to read it.  No
\* timeout is set for sending, so the thread waits for as long as it takes.
CanSend(k) == socket[k].open => Len(socket[k].to_client) < SendBuffer

\* Mutant of AlreadySeen: the requests of all connections are kept together.
SeenOnAnyConnection(k) ==
    \E l \in Sockets : Incoming(k).request \in socket[l].seen

\* The request was received on this connection before; generated identities
\* never come twice and are not kept.
AlreadySeen(k) == Incoming(k).request \in socket[k].seen

\* The frame reaches handle_frame().
Handled(k) ==
    /\ Received(k)
    /\ decode_frame(Incoming(k)) /\ Incoming(k).type # Goodbye
    /\ ~AlreadySeen(k)
    /\ socket[k].handshake_completed \/ Incoming(k).type = <<"Hello", "Request">>

\* A frame that cannot be decoded is answered with an error to nobody, and the
\* connection ends.
receive_malformed(k) ==
    /\ Received(k) /\ ~decode_frame(Incoming(k)) /\ CanSend(k)
    /\ LET nobody == [Incoming(k) EXCEPT !.request = Placeholder]
           answer == error_response(nobody, authority, "ProtocolMalformed")
       IN  Update(k, ServerCloses(Sent(socket[k], <<answer>>)))
    /\ UNCHANGED <<serverVars, worker_boots, greeted, client, disturbances>>

receive_goodbye(k) ==
    /\ Received(k) /\ Incoming(k).type = Goodbye
    /\ Update(k, ServerCloses(socket[k]))
    /\ UNCHANGED <<serverVars, worker_boots, greeted, client, disturbances>>

\* A request that was received before, or before any handshake.
receive_refused(k) ==
    /\ Received(k) /\ ~Handled(k)
    /\ decode_frame(Incoming(k)) /\ Incoming(k).type # Goodbye
    /\ Update(k, Answering(k, error_response(Incoming(k), authority,
                                 IF AlreadySeen(k) THEN "DuplicateRequest"
                                 ELSE "StaleWorkerBoot")))
    /\ UNCHANGED <<serverVars, worker_boots, greeted, client, disturbances>>

\* Mutant of register_worker_boot: the boot that comes last is the newest.
RegisterAnyBoot(c) ==
    c.boot # 0 /\ worker_boots' = [worker_boots EXCEPT ![c.worker] = c.boot]

\* What register_worker_boot() answers; a peer that is no worker has no identity.
BootCode(c) ==
    IF c.boot = 0 THEN "InvalidIdentity"
    ELSE IF c.boot < worker_boots[c.worker] THEN "StaleWorkerBoot"
    ELSE "Ok"

register_worker_boot(c) ==
    /\ BootCode(c) = "Ok"
    /\ worker_boots' = [worker_boots EXCEPT ![c.worker] = c.boot]

\* The handshake is accepted under any authority, also while the server stops.
handle_hello(k) ==
    /\ Handled(k) /\ Incoming(k).type = <<"Hello", "Request">>
    /\ LET peer == socket[k].peer
           accepted == [Answering(k, Answer(Incoming(k), authority))
                           EXCEPT !.handshake_completed = TRUE]
       IN  \/ /\ register_worker_boot(peer)
              /\ greeted' = greeted \cup {peer}
              /\ Update(k, accepted)
           \/ /\ BootCode(peer) # "Ok"
              /\ Update(k, Answering(k, error_response(Incoming(k), authority,
                                                       BootCode(peer))))
              /\ UNCHANGED <<worker_boots, greeted>>
    /\ UNCHANGED <<serverVars, client, disturbances>>

\* What require_current_authority() answers, for a frame that is a request.
AuthorityCode(f) ==
    IF f.type \notin RequestType THEN "ProtocolMalformed"
    ELSE IF f.type[1] \in NeedNoAuthority THEN "Ok"
    ELSE IF running = "stopping" THEN "ShuttingDown"
    ELSE IF f.authority # authority THEN "StaleCoordinatorEpoch"
    ELSE "Ok"

\* Another request: the engine serves it, with a decision or with an error, and
\* what it changes is saved.
handle_request(k) ==
    LET f == Incoming(k)
        code == AuthorityCode(f)
    IN  /\ Handled(k) /\ f.type # <<"Hello", "Request">>
        /\ \/ /\ code = "Ok"
              /\ Update(k, Answering(k, Answer(f, authority)))
           \/ \E error \in (IF code = "Ok" THEN {EngineError} ELSE {code}) :
                 Update(k, Answering(k, error_response(f, authority, error)))
        /\ \/ UNCHANGED disk
           \/ code = "Ok" /\ f.type[1] \notin Reads /\ disk' = authority
        /\ UNCHANGED <<running, accepting, incarnation, authority, worker_boots,
                       greeted, client, disturbances>>

\* The answer is sent; a thread of a server that stops ends with it, and so does
\* one whose peer has closed, when the socket says so.
reply(k) ==
    LET sent == Sent(socket[k], socket[k].response)
    IN  /\ socket[k].thread = "reply" /\ CanSend(k)
        /\ \/ Update(k, IF running = "stopping" THEN ServerCloses(sent) ELSE sent)
           \/ ~socket[k].open /\ Update(k, ServerCloses(socket[k]))
        /\ UNCHANGED <<serverVars, worker_boots, greeted, client, disturbances>>

\* The peer has closed the connection, and nothing is left to be received.
peer_closed(k) ==
    /\ socket[k].thread = "receive" /\ socket[k].to_server = <<>>
    /\ ~socket[k].open
    /\ Update(k, ServerCloses(socket[k]))
    /\ UNCHANGED <<serverVars, worker_boots, greeted, client, disturbances>>

\* Mutants of receive_timeout: no timeout is set; or the thread ends with its
\* socket open.
NoReceiveTimeout(k) == FALSE

TimeoutLeavingSocketOpen(k) ==
    /\ socket[k].thread = "receive" /\ socket[k].to_server = <<>>
    /\ Update(k, [socket[k] EXCEPT !.thread = "left"])
    /\ UNCHANGED <<serverVars, worker_boots, greeted, client, disturbances>>

\* Nothing came for the time of the receive timeout.
receive_timeout(k) ==
    /\ socket[k].thread = "receive" /\ socket[k].to_server = <<>>
    /\ socket[k].open
    /\ \/ running = "stopping" /\ UNCHANGED disturbances
       \/ running = "yes" /\ Disturb
    /\ Update(k, ServerCloses(socket[k]))
    /\ UNCHANGED <<serverVars, worker_boots, greeted, client>>

-----------------------------------------------------------------------------
\* What a connection thread does by itself.
Serve(k) ==
    \/ receive_malformed(k)
    \/ receive_goodbye(k)
    \/ receive_refused(k)
    \/ handle_hello(k)
    \/ handle_request(k)
    \/ reply(k)
    \/ peer_closed(k)
    \/ receive_timeout(k)

\* What the coordinator does once it is asked to; a coordinator that is down is
\* started again.
Coordinator ==
    \/ start
    \/ AcceptLoopEnds
    \/ stop_joined
    \/ \E k \in Sockets : accept(k)
    \/ \E k \in Sockets : Serve(k)

\* What a worker does: a call returns, and a caller that has no answer connects
\* when it has to and asks again.
Worker(c) ==
    \/ exchange(c)
    \/ connection_closed(c)
    \/ client[c].todo # {} /\ connect(c)
    \/ \E op \in client[c].todo : call(c, op)

Next ==
    \/ Coordinator
    \/ \E c \in Clients : Worker(c)
    \/ Crash
    \/ stop
    \/ \E c \in Clients : disconnect(c)
    \/ \E c \in Clients : ClientEnds(c)
    \/ \E frames \in StrangerFrames : StrangerConnects(frames)
    \/ \E k \in Sockets : StrangerReads(k) \/ StrangerLeaves(k)

\* The coordinator goes on while it can, and so do the workers: that some thread
\* of each goes on is enough, since there is only so much for the others to do.
\* Nobody has to stop, crash, disconnect or send what is no worker's frame, and
\* a peer that is no worker does not have to read.
Fairness == WF_vars(Coordinator) /\ WF_vars(\E c \in Clients : Worker(c))

Spec == Init /\ [][Next]_vars /\ Fairness

-----------------------------------------------------------------------------
(* Properties.                                                             *)

Connection ==
    [peer : Clients \cup {Stranger}, open : BOOLEAN,
     to_server : Seq(Frames), to_client : Seq(Frames),
     thread : {"ended", "backlog", "receive", "reply"},
     handshake_completed : BOOLEAN, seen : SUBSET Identities,
     response : Seq(Frames)]

ClientState ==
    [pc : Operation \cup {"idle", "gone"}, socket : Sockets \cup {NoSocket},
     connected : BOOLEAN, authority : Authorities, todo : SUBSET Calls,
     refused : BOOLEAN]

\* The threads, sockets and frames have their types: in particular a thread
\* that has closed its socket is never left as if it served it, and what is
\* answered is a message type of the protocol (coordinator_server.cpp 171-268).
TypeOK ==
    /\ running \in {"no", "yes", "stopping"} /\ accepting \in BOOLEAN
    /\ incarnation \in 0 .. MaxIncarnations
    /\ authority \in Authorities /\ disk \in Authorities
    /\ worker_boots \in [WorkerIds -> Nat] /\ greeted \in SUBSET Clients
    /\ socket \in [Sockets -> Connection]
    /\ client \in [Clients -> ClientState]
    /\ disturbances \in 0 .. MaxDisturbances

\* The thread of connection k waits in send_all() for its peer to read.
SendBlocks(k) ==
    /\ ~CanSend(k)
    /\ \/ socket[k].thread = "reply"
       \/ Received(k) /\ ~decode_frame(Incoming(k))

\* stop() waits for a thread that waits for a peer that is no worker.
StopIsHeld ==
    /\ running = "stopping"
    /\ \E k \in Sockets : socket[k].peer = Stranger /\ SendBlocks(k)

\* stop() returns, unless a peer that is no worker leaves its answers unread for
\* good: while stop() waits for the accept thread and for a thread of every
\* connection, none of them blocks in receiving for longer than the timeout, and
\* none blocks in sending to a worker, whatever the workers do or leave undone;
\* for sending no timeout is set
\* (coordinator_server.cpp 96-147, 171-268, socket.cpp 99-115).
StopReturns == running = "stopping" ~> (running = "no" \/ []StopIsHeld)

\* A call of a worker returns, with an answer or without: the client sets no
\* timeout and waits in its socket, which the coordinator always comes to
\* answer or to close, also when it never accepted the connection, unless that
\* is left in the backlog of a stop() that never returns
\* (worker_client.cpp 112-165, coordinator_server.cpp 96-147).
CallReturns ==
    \A c \in Clients :
        Waiting(c) ~>
            \/ ~Waiting(c)
            \/ [](/\ StopIsHeld
                  /\ \E k \in Sockets : /\ socket[k].peer = c
                                        /\ socket[k].thread = "backlog")

\* A caller that reconnects and asks again gets its answers, through timeouts,
\* lost answers, restarts and repeated identities, unless its boot is refused
\* because a newer one of the same worker was there first, or the coordinator
\* never comes back from stop() (worker_client.cpp 60-165,
\* coordinator_server.cpp 149-268).
OutcomeIsLearned ==
    <>(\/ \A c \in Clients : client[c].todo = {} \/ client[c].refused
       \/ []StopIsHeld)

\* The frames of workers carry the authority of the process that receives them,
\* after every restart, so the coordinator refuses none of them as stale: the
\* handshake of each connection brings the client up to date
\* (worker_client.cpp 84-110, 157-164, coordinator_server.cpp 275-285).
FramesCarryCurrentAuthority ==
    \A k \in Sockets :
        socket[k].peer # Stranger /\ socket[k].thread # "ended" =>
            \A i \in DOMAIN socket[k].to_server :
                LET f == socket[k].to_server[i]
                IN  f.type # <<"Hello", "Request">> => f.authority = authority

\* While a process runs, an older boot of a worker never completes a handshake
\* once a newer one has, also when the connection of the newer one is closed
\* since; the connections of the older one from before go on
\* (coordinator_server.cpp 149-169, 236-252, 288-295).
OlderBootNeverReturns ==
    [][\A k \in Sockets :
          ~socket[k].handshake_completed /\ socket'[k].handshake_completed =>
              \A g \in greeted :
                  g.worker = socket[k].peer.worker
                      => g.boot <= socket[k].peer.boot]_vars
=============================================================================
