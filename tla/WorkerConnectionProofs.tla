------------------------ MODULE WorkerConnectionProofs ------------------------
(***************************************************************************)
(* Proofs about workers and the coordinator over their sockets, for every  *)
(* set of clients and calls, any number of connections and restarts and    *)
(* whatever other peers send.                                              *)
(***************************************************************************)
EXTENDS WorkerConnection, TLAPS

-----------------------------------------------------------------------------
(* The invariant, connection by connection and client by client.           *)

\* Every answer carries this authority.
Carry(answers, auth) ==
    \A i \in DOMAIN answers : answers[i].authority = auth

\* Every frame but a handshake carries this authority.
CarryBeyondHello(frames, auth) ==
    \A i \in DOMAIN frames :
        frames[i].type # <<"Hello", "Request">> => frames[i].authority = auth

\* A connection, given the state of the process and its authority: it has no
\* thread when no process runs, and what is on its way carries the authority of
\* the process.
SocketSound(s, run, auth) ==
    /\ run = "no" => s.thread = "ended"
    /\ s.thread # "ended" => Carry(s.to_client, auth) /\ Carry(s.response, auth)
    /\ s.thread # "ended" /\ s.peer # Stranger
          => CarryBeyondHello(s.to_server, auth)

\* A client: its socket is its own and open; once its handshake has returned it
\* knows the authority of the process, unless that has closed the connection.
ClientSound(c, w, sockets, auth) ==
    /\ w.pc \notin {"idle", "gone"} => w.connected
    /\ w.connected => /\ w.socket \in Sockets
                      /\ sockets[w.socket].peer = c /\ sockets[w.socket].open
    /\ ~w.connected => w.socket = NoSocket
    /\ w.connected /\ w.pc # "Hello" /\ sockets[w.socket].thread # "ended"
          => w.authority = auth

SocketsAreSound ==
    \A k \in Sockets : SocketSound(socket[k], running, authority)

ClientsAreSound ==
    \A c \in Clients : ClientSound(c, client[c], socket, authority)

\* Whoever shook hands with the process has its boot registered, or a newer one.
GreetedAreRegistered == \A g \in greeted : g.boot <= worker_boots[g.worker]

ConnectionInvariant ==
    TypeOK /\ SocketsAreSound /\ ClientsAreSound /\ GreetedAreRegistered

-----------------------------------------------------------------------------
(* Frames on their way.                                                    *)

\* A frame is added to what was sent.
LEMMA FrameAppended ==
    ASSUME NEW s \in Seq(Frames), NEW f \in Frames, NEW auth
    PROVE  /\ Append(s, f) \in Seq(Frames)
           /\ CarryBeyondHello(s, auth) /\ f.authority = auth
                 => CarryBeyondHello(Append(s, f), auth)
  <1>1. Append(s, f) \in Seq(Frames)
    OBVIOUS
  <1>2. \A i \in DOMAIN Append(s, f) :
           (i \in DOMAIN s /\ Append(s, f)[i] = s[i]) \/ Append(s, f)[i] = f
    OBVIOUS
  <1> QED  BY <1>1, <1>2 DEF CarryBeyondHello

\* The first frame is taken.
LEMMA FrameTaken ==
    ASSUME NEW s \in Seq(Frames), s # <<>>, NEW auth
    PROVE  /\ Head(s) \in Frames /\ Tail(s) \in Seq(Frames)
           /\ CarryBeyondHello(s, auth) => CarryBeyondHello(Tail(s), auth)
           /\ Carry(s, auth) => Carry(Tail(s), auth) /\ Head(s).authority = auth
  <1>1. Head(s) \in Frames /\ Tail(s) \in Seq(Frames) /\ Head(s) = s[1]
        /\ 1 \in DOMAIN s
    OBVIOUS
  <1>2. \A i \in DOMAIN Tail(s) : i + 1 \in DOMAIN s /\ Tail(s)[i] = s[i + 1]
    OBVIOUS
  <1> QED  BY <1>1, <1>2 DEF CarryBeyondHello, Carry

\* Answers are added to what was answered.
LEMMA AnswersAdded ==
    ASSUME NEW s \in Seq(Frames), NEW t \in Seq(Frames), NEW auth
    PROVE  /\ s \o t \in Seq(Frames)
           /\ Carry(s, auth) /\ Carry(t, auth) => Carry(s \o t, auth)
  <1>1. s \o t \in Seq(Frames)
    OBVIOUS
  <1>2. \A i \in DOMAIN (s \o t) :
           \/ i \in DOMAIN s /\ (s \o t)[i] = s[i]
           \/ i - Len(s) \in DOMAIN t /\ (s \o t)[i] = t[i - Len(s)]
    OBVIOUS
  <1> QED  BY <1>1, <1>2 DEF Carry

\* Sequences of no frame and of one.
LEMMA ShortSequences ==
    ASSUME NEW f \in Frames, NEW auth
    PROVE  /\ <<>> \in Seq(Frames) /\ <<f>> \in Seq(Frames)
           /\ Carry(<<>>, auth) /\ CarryBeyondHello(<<>>, auth)
           /\ f.authority = auth => Carry(<<f>>, auth)
           /\ f.type = <<"Hello", "Request">> => CarryBeyondHello(<<f>>, auth)
  <1>1. DOMAIN <<f>> = {1} /\ <<f>>[1] = f /\ <<f>> \in Seq(Frames)
    OBVIOUS
  <1>2. <<>> \in Seq(Frames) /\ DOMAIN <<>> = {}
    OBVIOUS
  <1> QED  BY <1>1, <1>2 DEF Carry, CarryBeyondHello

\* What the worker sends.
LEMMA RequestFrames ==
    ASSUME NEW op \in Operation, NEW auth \in Authorities
    PROVE  /\ Request(op, auth) \in Frames
           /\ Request(op, auth).authority = auth
           /\ Request(op, auth).type = <<op, "Request">>
  BY DEF Request, Frame, Identity, Frames, Identities, RequestType, Operation,
         Generated, NoId

\* What the coordinator answers.
LEMMA AnswerFrames ==
    ASSUME NEW f \in Frames, NEW auth \in Authorities
    PROVE  /\ f.type \in RequestType => /\ Answer(f, auth) \in Frames
                                        /\ Answer(f, auth).authority = auth
           /\ \A code \in {"ProtocolMalformed", "DuplicateRequest",
                           "InvalidIdentity", "StaleWorkerBoot", "ShuttingDown",
                           "StaleCoordinatorEpoch", EngineError} :
                 /\ error_response(f, auth, code) \in Frames
                 /\ error_response(f, auth, code).authority = auth
  <1>1. f.request \in Identities /\ NoId \in Identities
    BY DEF Frames, Identities
  <1>2. f.type \in RequestType => <<f.type[1], "Response">> \in ResponseType
    BY DEF RequestType, ResponseType
  <1>3. ASSUME NEW type \in ResponseType \cup {Error},
               NEW code \in {"Ok", "ProtocolMalformed", "DuplicateRequest",
                             "InvalidIdentity", "StaleWorkerBoot",
                             "ShuttingDown", "StaleCoordinatorEpoch",
                             EngineError}
        PROVE  /\ Response(f, type, auth, code) \in Frames
               /\ Response(f, type, auth, code).authority = auth
    BY <1>1 DEF Response, Frame, Frames
  <1> QED  BY <1>2, <1>3 DEF Answer, error_response

-----------------------------------------------------------------------------
(* What happens to a connection.                                           *)

\* A connection that was reclaimed is sound, whatever the process does.
LEMMA FreeSocketSound ==
    ASSUME NEW run, NEW auth
    PROVE  FreeSocket \in Connection /\ SocketSound(FreeSocket, run, auth)
  <1>1. FreeSocket \in Connection
    <2>1. <<>> \in Seq(Frames) /\ {} \in SUBSET Identities
      OBVIOUS
    <2> QED  BY <2>1 DEF FreeSocket, Connection
  <1>2. FreeSocket.thread = "ended"
    BY DEF FreeSocket
  <1> QED  BY <1>1, <1>2 DEF SocketSound

\* A new connection, with the frames its peer sends at once.
LEMMA NewSocketSound ==
    ASSUME NEW peer \in Clients \cup {Stranger}, NEW frames \in Seq(Frames),
           NEW run, run # "no", NEW auth,
           peer = Stranger \/ CarryBeyondHello(frames, auth)
    PROVE  /\ NewSocket(peer, frames) \in Connection
           /\ NewSocket(peer, frames).peer = peer
           /\ NewSocket(peer, frames).open
           /\ ~NewSocket(peer, frames).handshake_completed
           /\ SocketSound(NewSocket(peer, frames), run, auth)
  <1> DEFINE n == NewSocket(peer, frames)
  <1>1. /\ FreeSocket \in Connection /\ ~FreeSocket.handshake_completed
        /\ FreeSocket.to_client = <<>> /\ FreeSocket.response = <<>>
    BY FreeSocketSound DEF FreeSocket
  <1>2. /\ n \in Connection /\ n.peer = peer /\ n.open /\ ~n.handshake_completed
        /\ n.to_server = frames /\ n.to_client = <<>> /\ n.response = <<>>
    BY <1>1 DEF Connection, NewSocket
  <1>3. Carry(<<>>, auth)
    BY DEF Carry
  <1> HIDE DEF n
  <1>4. SocketSound(n, run, auth)
    BY <1>2, <1>3 DEF SocketSound
  <1> QED  BY <1>2, <1>4 DEF n

\* The process closes its end.
LEMMA ServerClosesView ==
    ASSUME NEW s \in Connection, NEW run, NEW auth
    PROVE  LET t == ServerCloses(s)
           IN  /\ t \in Connection /\ SocketSound(t, run, auth)
               /\ t.thread = "ended" /\ ~t.handshake_completed
               /\ s.open /\ s.peer # Stranger => t.open /\ t.peer = s.peer
  <1> DEFINE t == [s EXCEPT !.thread = "ended", !.to_server = <<>>,
                            !.response = <<>>, !.handshake_completed = FALSE,
                            !.seen = {}]
  <1>1. /\ t \in Connection /\ t.thread = "ended" /\ ~t.handshake_completed
        /\ t.open = s.open /\ t.peer = s.peer
    <2>1. <<>> \in Seq(Frames) /\ {} \in SUBSET Identities
      OBVIOUS
    <2> QED  BY <2>1 DEF Connection
  <1>2. SocketSound(t, run, auth)
    BY <1>1 DEF SocketSound
  <1>3. /\ FreeSocket.thread = "ended" /\ ~FreeSocket.handshake_completed
    BY DEF FreeSocket
  <1>4. ServerCloses(s) = IF t.open => t.peer = Stranger THEN FreeSocket ELSE t
    BY <1>1 DEF ServerCloses, Reclaimed
  <1> HIDE DEF t
  <1>5. t.open \in BOOLEAN
    BY <1>1 DEF Connection
  <1> QED  BY <1>1, <1>2, <1>3, <1>4, <1>5, FreeSocketSound

\* The client closes its end.
LEMMA ClientClosesView ==
    ASSUME NEW s \in Connection, NEW run, NEW auth,
           SocketSound(s, run, auth)
    PROVE  LET t == ClientCloses(s)
           IN  /\ t \in Connection /\ SocketSound(t, run, auth)
               /\ t.handshake_completed => s.handshake_completed
  <1> DEFINE t == [s EXCEPT !.open = FALSE, !.to_client = <<>>]
  <1>1. /\ t \in Connection /\ t.thread = s.thread /\ t.peer = s.peer
        /\ t.handshake_completed = s.handshake_completed
        /\ t.to_client = <<>> /\ t.response = s.response
        /\ t.to_server = s.to_server
    <2>1. <<>> \in Seq(Frames)
      OBVIOUS
    <2> QED  BY <2>1 DEF Connection
  <1>2. Carry(<<>>, auth)
    BY DEF Carry
  <1>3. SocketSound(t, run, auth)
    BY <1>1, <1>2 DEF SocketSound
  <1>4. ClientCloses(s) = FreeSocket \/ ClientCloses(s) = t
    BY DEF ClientCloses, Reclaimed
  <1>5. ~FreeSocket.handshake_completed
    BY DEF FreeSocket
  <1> HIDE DEF t
  <1> QED  BY <1>1, <1>3, <1>4, <1>5, FreeSocketSound

\* The client sends a frame.
LEMMA FrameSentView ==
    ASSUME NEW s \in Connection, NEW f \in Frames, NEW run, NEW auth,
           SocketSound(s, run, auth),
           s.thread # "ended" => f.authority = auth
    PROVE  LET t == IF s.thread = "ended" THEN s
                    ELSE [s EXCEPT !.to_server = Append(@, f)]
           IN  /\ t \in Connection /\ SocketSound(t, run, auth)
               /\ t.open = s.open /\ t.peer = s.peer /\ t.thread = s.thread
               /\ t.handshake_completed = s.handshake_completed
  <1>1. CASE s.thread = "ended"
    BY <1>1
  <1>2. CASE s.thread # "ended"
    <2> DEFINE t == [s EXCEPT !.to_server = Append(@, f)]
    <2>1. s.to_server \in Seq(Frames)
      BY DEF Connection
    <2>2. Append(s.to_server, f) \in Seq(Frames)
          /\ (CarryBeyondHello(s.to_server, auth)
                 => CarryBeyondHello(Append(s.to_server, f), auth))
      BY <1>2, <2>1, FrameAppended
    <2>3. /\ t \in Connection /\ t.thread = s.thread /\ t.peer = s.peer
          /\ t.handshake_completed = s.handshake_completed
          /\ t.to_client = s.to_client /\ t.response = s.response
          /\ t.open = s.open /\ t.to_server = Append(s.to_server, f)
      BY <2>2 DEF Connection
    <2> HIDE DEF t
    <2>4. SocketSound(t, run, auth)
      BY <2>2, <2>3 DEF SocketSound
    <2> QED  BY <1>2, <2>3, <2>4 DEF t
  <1> QED  BY <1>1, <1>2

\* The client takes an answer.
LEMMA AnswerTakenView ==
    ASSUME NEW s \in Connection, s.to_client # <<>>,
           NEW run, NEW auth, SocketSound(s, run, auth)
    PROVE  LET t == [s EXCEPT !.to_client = Tail(@)]
           IN  /\ t \in Connection /\ SocketSound(t, run, auth)
               /\ t.open = s.open /\ t.peer = s.peer /\ t.thread = s.thread
               /\ t.handshake_completed = s.handshake_completed
               /\ Head(s.to_client) \in Frames
               /\ s.thread # "ended" => Head(s.to_client).authority = auth
  <1> DEFINE t == [s EXCEPT !.to_client = Tail(@)]
  <1>1. s.to_client \in Seq(Frames)
    BY DEF Connection
  <1>2. /\ Tail(s.to_client) \in Seq(Frames) /\ Head(s.to_client) \in Frames
        /\ Carry(s.to_client, auth) => /\ Carry(Tail(s.to_client), auth)
                                       /\ Head(s.to_client).authority = auth
    BY <1>1, FrameTaken
  <1>3. /\ t \in Connection /\ t.thread = s.thread /\ t.peer = s.peer
        /\ t.handshake_completed = s.handshake_completed
        /\ t.to_client = Tail(s.to_client) /\ t.response = s.response
        /\ t.open = s.open /\ t.to_server = s.to_server
    BY <1>2 DEF Connection
  <1> HIDE DEF t
  <1>4. /\ SocketSound(t, run, auth)
        /\ s.thread # "ended" => Head(s.to_client).authority = auth
    BY <1>2, <1>3 DEF SocketSound
  <1> QED  BY <1>2, <1>3, <1>4 DEF t

\* The thread answers the frame it received.
LEMMA AnsweringView ==
    ASSUME NEW k, socket[k] \in Connection, Received(k), NEW answer \in Frames,
           NEW run, NEW auth, SocketSound(socket[k], run, auth),
           answer.authority = auth
    PROVE  LET s == socket[k]
               t == Answering(k, answer)
           IN  /\ Incoming(k) \in Frames
               /\ t \in Connection /\ SocketSound(t, run, auth)
               /\ t.open = s.open /\ t.peer = s.peer
               /\ t.handshake_completed = s.handshake_completed
               /\ s.thread # "ended"
  <1> DEFINE s == socket[k]
             seen == s.seen \cup ({Incoming(k).request} \ {Generated})
             t == [s EXCEPT !.to_server = Tail(@), !.response = <<answer>>,
                            !.thread = "reply", !.seen = seen]
  <1>1. s.to_server \in Seq(Frames) /\ s.seen \in SUBSET Identities
    BY DEF Connection
  <1>2. s.thread = "receive" /\ s.to_server # <<>>
    BY DEF Received
  <1>3. /\ Head(s.to_server) \in Frames /\ Tail(s.to_server) \in Seq(Frames)
        /\ CarryBeyondHello(s.to_server, auth)
              => CarryBeyondHello(Tail(s.to_server), auth)
    BY <1>1, <1>2, FrameTaken
  <1>4. <<answer>> \in Seq(Frames) /\ Carry(<<answer>>, auth)
    BY ShortSequences
  <1>5. Incoming(k) \in Frames /\ seen \in SUBSET Identities
    <2>1. Incoming(k) \in Frames
      BY <1>3 DEF Incoming
    <2>2. Incoming(k).request \in Identities
      BY <2>1 DEF Frames
    <2> QED  BY <1>1, <2>1, <2>2
  <1> HIDE DEF seen
  <1>6. /\ t \in Connection /\ t.thread = "reply" /\ t.peer = s.peer
        /\ t.handshake_completed = s.handshake_completed
        /\ t.to_client = s.to_client /\ t.response = <<answer>>
        /\ t.open = s.open /\ t.to_server = Tail(s.to_server)
    BY <1>3, <1>4, <1>5 DEF Connection
  <1>7. t = Answering(k, answer)
    BY DEF Answering, seen
  <1> HIDE DEF t, s
  <1>8. SocketSound(s, run, auth)
    BY DEF s
  <1>9. SocketSound(t, run, auth)
    BY <1>2, <1>3, <1>4, <1>6, <1>8 DEF SocketSound
  <1> QED  BY <1>2, <1>5, <1>6, <1>7, <1>9 DEF s

\* The thread sends its answers.
LEMMA SentView ==
    ASSUME NEW s \in Connection, NEW answers \in Seq(Frames), NEW run,
           NEW auth, SocketSound(s, run, auth), s.thread # "ended",
           Carry(answers, auth)
    PROVE  LET t == Sent(s, answers)
           IN  /\ t \in Connection /\ SocketSound(t, run, auth)
               /\ t.open = s.open /\ t.peer = s.peer
               /\ t.handshake_completed = s.handshake_completed
  <1> DEFINE received == IF s.open THEN s.to_client \o answers ELSE s.to_client
             t == [s EXCEPT !.to_client = received, !.response = <<>>,
                            !.thread = "receive"]
  <1>1. s.to_client \in Seq(Frames) /\ <<>> \in Seq(Frames) /\ Carry(<<>>, auth)
    BY DEF Connection, Carry
  <1>2. /\ received \in Seq(Frames)
        /\ Carry(s.to_client, auth) => Carry(received, auth)
    BY <1>1, AnswersAdded
  <1>3. t = Sent(s, answers)
    BY DEF Sent
  <1> HIDE DEF received
  <1>4. /\ t \in Connection /\ t.thread = "receive" /\ t.peer = s.peer
        /\ t.handshake_completed = s.handshake_completed
        /\ t.to_client = received /\ t.response = <<>>
        /\ t.open = s.open /\ t.to_server = s.to_server
    BY <1>1, <1>2 DEF Connection
  <1> HIDE DEF t
  <1>5. SocketSound(t, run, auth)
    BY <1>1, <1>2, <1>4 DEF SocketSound
  <1> QED  BY <1>3, <1>4, <1>5

-----------------------------------------------------------------------------
(* What a step does to the invariant.                                      *)

\* The thread's end of the connection changed: the client's stays as it was.
Kept(s, t) ==
    s.open /\ s.peer # Stranger =>
        /\ t.open /\ t.peer = s.peer
        /\ t.thread # "ended" => s.thread # "ended"

\* A worker has an identity, which a peer that is none has not.
LEMMA WorkerIsNoStranger ==
    ASSUME NEW c \in Clients
    PROVE  c # Stranger
  BY ConnectionAssumption DEF Stranger

\* No connection completes its handshake.
NoNewHandshake ==
    \A k \in Sockets :
        socket'[k].handshake_completed => socket[k].handshake_completed

\* A thread served its connection.
LEMMA ServedStep ==
    ASSUME ConnectionInvariant, NEW k \in Sockets, NEW t \in Connection,
           Update(k, t), Kept(socket[k], t),
           SocketSound(t, running, authority),
           worker_boots' \in [WorkerIds -> Nat], greeted' \in SUBSET Clients,
           GreetedAreRegistered',
           UNCHANGED <<running, accepting, incarnation, authority, client>>,
           disk' \in Authorities, disturbances' \in 0 .. MaxDisturbances
    PROVE  /\ ConnectionInvariant'
           /\ (t.handshake_completed => socket[k].handshake_completed)
                 => NoNewHandshake
  <1>1. socket \in [Sockets -> Connection]
    BY DEF ConnectionInvariant, TypeOK
  <1>2. /\ socket' \in [Sockets -> Connection] /\ socket'[k] = t
        /\ \A l \in Sockets : l = k \/ socket'[l] = socket[l]
    BY <1>1 DEF Update
  <1>3. TypeOK'
    BY <1>2 DEF ConnectionInvariant, TypeOK
  <1>4. SocketsAreSound'
    <2>1. \A l \in Sockets :
             SocketSound(socket[l], running, authority)
      BY DEF ConnectionInvariant, SocketsAreSound
    <2>2. \A l \in Sockets :
             SocketSound(socket'[l], running, authority)
      BY <1>2, <2>1
    <2> QED  BY <2>2 DEF SocketsAreSound
  <1>5. ClientsAreSound'
    <2>1. ASSUME NEW c \in Clients
          PROVE  ClientSound(c, client[c], socket', authority)
      <3>1. ClientSound(c, client[c], socket, authority)
        BY DEF ConnectionInvariant, ClientsAreSound
      <3> QED  BY <1>2, <3>1, WorkerIsNoStranger DEF ClientSound, Kept
    <2> QED  BY <2>1 DEF ClientsAreSound
  <1> QED  BY <1>2, <1>3, <1>4, <1>5 DEF ConnectionInvariant, NoNewHandshake

\* No other client is connected to the socket.
OwnSocket(c, k) == socket[k].peer = c \/ ~socket[k].open

\* A client did something, with its own connection.
LEMMA WorkerStep ==
    ASSUME ConnectionInvariant, NEW c \in Clients, NEW k \in Sockets,
           NEW t \in Connection, NEW w \in ClientState,
           Update(k, t), OwnSocket(c, k),
           client' = [client EXCEPT ![c] = w],
           SocketSound(t, running, authority),
           ClientSound(c, w, [socket EXCEPT ![k] = t], authority),
           UNCHANGED <<serverVars, worker_boots, greeted>>,
           disturbances' \in 0 .. MaxDisturbances,
           t.handshake_completed => socket[k].handshake_completed
    PROVE  ConnectionInvariant' /\ NoNewHandshake
  <1>1. socket \in [Sockets -> Connection] /\ client \in [Clients -> ClientState]
    BY DEF ConnectionInvariant, TypeOK
  <1>2. /\ socket' \in [Sockets -> Connection] /\ socket'[k] = t
        /\ \A l \in Sockets : l = k \/ socket'[l] = socket[l]
        /\ socket' = [socket EXCEPT ![k] = t]
    BY <1>1 DEF Update
  <1>3. /\ client' \in [Clients -> ClientState] /\ client'[c] = w
        /\ \A d \in Clients : d = c \/ client'[d] = client[d]
    BY <1>1
  <1>4. TypeOK'
    BY <1>2, <1>3 DEF ConnectionInvariant, TypeOK, serverVars
  <1>5. SocketsAreSound'
    <2>1. \A l \in Sockets :
             SocketSound(socket[l], running, authority)
      BY DEF ConnectionInvariant, SocketsAreSound
    <2>2. \A l \in Sockets :
             SocketSound(socket'[l], running, authority)
      BY <1>2, <2>1
    <2> QED  BY <2>2 DEF SocketsAreSound, serverVars
  <1>6. ClientsAreSound'
    <2>1. ASSUME NEW d \in Clients
          PROVE  ClientSound(d, client'[d], socket', authority)
      <3>1. CASE d = c
        BY <1>2, <1>3, <3>1
      <3>2. CASE d # c
        <4>1. ClientSound(d, client[d], socket, authority)
          BY DEF ConnectionInvariant, ClientsAreSound
        <4>2. client[d].connected => client[d].socket # k
          BY <3>2, <4>1 DEF ClientSound, OwnSocket
        <4> QED  BY <1>2, <1>3, <3>2, <4>1, <4>2 DEF ClientSound
      <3> QED  BY <3>1, <3>2
    <2> QED  BY <2>1 DEF ClientsAreSound, serverVars
  <1>7. GreetedAreRegistered'
    BY DEF ConnectionInvariant, GreetedAreRegistered
  <1> QED  BY <1>2, <1>4, <1>5, <1>6, <1>7 DEF ConnectionInvariant, NoNewHandshake

\* A connection for a new peer is a free one.
LEMMA NextSocketIsFree ==
    ASSUME FreeSockets # {}, NEW peer
    PROVE  NextSocket(peer) \in Sockets /\ socket[NextSocket(peer)] = FreeSocket
  BY DEF FreeSockets, NextSocket

\* Types of one connection and of one client.
LEMMA InvariantParts ==
    ASSUME ConnectionInvariant
    PROVE  /\ \A k \in Sockets :
                 /\ socket[k] \in Connection
                 /\ SocketSound(socket[k], running, authority)
           /\ \A c \in Clients :
                 /\ client[c] \in ClientState
                 /\ ClientSound(c, client[c], socket, authority)
           /\ authority \in Authorities /\ disk \in Authorities
           /\ worker_boots \in [WorkerIds -> Nat] /\ greeted \in SUBSET Clients
           /\ \A g \in greeted : g.boot <= worker_boots[g.worker]
           /\ disturbances \in 0 .. MaxDisturbances
  BY DEF ConnectionInvariant, TypeOK, SocketsAreSound, ClientsAreSound,
         GreetedAreRegistered

\* A client waits on a connection of its own.
LEMMA WaitingClient ==
    ASSUME ConnectionInvariant, NEW c \in Clients,
           Waiting(c) \/ client[c].connected
    PROVE  /\ client[c].connected /\ client[c].socket \in Sockets
           /\ socket[client[c].socket].open
           /\ OwnSocket(c, client[c].socket)
           /\ client[c].pc # "Hello" /\ socket[client[c].socket].thread # "ended"
                 => client[c].authority = authority
  BY InvariantParts DEF Waiting, ClientSound, OwnSocket

\* connect().
LEMMA ConnectStep ==
    ASSUME ConnectionInvariant, NEW c \in Clients, connect(c)
    PROVE  ConnectionInvariant' /\ NoNewHandshake
  <1> DEFINE k == NextSocket(c)
             t == NewSocket(c, <<Hello>>)
             w == [client[c] EXCEPT !.pc = "Hello", !.socket = k,
                                    !.connected = TRUE]
  <1>1. k \in Sockets /\ ~socket[k].open /\ client[c] \in ClientState
    BY NextSocketIsFree, InvariantParts DEF connect, FreeSocket
  <1>2. running # "no"
    BY DEF connect, Listening
  <1>3. NoAuthority \in Authorities /\ "Hello" \in Operation
    BY DEF NoAuthority, Authorities, Operation
  <1>4. Hello \in Frames /\ Hello.type = <<"Hello", "Request">>
    BY <1>3, RequestFrames DEF Hello
  <1>5. /\ <<Hello>> \in Seq(Frames)
        /\ CarryBeyondHello(<<Hello>>, authority)
    BY <1>4, ShortSequences
  <1>6. /\ t \in Connection /\ t.peer = c /\ t.open /\ ~t.handshake_completed
        /\ SocketSound(t, running, authority)
    <2> DEFINE frames == <<Hello>>
    <2>1. /\ frames \in Seq(Frames) /\ CarryBeyondHello(frames, authority)
          /\ c \in Clients \cup {Stranger}
      BY <1>5
    <2> HIDE DEF frames
    <2>2. /\ NewSocket(c, frames) \in Connection
          /\ NewSocket(c, frames).peer = c /\ NewSocket(c, frames).open
          /\ ~NewSocket(c, frames).handshake_completed
          /\ SocketSound(NewSocket(c, frames), running, authority)
      BY <1>2, <2>1, NewSocketSound
    <2> QED  BY <2>2 DEF frames
  <1> HIDE DEF t, k
  <1>7. /\ w \in ClientState /\ w.pc = "Hello" /\ w.socket = k /\ w.connected
    BY <1>1, <1>3 DEF ClientState
  <1>8. client' = [client EXCEPT ![c] = w] /\ Update(k, t)
    BY DEF connect, k, t
  <1> HIDE DEF w
  <1>9. ClientSound(c, w, [socket EXCEPT ![k] = t], authority)
    <2>1. [socket EXCEPT ![k] = t][k] = t
      BY <1>1 DEF ConnectionInvariant, TypeOK
    <2> QED  BY <1>1, <1>6, <1>7, <2>1 DEF ClientSound
  <1>10. UNCHANGED <<serverVars, worker_boots, greeted>>
         /\ disturbances' \in 0 .. MaxDisturbances
    BY InvariantParts DEF connect
  <1> QED  BY <1>1, <1>6, <1>7, <1>8, <1>9, <1>10, WorkerStep DEF OwnSocket

\* The part of a call up to the answer.
LEMMA CallStep ==
    ASSUME ConnectionInvariant, NEW c \in Clients, NEW op \in client[c].todo,
           call(c, op)
    PROVE  ConnectionInvariant' /\ NoNewHandshake
  <1> DEFINE k == client[c].socket
             s == socket[k]
             f == Request(op, client[c].authority)
             t == IF s.thread = "ended" THEN s
                  ELSE [s EXCEPT !.to_server = Append(@, f)]
             w == [client[c] EXCEPT !.pc = op]
  <1>1. client[c] \in ClientState /\ client[c].pc = "idle" /\ client[c].connected
    BY InvariantParts DEF call
  <1>2. op \in Operation /\ op # "Hello" /\ client[c].authority \in Authorities
    BY <1>1, ConnectionAssumption DEF ClientState
  <1>3. f \in Frames /\ f.authority = client[c].authority
    BY <1>2, RequestFrames
  <1>4. /\ k \in Sockets /\ s.open /\ OwnSocket(c, k) /\ s.peer = c
        /\ s.thread # "ended" => client[c].authority = authority
    BY <1>1, WaitingClient, InvariantParts DEF ClientSound
  <1>5. s \in Connection /\ SocketSound(s, running, authority)
    BY <1>4, InvariantParts
  <1>6. client' = [client EXCEPT ![c] = w] /\ Update(k, t)
    BY DEF call
  <1> HIDE DEF f, s
  <1>7. /\ t \in Connection /\ SocketSound(t, running, authority)
        /\ t.open = s.open /\ t.peer = s.peer /\ t.thread = s.thread
        /\ t.handshake_completed = s.handshake_completed
    BY <1>3, <1>4, <1>5, FrameSentView
  <1> HIDE DEF t, k
  <1>8. /\ w \in ClientState /\ w.pc = op /\ w.socket = k /\ w.connected
        /\ w.authority = client[c].authority
    BY <1>1, <1>2 DEF ClientState, k
  <1> HIDE DEF w
  <1>9. ClientSound(c, w, [socket EXCEPT ![k] = t], authority)
    <2>1. [socket EXCEPT ![k] = t][k] = t
      BY <1>4 DEF ConnectionInvariant, TypeOK
    <2> QED  BY <1>4, <1>7, <1>8, <2>1 DEF ClientSound
  <1>10. UNCHANGED <<serverVars, worker_boots, greeted>>
         /\ disturbances' \in 0 .. MaxDisturbances
    BY InvariantParts DEF call
  <1> QED  BY <1>4, <1>6, <1>7, <1>8, <1>9, <1>10, WorkerStep DEF s, k

\* The end of exchange(), with an answer.
LEMMA ExchangeStep ==
    ASSUME ConnectionInvariant, NEW c \in Clients, exchange(c)
    PROVE  ConnectionInvariant' /\ NoNewHandshake
  <1> DEFINE k == client[c].socket
             s == socket[k]
             answer == Head(s.to_client)
             rest == [s EXCEPT !.to_client = Tail(@)]
             failed == ~Correlates(c, answer) \/ answer.type = Error
             closes == failed /\ client[c].pc = "Hello"
             t == IF closes THEN ClientCloses(rest) ELSE rest
             w == IF failed THEN Refused(c, answer) ELSE Adopted(c, answer)
  <1>1. /\ Waiting(c) /\ s.to_client # <<>> /\ Update(k, t)
        /\ client' = [client EXCEPT ![c] = w]
    BY DEF exchange
  <1>2. /\ client[c] \in ClientState /\ client[c].connected
        /\ k \in Sockets /\ s.open /\ s.peer = c /\ OwnSocket(c, k)
        /\ client[c].pc # "Hello" /\ s.thread # "ended"
              => client[c].authority = authority
    BY <1>1, WaitingClient, InvariantParts DEF ClientSound
  <1>3. /\ s \in Connection /\ s.to_client # <<>>
        /\ SocketSound(s, running, authority)
    BY <1>1, <1>2, InvariantParts
  <1> HIDE DEF s
  <1>4. /\ rest \in Connection
        /\ SocketSound(rest, running, authority)
        /\ rest.open = s.open /\ rest.peer = s.peer /\ rest.thread = s.thread
        /\ rest.handshake_completed = s.handshake_completed
        /\ answer \in Frames
        /\ s.thread # "ended" => answer.authority = authority
    BY <1>3, AnswerTakenView
  <1>5. answer.authority \in Authorities
    BY <1>4 DEF Frames
  <1> HIDE DEF rest, answer, failed
  <1>6. /\ t \in Connection /\ SocketSound(t, running, authority)
        /\ ~closes => t.open /\ t.peer = c /\ t.thread = s.thread
        /\ t.handshake_completed => s.handshake_completed
    BY <1>2, <1>4, ClientClosesView
  <1> HIDE DEF t
  <1>7. \A b \in BOOLEAN :
           /\ Returned(c, b) \in ClientState /\ Returned(c, b).pc = "idle"
           /\ Returned(c, b).socket = k
           /\ Returned(c, b).connected
           /\ Returned(c, b).authority = client[c].authority
    BY <1>2 DEF Returned, ClientState
  <1>8. /\ closes => /\ w \in ClientState /\ w.pc = "idle" /\ ~w.connected
                     /\ w.socket = NoSocket
        /\ ~closes => /\ w \in ClientState /\ w.pc = "idle" /\ w.connected
                      /\ w.socket = k
                      /\ s.thread # "ended" => w.authority = authority
    <2>1. CASE ~failed
      <3>1. w = [Returned(c, TRUE) EXCEPT !.authority = answer.authority]
        BY <2>1 DEF Adopted
      <3>2. /\ w \in ClientState /\ w.pc = "idle" /\ w.connected /\ w.socket = k
            /\ w.authority = answer.authority
        BY <1>5, <1>7, <3>1 DEF ClientState
      <3> QED  BY <1>4, <2>1, <3>2
    <2>2. CASE failed /\ client[c].pc # "Hello"
      <3>1. w = Returned(c, answer.code = EngineError)
        BY <2>2 DEF Refused
      <3>2. (answer.code = EngineError) \in BOOLEAN
        OBVIOUS
      <3> QED  BY <1>2, <1>7, <2>2, <3>1, <3>2
    <2>3. CASE closes
      <3>1. w = [Returned(c, FALSE) EXCEPT !.socket = NoSocket,
                                           !.connected = FALSE,
                                           !.refused = TRUE]
        BY <2>3 DEF Refused
      <3> QED  BY <1>7, <2>3, <3>1 DEF ClientState
    <2> QED  BY <2>1, <2>2, <2>3
  <1>9. w \in ClientState
    BY <1>8
  <1> HIDE DEF w
  <1>10. ClientSound(c, w, [socket EXCEPT ![k] = t], authority)
    <2>1. [socket EXCEPT ![k] = t][k] = t
      BY <1>2 DEF ConnectionInvariant, TypeOK
    <2> HIDE DEF k, closes
    <2> QED  BY <1>2, <1>6, <1>8, <2>1 DEF ClientSound
  <1>11. UNCHANGED <<serverVars, worker_boots, greeted>>
         /\ disturbances' \in 0 .. MaxDisturbances
    BY InvariantParts DEF exchange
  <1>12. t.handshake_completed => socket[k].handshake_completed
    BY <1>6 DEF s
  <1> HIDE DEF k
  <1> QED  BY <1>1, <1>2, <1>6, <1>9, <1>10, <1>11, <1>12, WorkerStep

\* A client that lets go of its connection.
LEMMA LetsGo ==
    ASSUME ConnectionInvariant, NEW c \in Clients, client[c].connected,
           NEW s \in Connection, NEW w \in ClientState,
           SocketSound(s, running, authority),
           Update(client[c].socket, ClientCloses(s)),
           client' = [client EXCEPT ![c] = w],
           ~w.connected, w.socket = NoSocket, w.pc \in {"idle", "gone"},
           UNCHANGED <<serverVars, worker_boots, greeted>>,
           disturbances' \in 0 .. MaxDisturbances,
           s.handshake_completed = socket[client[c].socket].handshake_completed
    PROVE  ConnectionInvariant' /\ NoNewHandshake
  <1> DEFINE k == client[c].socket
             t == ClientCloses(s)
  <1>1. k \in Sockets /\ OwnSocket(c, k) /\ Update(k, t)
    BY WaitingClient
  <1>2. /\ t \in Connection /\ SocketSound(t, running, authority)
        /\ t.handshake_completed => socket[k].handshake_completed
    BY ClientClosesView
  <1>3. ClientSound(c, w, [socket EXCEPT ![k] = t], authority)
    BY DEF ClientSound
  <1> HIDE DEF k, t
  <1> QED  BY <1>1, <1>2, <1>3, WorkerStep

\* The end of exchange() without an answer, disconnect(), and the end of a
\* worker process.
LEMMA LeaveStep ==
    ASSUME ConnectionInvariant, NEW c \in Clients,
           connection_closed(c) \/ disconnect(c) \/ ClientEnds(c)
    PROVE  ConnectionInvariant' /\ NoNewHandshake
  <1> DEFINE k == client[c].socket
  <1>1. client[c] \in ClientState
    BY InvariantParts
  <1>2. CASE connection_closed(c)
    <2> DEFINE w == [client[c] EXCEPT !.pc = "idle", !.socket = NoSocket,
                                      !.connected = FALSE]
    <2>1. /\ w \in ClientState /\ ~w.connected /\ w.socket = NoSocket
          /\ w.pc = "idle"
      BY <1>1 DEF ClientState
    <2>2. client' = [client EXCEPT ![c] = w] /\ Update(k, ClientCloses(socket[k]))
      BY <1>2 DEF connection_closed
    <2>3. client[c].connected /\ k \in Sockets
      BY <1>2, WaitingClient DEF connection_closed
    <2>4. UNCHANGED <<serverVars, worker_boots, greeted>>
          /\ disturbances' \in 0 .. MaxDisturbances
      BY <1>2, InvariantParts DEF connection_closed
    <2> HIDE DEF w
    <2> QED  BY <2>1, <2>2, <2>3, <2>4, InvariantParts, LetsGo
  <1>3. CASE disconnect(c)
    <2> DEFINE w == [client[c] EXCEPT !.socket = NoSocket, !.connected = FALSE]
               f == Frame(Goodbye, Generated, NoId, client[c].authority, "Ok")
               s == socket[k]
               t == IF s.thread = "ended" THEN s
                    ELSE [s EXCEPT !.to_server = Append(@, f)]
    <2>1. client[c].pc = "idle" /\ client[c].connected
      BY <1>3 DEF disconnect
    <2>2. /\ w \in ClientState /\ ~w.connected /\ w.socket = NoSocket
          /\ w.pc = "idle"
      BY <1>1, <2>1 DEF ClientState
    <2>3. client' = [client EXCEPT ![c] = w] /\ Update(k, ClientCloses(t))
      BY <1>3 DEF disconnect
    <2>4. k \in Sockets /\ (s.thread # "ended" => client[c].authority = authority)
      BY <2>1, WaitingClient
    <2>5. f \in Frames /\ f.authority = client[c].authority
      <3>1. client[c].authority \in Authorities
        BY <1>1 DEF ClientState
      <3> QED  BY <3>1 DEF Frame, Frames, Identities
    <2>6. s \in Connection /\ SocketSound(s, running, authority)
      BY <2>4, InvariantParts
    <2>7. UNCHANGED <<serverVars, worker_boots, greeted>>
          /\ disturbances' \in 0 .. MaxDisturbances
      BY <1>3, InvariantParts DEF disconnect
    <2> HIDE DEF w, f, s
    <2>8. /\ t \in Connection /\ SocketSound(t, running, authority)
          /\ t.handshake_completed = s.handshake_completed
      BY <2>4, <2>5, <2>6, FrameSentView
    <2>9. t.handshake_completed = socket[k].handshake_completed
      BY <2>8 DEF s
    <2> HIDE DEF t
    <2> QED  BY <2>1, <2>2, <2>3, <2>7, <2>8, <2>9, LetsGo
  <1>4. CASE ClientEnds(c)
    <2>1. /\ Gone \in ClientState /\ ~Gone.connected /\ Gone.socket = NoSocket
          /\ Gone.pc = "gone"
      <3>1. NewClient \in ClientState /\ ~NewClient.connected
            /\ NewClient.socket = NoSocket
        BY DEF NewClient, ClientState, NoAuthority, Authorities
      <3> HIDE DEF NewClient
      <3> QED  BY <3>1 DEF Gone, ClientState
    <2>2. disturbances' \in 0 .. MaxDisturbances
      BY <1>4, ConnectionAssumption, InvariantParts DEF ClientEnds, Disturb
    <2>3. /\ client' = [client EXCEPT ![c] = Gone]
          /\ UNCHANGED <<serverVars, worker_boots, greeted>>
      BY <1>4 DEF ClientEnds
    <2>4. CASE client[c].connected /\ k # NoSocket
      <3>1. k \in Sockets /\ Update(k, ClientCloses(socket[k]))
        BY <1>4, <2>4, WaitingClient DEF ClientEnds
      <3> QED  BY <2>1, <2>2, <2>3, <2>4, <3>1, InvariantParts, LetsGo
    <2>5. CASE k = NoSocket
      <3>1. UNCHANGED socket
        BY <1>4, <2>5 DEF ClientEnds
      <3>2. /\ client' \in [Clients -> ClientState]
            /\ \A d \in Clients : client'[d] = IF d = c THEN Gone ELSE client[d]
        BY <2>1, <2>3 DEF ConnectionInvariant, TypeOK
      <3>3. ClientSound(c, Gone, socket, authority)
        BY <2>1 DEF ClientSound
      <3>4. \A d \in Clients : ClientSound(d, client'[d], socket, authority)
        BY <3>2, <3>3, InvariantParts
      <3>5. TypeOK'
        BY <2>2, <2>3, <3>1, <3>2 DEF ConnectionInvariant, TypeOK, serverVars
      <3>6. SocketsAreSound' /\ GreetedAreRegistered'
        BY <2>3, <3>1 DEF ConnectionInvariant, SocketsAreSound, serverVars,
                          GreetedAreRegistered
      <3>7. ClientsAreSound'
        BY <2>3, <3>1, <3>4 DEF ClientsAreSound, serverVars
      <3> QED  BY <3>1, <3>5, <3>6, <3>7 DEF ConnectionInvariant, NoNewHandshake
    <2>6. CASE ~client[c].connected
      BY <2>5, <2>6, InvariantParts DEF ClientSound
    <2> QED  BY <2>4, <2>5, <2>6
  <1> QED  BY <1>2, <1>3, <1>4

\* A thread, the accept loop or a peer that is no worker changes one connection and
\* nothing else.
LEMMA OneConnection ==
    ASSUME ConnectionInvariant, NEW k \in Sockets, NEW t \in Connection,
           Update(k, t), Kept(socket[k], t),
           SocketSound(t, running, authority),
           t.handshake_completed => socket[k].handshake_completed,
           UNCHANGED <<running, accepting, incarnation, authority, client,
                       worker_boots, greeted>>,
           disk' \in Authorities, disturbances' \in 0 .. MaxDisturbances
    PROVE  ConnectionInvariant' /\ NoNewHandshake
  <1>1. worker_boots' \in [WorkerIds -> Nat] /\ greeted' \in SUBSET Clients
    BY InvariantParts
  <1>2. GreetedAreRegistered'
    BY DEF ConnectionInvariant, GreetedAreRegistered
  <1> QED  BY <1>1, <1>2, ServedStep

\* A peer that is no worker connects, reads or goes.
LEMMA StrangerStep ==
    ASSUME ConnectionInvariant,
           \/ \E frames \in StrangerFrames : StrangerConnects(frames)
           \/ \E k \in Sockets : StrangerReads(k) \/ StrangerLeaves(k)
    PROVE  ConnectionInvariant' /\ NoNewHandshake
  <1>1. ASSUME NEW frames \in StrangerFrames, StrangerConnects(frames)
        PROVE  ConnectionInvariant' /\ NoNewHandshake
    <2> DEFINE k == NextSocket(Stranger)
               t == NewSocket(Stranger, frames)
    <2>1. /\ k \in Sockets /\ ~socket[k].open /\ running # "no"
          /\ frames \in Seq(Frames) /\ Stranger \in Clients \cup {Stranger}
      BY <1>1, NextSocketIsFree, ConnectionAssumption
         DEF StrangerConnects, FreeSocket, Listening
    <2>2. /\ t \in Connection /\ ~t.handshake_completed
          /\ SocketSound(t, running, authority)
      BY <2>1, NewSocketSound
    <2>3. Update(k, t)
      BY <1>1 DEF StrangerConnects
    <2>4. /\ UNCHANGED <<running, accepting, incarnation, authority, client,
                         worker_boots, greeted>>
          /\ disk' \in Authorities /\ disturbances' \in 0 .. MaxDisturbances
      BY <1>1, ConnectionAssumption, InvariantParts
         DEF StrangerConnects, Disturb, serverVars
    <2> HIDE DEF k, t
    <2> QED  BY <2>1, <2>2, <2>3, <2>4, OneConnection DEF Kept
  <1>2. ASSUME NEW k \in Sockets, StrangerReads(k) \/ StrangerLeaves(k)
        PROVE  ConnectionInvariant' /\ NoNewHandshake
    <2> DEFINE s == socket[k]
    <2>1. s \in Connection /\ SocketSound(s, running, authority)
      BY InvariantParts
    <2>2. s.peer = Stranger
      BY <1>2 DEF StrangerReads, StrangerLeaves
    <2>3. /\ UNCHANGED <<running, accepting, incarnation, authority, client,
                         worker_boots, greeted>>
          /\ disk' \in Authorities /\ disturbances' \in 0 .. MaxDisturbances
      BY <1>2, InvariantParts DEF StrangerReads, StrangerLeaves, serverVars
    <2>4. ASSUME NEW t \in Connection, Update(k, t),
                 SocketSound(t, running, authority),
                 t.handshake_completed => s.handshake_completed
          PROVE  ConnectionInvariant' /\ NoNewHandshake
      BY <2>2, <2>3, <2>4, OneConnection DEF Kept
    <2>5. CASE StrangerReads(k)
      <3>1. s.to_client # <<>> /\ Update(k, [s EXCEPT !.to_client = Tail(@)])
        BY <2>5 DEF StrangerReads
      <3> HIDE DEF s
      <3> QED  BY <2>1, <2>4, <3>1, AnswerTakenView
    <2>6. CASE StrangerLeaves(k)
      <3>1. Update(k, ClientCloses(s))
        BY <2>6 DEF StrangerLeaves
      <3> HIDE DEF s
      <3> QED  BY <2>1, <2>4, <3>1, ClientClosesView
    <2> QED  BY <1>2, <2>5, <2>6
  <1> QED  BY <1>1, <1>2

\* accept_loop().
LEMMA AcceptStep ==
    ASSUME ConnectionInvariant, NEW k \in Sockets, accept(k)
    PROVE  ConnectionInvariant' /\ NoNewHandshake
  <1> DEFINE s == socket[k]
             t == [s EXCEPT !.thread = "receive"]
  <1>1. s \in Connection /\ SocketSound(s, running, authority)
    BY InvariantParts
  <1>2. s.thread = "backlog" /\ running = "yes" /\ Update(k, t)
    BY DEF accept
  <1> HIDE DEF s
  <1>3. /\ t \in Connection /\ t.thread = "receive" /\ t.peer = s.peer
        /\ t.handshake_completed = s.handshake_completed
        /\ t.to_client = s.to_client /\ t.response = s.response
        /\ t.open = s.open /\ t.to_server = s.to_server
    BY <1>1 DEF Connection
  <1> HIDE DEF t
  <1>4. SocketSound(t, running, authority)
    BY <1>1, <1>2, <1>3 DEF SocketSound
  <1>5. Kept(socket[k], t) /\ t.handshake_completed = socket[k].handshake_completed
    BY <1>2, <1>3 DEF Kept, s
  <1>6. /\ UNCHANGED <<running, accepting, incarnation, authority, client,
                       worker_boots, greeted>>
        /\ disk' \in Authorities /\ disturbances' \in 0 .. MaxDisturbances
    BY InvariantParts DEF accept, serverVars
  <1> QED  BY <1>2, <1>3, <1>4, <1>5, <1>6, OneConnection

\* The process closes a connection, after what it may have sent on it.
LEMMA ClosingStep ==
    ASSUME ConnectionInvariant, NEW k \in Sockets, NEW s \in Connection,
           Update(k, ServerCloses(s)),
           s.open = socket[k].open, s.peer = socket[k].peer,
           UNCHANGED <<running, incarnation, authority, client, worker_boots,
                       greeted, disk>>,
           accepting' \in BOOLEAN, disturbances' \in 0 .. MaxDisturbances
    PROVE  ConnectionInvariant' /\ NoNewHandshake
  <1> DEFINE t == ServerCloses(s)
  <1>1. /\ t \in Connection /\ SocketSound(t, running, authority)
        /\ t.thread = "ended" /\ ~t.handshake_completed
        /\ s.open /\ s.peer # Stranger => t.open /\ t.peer = s.peer
    BY ServerClosesView
  <1> HIDE DEF t
  <1>2. Update(k, t)
    BY DEF t
  <1>3. socket \in [Sockets -> Connection] /\ client \in [Clients -> ClientState]
    BY DEF ConnectionInvariant, TypeOK
  <1>4. /\ socket' \in [Sockets -> Connection] /\ socket'[k] = t
        /\ \A l \in Sockets : l = k \/ socket'[l] = socket[l]
    BY <1>1, <1>2, <1>3 DEF Update
  <1>5. TypeOK'
    BY <1>4 DEF ConnectionInvariant, TypeOK
  <1>6. SocketsAreSound'
    <2>1. \A l \in Sockets :
             SocketSound(socket'[l], running, authority)
      BY <1>1, <1>4, InvariantParts
    <2> QED  BY <2>1 DEF SocketsAreSound
  <1>7. ClientsAreSound'
    <2>1. ASSUME NEW c \in Clients
          PROVE  ClientSound(c, client[c], socket', authority)
      <3>1. ClientSound(c, client[c], socket, authority)
        BY InvariantParts
      <3> QED  BY <1>1, <1>4, <3>1, WorkerIsNoStranger DEF ClientSound
    <2> QED  BY <2>1 DEF ClientsAreSound
  <1>8. GreetedAreRegistered'
    BY DEF ConnectionInvariant, GreetedAreRegistered
  <1> QED  BY <1>1, <1>4, <1>5, <1>6, <1>7, <1>8
           DEF ConnectionInvariant, NoNewHandshake

\* The accept thread of a server that stops.
LEMMA AcceptEndStep ==
    ASSUME ConnectionInvariant, AcceptLoopEnds
    PROVE  ConnectionInvariant' /\ NoNewHandshake
  <1>1. /\ UNCHANGED <<running, incarnation, authority, client, worker_boots,
                       greeted, disk>>
        /\ accepting' \in BOOLEAN /\ disturbances' \in 0 .. MaxDisturbances
    BY InvariantParts DEF AcceptLoopEnds
  <1>2. CASE UNCHANGED socket
    <2>1. TypeOK' /\ SocketsAreSound' /\ ClientsAreSound'
      BY <1>1, <1>2 DEF ConnectionInvariant, TypeOK, SocketsAreSound,
                        ClientsAreSound
    <2>2. GreetedAreRegistered'
      BY <1>1 DEF ConnectionInvariant, GreetedAreRegistered
    <2> QED  BY <1>2, <2>1, <2>2 DEF ConnectionInvariant, NoNewHandshake
  <1>3. ASSUME NEW k \in Sockets, Update(k, ServerCloses(socket[k]))
        PROVE  ConnectionInvariant' /\ NoNewHandshake
    BY <1>1, <1>3, ClosingStep, InvariantParts
  <1> QED  BY <1>2, <1>3 DEF AcceptLoopEnds

\* A thread received a frame: the process runs, and the connection is sound.
LEMMA ReceivedFacts ==
    ASSUME ConnectionInvariant, NEW k \in Sockets, Received(k)
    PROVE  /\ socket[k] \in Connection /\ Incoming(k) \in Frames
           /\ SocketSound(socket[k], running, authority)
           /\ socket[k].thread = "receive"
           /\ authority \in Authorities
  <1>1. /\ socket[k] \in Connection /\ authority \in Authorities
        /\ SocketSound(socket[k], running, authority)
    BY InvariantParts
  <1>2. socket[k].to_server \in Seq(Frames)
    BY <1>1 DEF Connection
  <1> QED  BY <1>1, <1>2, FrameTaken DEF Received, Incoming

\* A thread answers a frame.
LEMMA AnswerStep ==
    ASSUME ConnectionInvariant, NEW k \in Sockets, Received(k),
           NEW answer \in Frames, answer.authority = authority,
           Update(k, Answering(k, answer)),
           UNCHANGED <<running, accepting, incarnation, authority, client,
                       worker_boots, greeted, disturbances>>,
           disk' \in Authorities
    PROVE  ConnectionInvariant' /\ NoNewHandshake
  <1> DEFINE t == Answering(k, answer)
  <1>1. /\ t \in Connection /\ SocketSound(t, running, authority)
        /\ t.open = socket[k].open /\ t.peer = socket[k].peer
        /\ t.handshake_completed = socket[k].handshake_completed
        /\ socket[k].thread # "ended"
    BY ReceivedFacts, AnsweringView
  <1>2. Update(k, t) /\ disturbances' \in 0 .. MaxDisturbances
    BY InvariantParts
  <1> HIDE DEF t
  <1>3. Kept(socket[k], t)
    BY <1>1 DEF Kept
  <1> QED  BY <1>1, <1>2, <1>3, OneConnection

\* A frame that cannot be decoded, the last frame of a client, the end of a
\* connection and its timeout.
LEMMA EndStep ==
    ASSUME ConnectionInvariant, NEW k \in Sockets,
           \/ receive_malformed(k) \/ receive_goodbye(k) \/ peer_closed(k)
           \/ receive_timeout(k)
    PROVE  ConnectionInvariant' /\ NoNewHandshake
  <1>1. /\ UNCHANGED <<running, accepting, incarnation, authority, client,
                       worker_boots, greeted, disk>>
        /\ disturbances' \in 0 .. MaxDisturbances /\ accepting' \in BOOLEAN
    <2>1. disturbances \in 0 .. MaxDisturbances /\ accepting \in BOOLEAN
      BY DEF ConnectionInvariant, TypeOK
    <2> QED  BY <2>1, ConnectionAssumption
             DEF receive_malformed, receive_goodbye, peer_closed,
                 receive_timeout, Disturb, serverVars
  <1>2. CASE Update(k, ServerCloses(socket[k]))
    BY <1>1, <1>2, ClosingStep, InvariantParts
  <1>3. CASE receive_malformed(k)
    <2> DEFINE nobody == [Incoming(k) EXCEPT !.request = Placeholder]
               answer == error_response(nobody, authority, "ProtocolMalformed")
               s == Sent(socket[k], <<answer>>)
    <2>1. Received(k) /\ Update(k, ServerCloses(s))
      BY <1>3 DEF receive_malformed
    <2>2. nobody \in Frames
      BY <2>1, ReceivedFacts DEF Frames, Identities
    <2> HIDE DEF nobody
    <2>3. answer \in Frames /\ answer.authority = authority
      BY <2>1, <2>2, ReceivedFacts, AnswerFrames
    <2> HIDE DEF answer
    <2>4. <<answer>> \in Seq(Frames) /\ Carry(<<answer>>, authority)
      BY <2>3, ShortSequences
    <2> DEFINE answers == <<answer>>
    <2>5. answers \in Seq(Frames) /\ Carry(answers, authority)
          /\ s = Sent(socket[k], answers)
      BY <2>4
    <2> HIDE DEF answers, s
    <2>6. /\ s \in Connection /\ s.open = socket[k].open
          /\ s.peer = socket[k].peer
      BY <2>1, <2>5, ReceivedFacts, SentView
    <2> QED  BY <1>1, <2>1, <2>6, ClosingStep
  <1> QED  BY <1>2, <1>3 DEF receive_goodbye, peer_closed, receive_timeout

\* A request that was received before, or before any handshake.
LEMMA RefusedStep ==
    ASSUME ConnectionInvariant, NEW k \in Sockets, receive_refused(k)
    PROVE  ConnectionInvariant' /\ NoNewHandshake
  <1> DEFINE code == IF AlreadySeen(k) THEN "DuplicateRequest"
                     ELSE "StaleWorkerBoot"
             answer == error_response(Incoming(k), authority, code)
  <1>1. Received(k) /\ Update(k, Answering(k, answer))
    BY DEF receive_refused
  <1>2. answer \in Frames /\ answer.authority = authority
    BY <1>1, ReceivedFacts, AnswerFrames
  <1>3. /\ UNCHANGED <<running, accepting, incarnation, authority, client,
                       worker_boots, greeted, disturbances>>
        /\ disk' \in Authorities
    BY InvariantParts DEF receive_refused, serverVars
  <1> HIDE DEF answer
  <1> QED  BY <1>1, <1>2, <1>3, AnswerStep

\* Another request.
LEMMA RequestStep ==
    ASSUME ConnectionInvariant, NEW k \in Sockets, handle_request(k)
    PROVE  ConnectionInvariant' /\ NoNewHandshake
  <1> DEFINE f == Incoming(k)
             code == AuthorityCode(f)
  <1>1. Received(k)
    BY DEF handle_request, Handled
  <1>2. code = "Ok" => f.type \in RequestType
    BY DEF AuthorityCode
  <1>3. code # "Ok" => code \in {"ProtocolMalformed", "ShuttingDown",
                                 "StaleCoordinatorEpoch"}
    BY DEF AuthorityCode
  <1>4. f \in Frames /\ authority \in Authorities
    BY <1>1, ReceivedFacts
  <1>5. \/ code = "Ok" /\ Update(k, Answering(k, Answer(f, authority)))
        \/ \E error \in (IF code = "Ok" THEN {EngineError} ELSE {code}) :
              Update(k, Answering(k, error_response(f, authority, error)))
    BY DEF handle_request
  <1> HIDE DEF f, code
  <1>6. \E answer \in Frames :
           answer.authority = authority /\ Update(k, Answering(k, answer))
    <2>1. CASE code = "Ok" /\ Update(k, Answering(k, Answer(f, authority)))
      BY <1>2, <1>4, <2>1, AnswerFrames
    <2>2. ASSUME NEW error \in (IF code = "Ok" THEN {EngineError} ELSE {code}),
                 Update(k, Answering(k, error_response(f, authority, error)))
          PROVE  \E answer \in Frames :
                    /\ answer.authority = authority
                    /\ Update(k, Answering(k, answer))
      <3>1. error \in {"ProtocolMalformed", "ShuttingDown",
                       "StaleCoordinatorEpoch", EngineError}
        BY <1>3
      <3>2. ASSUME NEW e \in {"ProtocolMalformed", "ShuttingDown",
                              "StaleCoordinatorEpoch", EngineError}
            PROVE  /\ error_response(f, authority, e) \in Frames
                   /\ error_response(f, authority, e).authority = authority
        <4>1. CASE e = "ProtocolMalformed"
          BY <1>4, <4>1, AnswerFrames
        <4>2. CASE e = "ShuttingDown"
          BY <1>4, <4>2, AnswerFrames
        <4>3. CASE e = "StaleCoordinatorEpoch"
          BY <1>4, <4>3, AnswerFrames
        <4>4. CASE e = EngineError
          BY <1>4, <4>4, AnswerFrames
        <4> QED  BY <4>1, <4>2, <4>3, <4>4
      <3> QED  BY <2>2, <3>1, <3>2
    <2> QED  BY <1>5, <2>1, <2>2
  <1>7. /\ UNCHANGED <<running, accepting, incarnation, authority, client,
                       worker_boots, greeted, disturbances>>
        /\ disk' \in Authorities
    BY InvariantParts DEF handle_request
  <1> QED  BY <1>1, <1>6, <1>7, AnswerStep

\* The answer is sent.
LEMMA ReplyStep ==
    ASSUME ConnectionInvariant, NEW k \in Sockets, reply(k)
    PROVE  ConnectionInvariant' /\ NoNewHandshake
  <1> DEFINE s == socket[k]
             answers == s.response
             t == Sent(s, answers)
  <1>1. /\ s.thread = "reply"
        /\ \/ Update(k, IF running = "stopping" THEN ServerCloses(t) ELSE t)
           \/ Update(k, ServerCloses(s))
    BY DEF reply
  <1>2. s \in Connection /\ SocketSound(s, running, authority)
    BY InvariantParts
  <1>3. answers \in Seq(Frames) /\ Carry(answers, authority)
    BY <1>1, <1>2 DEF Connection, SocketSound
  <1> HIDE DEF answers, s
  <1>4. /\ t \in Connection /\ SocketSound(t, running, authority)
        /\ t.open = s.open /\ t.peer = s.peer
        /\ t.handshake_completed = s.handshake_completed
    BY <1>1, <1>2, <1>3, SentView
  <1>5. /\ t.open = socket[k].open /\ t.peer = socket[k].peer
        /\ t.handshake_completed = socket[k].handshake_completed
        /\ Kept(socket[k], t)
    BY <1>1, <1>4 DEF s, Kept
  <1>6. /\ UNCHANGED <<running, accepting, incarnation, authority, client,
                       worker_boots, greeted, disk, disturbances>>
        /\ disk' \in Authorities /\ disturbances' \in 0 .. MaxDisturbances
        /\ accepting' \in BOOLEAN
    BY DEF reply, serverVars, ConnectionInvariant, TypeOK
  <1> HIDE DEF t
  <1>7. CASE running = "stopping" /\ Update(k, ServerCloses(t))
    BY <1>4, <1>5, <1>6, <1>7, ClosingStep
  <1>8. CASE Update(k, t)
    BY <1>4, <1>5, <1>6, <1>8, OneConnection
  <1>9. CASE Update(k, ServerCloses(s))
    BY <1>2, <1>6, <1>9, ClosingStep DEF s
  <1> QED  BY <1>1, <1>7, <1>8, <1>9

\* The boot of the peer is registered, and no other connection changes.
HandshakeDone(k) ==
    /\ register_worker_boot(socket[k].peer)
    /\ \A l \in Sockets \ {k} : socket'[l] = socket[l]

\* The handshake.
LEMMA HelloStep ==
    ASSUME ConnectionInvariant, NEW k \in Sockets, handle_hello(k)
    PROVE  ConnectionInvariant' /\ (NoNewHandshake \/ HandshakeDone(k))
  <1> DEFINE peer == socket[k].peer
             f == Incoming(k)
             yes == Answering(k, Answer(f, authority))
             t == [yes EXCEPT !.handshake_completed = TRUE]
             no == error_response(f, authority, BootCode(peer))
  <1>1. Received(k) /\ f.type \in RequestType
    BY DEF handle_hello, Handled, RequestType, Operation
  <1>2. /\ Answer(f, authority) \in Frames
        /\ Answer(f, authority).authority = authority
        /\ BootCode(peer) # "Ok" => no \in Frames /\ no.authority = authority
    <2>1. BootCode(peer) \in {"InvalidIdentity", "StaleWorkerBoot", "Ok"}
      BY DEF BootCode
    <2>2. f \in Frames /\ authority \in Authorities
      BY <1>1, ReceivedFacts
    <2>3. ASSUME NEW e \in {"InvalidIdentity", "StaleWorkerBoot"}
          PROVE  /\ error_response(f, authority, e) \in Frames
                 /\ error_response(f, authority, e).authority = authority
      <3> HIDE DEF f
      <3>1. CASE e = "InvalidIdentity"
        BY <2>2, <3>1, AnswerFrames
      <3>2. CASE e = "StaleWorkerBoot"
        BY <2>2, <3>2, AnswerFrames
      <3> QED  BY <3>1, <3>2
    <2>4. /\ Answer(f, authority) \in Frames
          /\ Answer(f, authority).authority = authority
      <3> HIDE DEF f
      <3> QED  BY <1>1, <2>2, AnswerFrames
    <2> HIDE DEF f, peer
    <2> QED  BY <2>1, <2>3, <2>4
  <1>3. /\ UNCHANGED <<running, accepting, incarnation, authority, client,
                       disturbances, disk>>
        /\ disk' \in Authorities /\ disturbances' \in 0 .. MaxDisturbances
    BY InvariantParts DEF handle_hello, serverVars
  <1>4. CASE /\ BootCode(peer) # "Ok" /\ Update(k, Answering(k, no))
             /\ UNCHANGED <<worker_boots, greeted>>
    <2> HIDE DEF no
    <2> QED  BY <1>1, <1>2, <1>3, <1>4, AnswerStep
  <1>5. CASE /\ register_worker_boot(peer) /\ Update(k, t)
             /\ greeted' = greeted \cup {peer}
    <2>1. /\ yes \in Connection
          /\ SocketSound(yes, running, authority)
          /\ yes.open = socket[k].open /\ yes.peer = peer
          /\ socket[k].thread # "ended"
      BY <1>1, <1>2, ReceivedFacts, AnsweringView
    <2>2. peer \in Clients /\ peer.boot \in Nat /\ peer.worker \in WorkerIds
      <3>1. peer \in Clients \cup {Stranger} /\ peer.boot # 0
        BY <1>5, InvariantParts DEF Connection, register_worker_boot, BootCode
      <3> QED  BY <3>1, ConnectionAssumption DEF Stranger, WorkerIds
    <2>3. /\ ~(peer.boot < worker_boots[peer.worker])
          /\ worker_boots' = [worker_boots EXCEPT ![peer.worker] = peer.boot]
          /\ worker_boots \in [WorkerIds -> Nat] /\ greeted \in SUBSET Clients
          /\ \A g \in greeted : g.boot <= worker_boots[g.worker]
      BY <1>5, InvariantParts DEF register_worker_boot, BootCode
    <2>4. /\ worker_boots' \in [WorkerIds -> Nat]
          /\ worker_boots'[peer.worker] = peer.boot
          /\ \A w \in WorkerIds : w # peer.worker => worker_boots'[w] = worker_boots[w]
          /\ greeted' \in SUBSET Clients
      BY <1>5, <2>2, <2>3
    <2>5. GreetedAreRegistered'
      <3>1. ASSUME NEW g \in greeted'
            PROVE  g.boot <= worker_boots'[g.worker]
        <4>1. /\ g \in Clients /\ g.worker \in WorkerIds /\ g.boot \in Nat
              /\ worker_boots[g.worker] \in Nat
          BY <2>3, <2>4, ConnectionAssumption DEF WorkerIds
        <4>2. CASE g = peer
          BY <2>2, <2>4, <4>2
        <4>3. CASE g \in greeted
          <5> HIDE DEF peer
          <5>1. worker_boots[peer.worker] \in Nat
            BY <2>2, <2>3
          <5> QED  BY <2>2, <2>3, <2>4, <4>1, <4>3, <5>1
        <4> QED  BY <1>5, <4>2, <4>3
      <3> QED  BY <3>1 DEF GreetedAreRegistered
    <2> HIDE DEF yes, peer
    <2>6. /\ t \in Connection /\ t.thread = yes.thread /\ t.peer = yes.peer
          /\ t.to_client = yes.to_client /\ t.response = yes.response
          /\ t.open = yes.open /\ t.to_server = yes.to_server
      BY <2>1 DEF Connection
    <2>7. Update(k, t)
      BY <1>5
    <2> HIDE DEF t
    <2>8. SocketSound(t, running, authority)
      BY <2>1, <2>6 DEF SocketSound
    <2>9. Kept(socket[k], t)
      BY <2>1, <2>6 DEF Kept, peer
    <2>10. ConnectionInvariant'
      BY <1>3, <2>4, <2>5, <2>6, <2>7, <2>8, <2>9, ServedStep
    <2>11. HandshakeDone(k)
      BY <1>5, <2>7 DEF HandshakeDone, Update, ConnectionInvariant, TypeOK, peer
    <2> QED  BY <2>10, <2>11
  <1> QED  BY <1>4, <1>5 DEF handle_hello

\* Every end of a connection the process has is closed, and a new authority, if
\* there is one, meets no connection of an old one.
LEMMA NoThreadsStep ==
    ASSUME ConnectionInvariant, TypeOK', GreetedAreRegistered',
           UNCHANGED client,
           \A k \in Sockets :
              /\ socket'[k].thread = "ended"
              /\ socket'[k].handshake_completed => FALSE
              /\ socket[k].open /\ socket[k].peer # Stranger
                    => socket'[k].open /\ socket'[k].peer = socket[k].peer
    PROVE  ConnectionInvariant' /\ NoNewHandshake
  <1>1. SocketsAreSound'
    BY DEF SocketsAreSound, SocketSound
  <1>2. ASSUME NEW c \in Clients
        PROVE  ClientSound(c, client[c], socket', authority')
    <2>1. ClientSound(c, client[c], socket, authority)
      BY InvariantParts
    <2> QED  BY <2>1, WorkerIsNoStranger DEF ClientSound
  <1>3. ClientsAreSound'
    BY <1>2 DEF ClientsAreSound
  <1> QED  BY <1>1, <1>3 DEF ConnectionInvariant, NoNewHandshake

\* start(), the end of the process, and stop().
LEMMA ProcessStep ==
    ASSUME ConnectionInvariant, start \/ Crash \/ stop \/ stop_joined
    PROVE  ConnectionInvariant' /\ NoNewHandshake
  <1>1. TypeOK /\ \A k \in Sockets : socket[k] \in Connection
    BY InvariantParts DEF ConnectionInvariant
  <1>2. ASSUME ProcessEnds, disk' \in Authorities
        PROVE  ConnectionInvariant' /\ NoNewHandshake
    <2>1. socket' = [k \in Sockets |-> ServerCloses(socket[k])]
      BY <1>2 DEF ProcessEnds
    <2>2. ASSUME NEW k \in Sockets
          PROVE  /\ socket'[k] \in Connection /\ socket'[k].thread = "ended"
                 /\ ~socket'[k].handshake_completed
                 /\ socket[k].open /\ socket[k].peer # Stranger
                       => socket'[k].open /\ socket'[k].peer = socket[k].peer
      BY <1>1, <2>1, ServerClosesView
    <2>3. TypeOK'
      <3>1. socket' \in [Sockets -> Connection]
        BY <2>1, <2>2
      <3>2. NoAuthority \in Authorities
        BY DEF NoAuthority, Authorities
      <3>3. worker_boots' \in [WorkerIds -> Nat] /\ greeted' \in SUBSET Clients
        BY <1>2 DEF ProcessEnds
      <3> QED  BY <1>1, <1>2, <3>1, <3>2, <3>3 DEF ProcessEnds, TypeOK
    <2>4. UNCHANGED client /\ GreetedAreRegistered'
      BY <1>2 DEF ProcessEnds, GreetedAreRegistered
    <2> QED  BY <2>2, <2>3, <2>4, NoThreadsStep
  <1>3. CASE start
    <2>1. /\ running = "no" /\ incarnation < MaxIncarnations
          /\ UNCHANGED <<disk, worker_boots, greeted, socket, client, disturbances>>
      BY <1>3 DEF start
    <2>2. TypeOK'
      <3>1. incarnation \in Nat /\ incarnation + 1 \in 0 .. MaxIncarnations
        BY <1>1, <2>1, ConnectionAssumption DEF TypeOK
      <3>2. [disk EXCEPT !.epoch = @ + 1] \in Authorities
        BY <1>1 DEF TypeOK, Authorities
      <3>3. [coordinator |-> incarnation + 1, epoch |-> 1] \in Authorities
        BY <3>1 DEF Authorities
      <3> QED  BY <1>1, <1>3, <2>1, <3>1, <3>2, <3>3 DEF start, TypeOK
    <2>3. SocketsAreSound'
      <3>1. \A k \in Sockets : socket[k].thread = "ended"
        BY <2>1, InvariantParts DEF SocketSound
      <3>2. \A k \in Sockets :
               SocketSound(socket[k], running', authority')
        BY <3>1, InvariantParts DEF SocketSound
      <3> QED  BY <2>1, <3>2 DEF SocketsAreSound
    <2>4. ClientsAreSound'
      <3>1. ASSUME NEW c \in Clients
            PROVE  ClientSound(c, client[c], socket, authority')
        <4>1. ClientSound(c, client[c], socket, authority)
          BY InvariantParts
        <4>2. \A k \in Sockets : socket[k].thread = "ended"
          BY <2>1, InvariantParts DEF SocketSound
        <4> QED  BY <4>1, <4>2 DEF ClientSound
      <3> QED  BY <2>1, <3>1 DEF ClientsAreSound
    <2>5. GreetedAreRegistered'
      BY <2>1 DEF ConnectionInvariant, GreetedAreRegistered
    <2> QED  BY <2>1, <2>2, <2>3, <2>4, <2>5 DEF ConnectionInvariant, NoNewHandshake
  <1>4. CASE stop
    <2>1. /\ running' = "stopping"
          /\ UNCHANGED <<accepting, incarnation, authority, disk, worker_boots,
                         greeted, socket, client, disturbances>>
      BY <1>4 DEF stop
    <2>2. TypeOK'
      BY <1>1, <2>1 DEF TypeOK
    <2>3. \A k \in Sockets :
             SocketSound(socket[k], running', authority)
      BY <2>1, InvariantParts DEF SocketSound
    <2>4. SocketsAreSound' /\ ClientsAreSound' /\ GreetedAreRegistered'
      BY <2>1, <2>3 DEF SocketsAreSound, ClientsAreSound, ConnectionInvariant,
                        GreetedAreRegistered
    <2> QED  BY <2>1, <2>2, <2>4 DEF ConnectionInvariant, NoNewHandshake
  <1>5. CASE Crash
    BY <1>1, <1>2, <1>5 DEF Crash, TypeOK
  <1>6. CASE stop_joined
    BY <1>1, <1>2, <1>6 DEF stop_joined, TypeOK
  <1> QED  BY <1>3, <1>4, <1>5, <1>6

\* One step keeps the invariant, and completes a handshake only when the boot of
\* its peer is registered.
LEMMA ConnectionStep ==
    ASSUME ConnectionInvariant, [Next]_vars
    PROVE  /\ ConnectionInvariant'
           /\ NoNewHandshake \/ \E k \in Sockets : HandshakeDone(k)
  <1> DEFINE Goal == /\ ConnectionInvariant'
                     /\ NoNewHandshake \/ \E k \in Sockets : HandshakeDone(k)
  <1>1. CASE UNCHANGED vars
    <2>1. UNCHANGED <<running, accepting, incarnation, authority, disk,
                      worker_boots, greeted, socket, client, disturbances>>
      BY <1>1 DEF vars, serverVars
    <2> QED  BY <2>1 DEF ConnectionInvariant, TypeOK, SocketsAreSound,
                         ClientsAreSound, GreetedAreRegistered, NoNewHandshake
  <1>2. ASSUME NEW k \in Sockets, accept(k) \/ Serve(k)
        PROVE  Goal
    BY <1>2, AcceptStep, EndStep, RefusedStep, RequestStep, ReplyStep, HelloStep
       DEF Serve
  <1>3. CASE Coordinator
    BY <1>2, <1>3, ProcessStep, AcceptEndStep DEF Coordinator
  <1>4. ASSUME NEW c \in Clients, Worker(c) \/ disconnect(c) \/ ClientEnds(c)
        PROVE  Goal
    BY <1>4, ConnectStep, CallStep, ExchangeStep, LeaveStep DEF Worker
  <1>5. CASE Next
    BY <1>3, <1>4, <1>5, ProcessStep, StrangerStep DEF Next
  <1> QED  BY <1>1, <1>5

-----------------------------------------------------------------------------
(* The theorems.                                                           *)

\* In every reachable state the connections and the clients are sound: no order
\* of calls, answers, timeouts, crashes and restarts breaks it
\* (worker_client.cpp 60-165, coordinator_server.cpp 96-268).
THEOREM ConnectionsAreSound == Spec => []ConnectionInvariant
  <1>1. Init => ConnectionInvariant
    <2> SUFFICES ASSUME Init PROVE ConnectionInvariant
      OBVIOUS
    <2>1. /\ NewClient \in ClientState /\ ~NewClient.connected
          /\ NewClient.socket = NoSocket /\ NewClient.pc = "idle"
      BY DEF NewClient, ClientState, NoAuthority, Authorities
    <2>2. FreeSocket \in Connection
          /\ SocketSound(FreeSocket, running, authority)
      BY FreeSocketSound
    <2>3. TypeOK
      <3>1. NoAuthority \in Authorities
        BY DEF NoAuthority, Authorities
      <3>2. 0 \in 0 .. MaxIncarnations /\ 0 \in 0 .. MaxDisturbances
        BY ConnectionAssumption
      <3>3. socket \in [Sockets -> Connection] /\ client \in [Clients -> ClientState]
        BY <2>1, <2>2 DEF Init
      <3>4. worker_boots \in [WorkerIds -> Nat] /\ greeted \in SUBSET Clients
        BY DEF Init
      <3> QED  BY <3>1, <3>2, <3>3, <3>4 DEF Init, TypeOK
    <2>4. SocketsAreSound
      BY <2>2 DEF Init, SocketsAreSound
    <2>5. ClientsAreSound /\ GreetedAreRegistered
      BY <2>1 DEF Init, ClientsAreSound, ClientSound, GreetedAreRegistered
    <2> QED  BY <2>3, <2>4, <2>5 DEF ConnectionInvariant
  <1>2. ConnectionInvariant /\ [Next]_vars => ConnectionInvariant'
    BY ConnectionStep
  <1> QED  BY <1>1, <1>2, PTL DEF Spec

\* The threads, sockets and frames always have their types
\* (coordinator_server.cpp 171-268).
THEOREM ConnectionTypeCorrect == Spec => []TypeOK
  <1>1. ConnectionInvariant => TypeOK
    BY DEF ConnectionInvariant
  <1> QED  BY <1>1, ConnectionsAreSound, PTL

\* The frames of workers carry the authority of the process that receives them,
\* for any number of workers, connections and restarts
\* (worker_client.cpp 84-110, 157-164, coordinator_server.cpp 275-285).
THEOREM FramesAreCurrent == Spec => []FramesCarryCurrentAuthority
  <1>1. ConnectionInvariant => FramesCarryCurrentAuthority
    BY DEF ConnectionInvariant, SocketsAreSound, SocketSound, CarryBeyondHello,
           FramesCarryCurrentAuthority
  <1> QED  BY <1>1, ConnectionsAreSound, PTL

\* While a process runs, an older boot of a worker never completes a handshake
\* once a newer one has, whether or not the newer one is still connected, for any
\* number of workers and boots
\* (coordinator_server.cpp 149-169, 236-252, 288-295).
THEOREM OlderBootFenced == Spec => OlderBootNeverReturns
  <1> DEFINE Fenced ==
        \A k \in Sockets :
           ~socket[k].handshake_completed /\ socket'[k].handshake_completed =>
              \A g \in greeted :
                 g.worker = socket[k].peer.worker
                    => g.boot <= socket[k].peer.boot
  <1>1. ASSUME ConnectionInvariant, [Next]_vars
        PROVE  Fenced
    <2> SUFFICES ASSUME NEW k \in Sockets, NEW g \in greeted,
                        ~socket[k].handshake_completed,
                        socket'[k].handshake_completed,
                        g.worker = socket[k].peer.worker
                 PROVE  g.boot <= socket[k].peer.boot
      OBVIOUS
    <2>1. PICK j \in Sockets : HandshakeDone(j)
      BY <1>1, ConnectionStep DEF NoNewHandshake
    <2>2. j = k
      BY <2>1 DEF HandshakeDone
    <2>3. ~(socket[k].peer.boot < worker_boots[g.worker])
      BY <2>1, <2>2 DEF HandshakeDone, register_worker_boot, BootCode
    <2>4. /\ socket[k].peer \in Clients \cup {Stranger} /\ g \in Clients
          /\ worker_boots \in [WorkerIds -> Nat]
          /\ g.boot <= worker_boots[g.worker]
      BY <1>1, InvariantParts DEF Connection
    <2>5. /\ socket[k].peer.boot \in Nat /\ g.boot \in Nat
          /\ worker_boots[g.worker] \in Nat
      BY <2>4, ConnectionAssumption DEF Stranger, WorkerIds
    <2> QED  BY <2>3, <2>4, <2>5
  <1>2. ConnectionInvariant /\ [Next]_vars => [Fenced]_vars
    BY <1>1
  <1> QED  BY <1>2, ConnectionsAreSound, PTL DEF Spec, OlderBootNeverReturns
=============================================================================
