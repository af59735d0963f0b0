--------------------------- MODULE CoordinatorServer ---------------------------
(***************************************************************************)
(* The coordinator process: connection threads that serve frames, the      *)
(* change listener that saves the state, the state file, crashes, stops    *)
(* and restarts (coordinator_server.cpp, and notify_change(), snapshot(),  *)
(* install_state() and the end of commit() in the engine).                 *)
(*                                                                         *)
(* The state of the engine is what it holds of each request: nothing, the  *)
(* plan evaluate() made, the transition commit() made, a refusal, or the   *)
(* effect of another operation.  How the engine decides is the subject of  *)
(* PromotionEngine; here each decision is a choice.  A step is what a      *)
(* thread does between two changes of the locks it holds: state_mutex_ is  *)
(* held within a step only, persist_mutex_ of the engine and persist_mutex_*)
(* of the server over several.                                             *)
(*                                                                         *)
(* The handshake gives a client the authority of the process it talks to,  *)
(* and the connection ends with that process, so the frames of a client    *)
(* carry the current coordinator and epoch; the frames that only read are  *)
(* left out.                                                               *)
(***************************************************************************)
EXTENDS Naturals, FiniteSets, FiniteSetsExt

CONSTANTS
    Threads,           \* the connection threads a process starts at most
                       \* (bound of the model; a thread serves one connection)
    Clients,           \* worker processes: [worker, boot], boot the number of
                       \* the WorkerBootId
    Frames,            \* [request, kind], kind one of FrameKind; the request
                       \* of a registration or a trust operation stands for
                       \* what it changes
    MaxIncarnations,   \* processes started (bound of the model)
    MaxFrames,         \* frames a process receives (bound of the model)
    SavesMayFail       \* whether a save may fail

FrameKind ==
    {"Promotion", "Evaluate", "Registration", "Trust", "SnapshotSave"}

ASSUME ServerAssumption ==
    /\ \A c \in Clients : c.boot \in Nat \ {0}
    /\ \A f \in Frames : f.kind \in FrameKind
    /\ \A f, g \in Frames :
          f.request = g.request =>
             (f.kind \in {"Promotion", "Evaluate"}
                 <=> g.kind \in {"Promotion", "Evaluate"})
    /\ MaxIncarnations \in Nat \ {0} /\ MaxFrames \in Nat
    /\ SavesMayFail \in BOOLEAN

RequestIds == {f.request : f \in Frames}
WorkerIds == {c.worker : c \in Clients}

VARIABLES
    running,             \* "no", "yes", or "stopping" once stop() began
    incarnation,         \* number of processes started
    coordinator, epoch,  \* the authority in memory
    outcome,             \* what the engine holds of each request
    persist_epoch, persist_clean_epoch,
    saver,               \* the threads that hold the server's persist_mutex_
    disk,                \* the state file, or NoFile
    worker_boots,        \* the newest boot of each worker
    thread,              \* the connection threads
    seen,                \* the requests received on each connection
    acknowledged,        \* the answers of success given
    save_state           \* "saved", "failed" when the newest save failed, or
                         \* "lost" once a process ended with a failed save

engineVars == <<coordinator, epoch, outcome>>
persistVars == <<persist_epoch, persist_clean_epoch, saver, disk, save_state>>
processVars == <<running, incarnation, worker_boots>>
vars == <<engineVars, persistVars, processVars, thread, seen, acknowledged>>

-----------------------------------------------------------------------------
(* The state of a thread.  pc is what it does next; after is where         *)
(* notify_change() returns to; target and copy are the local variables of  *)
(* a save; shared tells that commit() holds persist_mutex_ shared.         *)

Success == {"planned", "committed", "done"}

\* A request that named no known revision is "unknown": its decision is kept, but
\* not under its identity.
Unanswered == {"none", "unknown"}

Held == Success \cup Unanswered \cup {"refused"}

Empty == [r \in RequestIds |-> "none"]

Snapshot ==
    [coordinator : Nat, epoch : Nat, outcome : [RequestIds -> Held],
     incarnation : Nat, at : Nat]

NoFile ==
    [coordinator |-> 0, epoch |-> 0, outcome |-> Empty, incarnation |-> 0,
     at |-> 0]

Closed ==
    [pc |-> "closed", frame |-> [request |-> "none", kind |-> "none"],
     after |-> "none", target |-> 0, copy |-> NoFile, answer |-> "none",
     own |-> FALSE, shared |-> FALSE]

Open == [Closed EXCEPT !.pc = "open"]

\* Between two frames, or without a connection.
Resting(t) == thread[t].pc \in {"closed", "open"}

Goto(t, pc) == thread' = [thread EXCEPT ![t].pc = pc]

Received == MapThenSumSet(LAMBDA t : Cardinality(seen[t]), Threads)

Request(t) == thread[t].frame.request

\* A thread can take persist_mutex_ exclusively.
PersistMutexFree == \A t \in Threads : ~thread[t].shared

Init ==
    /\ running = "no" /\ incarnation = 0
    /\ coordinator = 0 /\ epoch = 0 /\ outcome = Empty
    /\ persist_epoch = 0 /\ persist_clean_epoch = 0
    /\ saver = {} /\ disk = NoFile /\ save_state = "saved"
    /\ worker_boots = [w \in WorkerIds |-> 0]
    /\ thread = [t \in Threads |-> Closed]
    /\ seen = [t \in Threads |-> {}]
    /\ acknowledged = {}

-----------------------------------------------------------------------------
(* The process.                                                            *)

\* Mutants of NextEpoch: the file's epoch is kept; the loading advances it too.
MutantNextEpoch(e) == e
MutantDoubleEpoch(e) == e + 2

\* The authority under which a process takes up a loaded state.
NextEpoch(e) == e + 1

\* A process without a state file begins with an identity of its own.
start_empty ==
    /\ disk = NoFile
    /\ coordinator' = incarnation + 1 /\ epoch' = 1 /\ outcome' = Empty
    /\ persist_epoch' = 0

\* install_state(): the state as it was saved, without reservations, in memory;
\* nothing is saved yet.
install_state(state) ==
    /\ coordinator' = state.coordinator /\ epoch' = state.epoch
    /\ outcome' = state.outcome
    /\ persist_epoch' = 1

\* StatePersistence::load() gives back what was saved; the process takes it up
\* under the next epoch.
start_loaded ==
    /\ disk # NoFile
    /\ install_state([disk EXCEPT !.epoch = NextEpoch(@)])

\* After a process ended with a failed save no other is started (bound of the
\* model): what it acknowledged and did not save is lost for good.
start ==
    /\ running = "no" /\ incarnation < MaxIncarnations
    /\ save_state # "lost"
    /\ start_empty \/ start_loaded
    /\ running' = "yes" /\ incarnation' = incarnation + 1
    /\ UNCHANGED <<persist_clean_epoch, saver, disk, worker_boots,
                   save_state, thread, seen, acknowledged>>

\* The process ends: what it had in memory, its connections and its locks go.
ProcessEnds ==
    /\ running' = "no"
    /\ coordinator' = 0 /\ epoch' = 0 /\ outcome' = Empty
    /\ persist_epoch' = 0 /\ persist_clean_epoch' = 0
    /\ saver' = {}
    /\ worker_boots' = [w \in WorkerIds |-> 0]
    /\ thread' = [t \in Threads |-> Closed]
    /\ seen' = [t \in Threads |-> {}]

\* The process is killed, at any point; the temporary file is not the state
\* file, so the state file is what the last rename made it.
Crash ==
    /\ running # "no"
    /\ ProcessEnds
    /\ save_state' = IF save_state = "saved" THEN "saved" ELSE "lost"
    /\ UNCHANGED <<incarnation, disk, acknowledged>>

\* stop() closes admission; threads finish the frame they serve.
stop ==
    /\ running = "yes"
    /\ running' = "stopping"
    /\ UNCHANGED <<incarnation, engineVars, persistVars, worker_boots, thread,
                   seen, acknowledged>>

\* CoordinatorServer::persist_now() while it holds persist_mutex_: the
\* snapshot is taken, and the file replaced or left alone.
snapshot ==
    [coordinator |-> coordinator, epoch |-> epoch, outcome |-> outcome,
     incarnation |-> incarnation, at |-> persist_epoch]

\* What a save that succeeds, or fails, leaves behind.
atomic_write_file(state, succeeds) ==
    /\ succeeds \/ SavesMayFail
    /\ disk' = IF succeeds THEN state ELSE disk
    /\ save_state' = IF save_state = "lost" THEN "lost"
                     ELSE IF succeeds THEN "saved" ELSE "failed"

\* The rest of stop(), once the connection threads are joined.
stop_joined ==
    /\ running = "stopping"
    /\ \A t \in Threads : Resting(t)
    /\ \/ atomic_write_file(snapshot, TRUE)
       \/ SavesMayFail /\ save_state' = "lost" /\ UNCHANGED disk
    /\ ProcessEnds
    /\ UNCHANGED <<incarnation, acknowledged>>

-----------------------------------------------------------------------------
(* Connections and frames.                                                 *)

register_worker_boot(c) ==
    /\ c.boot >= worker_boots[c.worker]
    /\ worker_boots' = [worker_boots EXCEPT ![c.worker] = c.boot]

\* A client connects and completes the handshake; with an older boot it is
\* refused and closes the connection, which changes nothing.  A connection
\* that ends between two frames leaves a thread that nothing comes to any more.
connect(c, t) ==
    /\ running = "yes" /\ thread[t].pc = "closed"
    /\ register_worker_boot(c)
    /\ Goto(t, "open")
    /\ UNCHANGED <<running, incarnation, engineVars, persistVars, seen,
                   acknowledged>>

\* handle_frame() up to the call of the engine.  A frame that repeats a request
\* of its connection is answered with an error, and so is one that comes while
\* the server stops, unless it only asks for a save.
receive(t, f) ==
    /\ \/ running = "yes"
       \/ running = "stopping" /\ f.kind = "SnapshotSave"
    /\ thread[t].pc = "open" /\ f.request \notin seen[t]
    /\ Received < MaxFrames
    /\ seen' = [seen EXCEPT ![t] = @ \cup {f.request}]
    /\ thread' = [thread EXCEPT
          ![t] = [Open EXCEPT
                     !.pc = CASE f.kind \in {"Promotion", "Evaluate"} -> "evaluate"
                              [] f.kind = "Registration" -> "register"
                              [] f.kind = "Trust" -> "trust"
                              [] f.kind = "SnapshotSave" -> "save",
                     !.after = "reply", !.frame = f]]
    /\ UNCHANGED <<engineVars, persistVars, processVars, acknowledged>>

\* The answer is handed to the socket.  own tells that this frame made the
\* change it reports.  A thread of a server that stops ends with its answer.
reply(t) ==
    /\ thread[t].pc = "reply"
    /\ acknowledged' =
          IF thread[t].answer \in Success
          THEN acknowledged \cup
                 {[request |-> Request(t), answer |-> thread[t].answer,
                   own |-> thread[t].own, incarnation |-> incarnation,
                   coordinator |-> coordinator, epoch |-> epoch]}
          ELSE acknowledged
    /\ thread' = [thread EXCEPT ![t] = IF running = "stopping" THEN Closed ELSE Open]
    /\ UNCHANGED <<engineVars, persistVars, processVars, seen>>

-----------------------------------------------------------------------------
(* The operations of the engine, each under state_mutex_.                  *)

\* A change that the thread goes on from to pc, and to after once it is saved.
Record(t, held, pc, after) ==
    /\ outcome' = [outcome EXCEPT ![Request(t)] = held]
    /\ thread' = [thread EXCEPT ![t].pc = pc, ![t].after = after,
                                ![t].answer = held, ![t].own = TRUE]
    /\ UNCHANGED <<coordinator, epoch, persist_clean_epoch, saver, disk,
                   save_state, processVars, seen, acknowledged>>

\* A change that is counted, as all are but one.
Change(t, held, pc, after) ==
    /\ Record(t, held, pc, after)
    /\ persist_epoch' = persist_epoch + 1

\* The call returns without a change and without notify_change().
Return(t, answer) ==
    /\ thread' = [thread EXCEPT ![t].pc = "reply", ![t].answer = answer,
                                ![t].own = FALSE]
    /\ UNCHANGED <<engineVars, persistVars, processVars, seen, acknowledged>>

\* evaluate(): a request that is known gets what is held of it; another one a
\* plan, or a refusal that is recorded as well.
evaluate(t) ==
    /\ thread[t].pc = "evaluate"
    /\ IF running = "stopping" THEN Return(t, "error")
       ELSE IF outcome[Request(t)] \notin Unanswered
       THEN Return(t, outcome[Request(t)])
       ELSE \/ Change(t, "planned", "notify",
                      IF thread[t].frame.kind = "Promotion"
                      THEN "commit" ELSE "reply")
            \/ \E h \in {"refused", "unknown"} : Change(t, h, "notify", "reply")

\* commit() under state_mutex_.  It fails when the server stops or the plan was
\* evicted.  A refusal is a change that is answered without notify_change(); one
\* for a stale policy is not even counted.
commit(t) ==
    /\ thread[t].pc = "commit"
    /\ \/ Return(t, "error")
       \/ running = "yes" /\ Change(t, "committed", "commit_save", "reply")
       \/ running = "yes" /\ Change(t, "refused", "reply", "reply")
       \/ /\ running = "yes" /\ Record(t, "refused", "reply", "reply")
          /\ UNCHANGED persist_epoch

\* register_artifact() and submit_evidence(): refused, or a change, a repeated
\* one as well.
register(t) ==
    /\ thread[t].pc = "register"
    /\ \/ Return(t, "error")
       \/ running = "yes" /\ Change(t, "done", "notify", "reply")

\* Operations on trust: refused, without effect when it is there already, or a
\* change; the refusal of a release is recorded as well.
trust(t) ==
    /\ thread[t].pc = "trust"
    /\ \/ Return(t, "error")
       \/ running = "yes" /\ outcome[Request(t)] = "done" /\ Return(t, "done")
       \/ /\ running = "yes" /\ outcome[Request(t)] # "done"
          /\ \E h \in {"done", "refused"} : Change(t, h, "notify", "reply")

-----------------------------------------------------------------------------
(* Saving.                                                                 *)

\* notify_change() up to the call of the listener.
notify_change(t) ==
    /\ thread[t].pc = "notify"
    /\ PersistMutexFree
    /\ thread' = [thread EXCEPT
          ![t] = IF persist_clean_epoch = persist_epoch
                 THEN [@ EXCEPT !.pc = thread[t].after]
                 ELSE [@ EXCEPT !.pc = "listen", !.target = persist_epoch]]
    /\ UNCHANGED <<engineVars, persistVars, processVars, seen, acknowledged>>

\* Mutant of commit_save: commit() returns and leaves the save to the next change.
MutantCommitSave(t) ==
    /\ thread[t].pc = "commit_save"
    /\ Goto(t, "reply")
    /\ UNCHANGED <<engineVars, persistVars, processVars, seen, acknowledged>>

\* commit() after it released state_mutex_, up to the call of the listener:
\* persist_mutex_ is taken shared and kept.
commit_save(t) ==
    /\ thread[t].pc = "commit_save"
    /\ thread' = [thread EXCEPT ![t].pc = "listen", ![t].shared = TRUE,
                                ![t].target = persist_epoch]
    /\ UNCHANGED <<engineVars, persistVars, processVars, seen, acknowledged>>

\* The listener, or a SnapshotSave frame, takes the server's persist_mutex_ and
\* a snapshot.
TakeSnapshot(t) ==
    /\ thread[t].pc \in {"listen", "save"}
    /\ saver' = saver \cup {t}
    /\ thread' = [thread EXCEPT ![t].pc = "write", ![t].copy = snapshot]
    /\ UNCHANGED <<engineVars, persist_epoch, persist_clean_epoch, disk,
                   save_state, processVars, seen, acknowledged>>

\* Mutant of persist_now: two threads may be between snapshot and save.
MutantPersistNow(t) == TakeSnapshot(t)

persist_now(t) == saver = {} /\ TakeSnapshot(t)

\* The rest of persist_now(); the listener ignores a failure, a SnapshotSave
\* frame reports it.
SaveEnds(t, succeeds) ==
    /\ thread[t].pc = "write"
    /\ atomic_write_file(thread[t].copy, succeeds)
    /\ saver' = saver \ {t}
    /\ thread' = [thread EXCEPT
          ![t] = IF thread[t].frame.kind = "SnapshotSave"
                 THEN [@ EXCEPT !.pc = "reply", !.copy = NoFile,
                          !.answer = IF succeeds THEN "saved" ELSE "error"]
                 ELSE [@ EXCEPT !.pc = "mark", !.copy = NoFile]]
    /\ UNCHANGED <<engineVars, persist_epoch, persist_clean_epoch, processVars,
                   seen, acknowledged>>

save(t) == \E succeeds \in BOOLEAN : SaveEnds(t, succeeds)

\* The end of notify_change(), under persist_mutex_.
Mark(t, saved) ==
    /\ thread[t].pc = "mark" /\ ~thread[t].shared
    /\ PersistMutexFree
    /\ persist_clean_epoch' = Max({persist_clean_epoch, saved})
    /\ thread' = [thread EXCEPT ![t].pc = thread[t].after, ![t].target = 0]
    /\ UNCHANGED <<engineVars, persist_epoch, saver, disk, save_state,
                   processVars, seen, acknowledged>>

\* Mutant of mark: the epoch of now, not that of before the save, is clean.
MutantMark(t) == Mark(t, persist_epoch)

mark(t) == Mark(t, thread[t].target)

\* The end of commit().  Several threads may be here at once, with the lock
\* shared: one may store an epoch after another has stored a later one.
mark_compare(t) ==
    /\ thread[t].pc = "mark" /\ thread[t].shared
    /\ thread' = [thread EXCEPT
          ![t] = IF thread[t].target > persist_clean_epoch
                 THEN [@ EXCEPT !.pc = "mark_store"]
                 ELSE [@ EXCEPT !.pc = "notify", !.shared = FALSE, !.target = 0]]
    /\ UNCHANGED <<engineVars, persistVars, processVars, seen, acknowledged>>

StoreClean(t, locked) ==
    /\ thread[t].pc = "mark_store"
    /\ persist_clean_epoch' = thread[t].target
    /\ thread' = [thread EXCEPT ![t].pc = "notify", ![t].shared = locked,
                                ![t].target = 0]
    /\ UNCHANGED <<engineVars, persist_epoch, saver, disk, save_state,
                   processVars, seen, acknowledged>>

\* Mutant of mark_store: notify_change() is called inside the scope of the
\* shared lock.
MutantMarkStore(t) == StoreClean(t, TRUE)

mark_store(t) == StoreClean(t, FALSE)

-----------------------------------------------------------------------------
\* What a thread does by itself.
Serve(t) ==
    \/ evaluate(t)
    \/ commit(t)
    \/ register(t)
    \/ trust(t)
    \/ notify_change(t)
    \/ commit_save(t)
    \/ persist_now(t)
    \/ save(t)
    \/ mark(t)
    \/ mark_compare(t)
    \/ mark_store(t)
    \/ reply(t)

Next ==
    \/ start
    \/ Crash
    \/ stop
    \/ stop_joined
    \/ \E c \in Clients, t \in Threads : connect(c, t)
    \/ \E t \in Threads, f \in Frames : receive(t, f)
    \/ \E t \in Threads : Serve(t)

\* A thread that can go on does; nobody has to send, crash or restart.
Fairness == \A t \in Threads : WF_vars(Serve(t))

Spec == Init /\ [][Next]_vars /\ Fairness

-----------------------------------------------------------------------------
(* Properties.                                                             *)

ThreadState ==
    [pc : {"closed", "open", "evaluate", "commit", "register", "trust",
           "notify", "commit_save", "listen", "save", "write", "mark",
           "mark_store", "reply"},
     frame : Frames \cup {Closed.frame}, after : {"none", "commit", "reply"},
     target : Nat, copy : Snapshot,
     answer : Held \cup {"error", "saved"}, own : BOOLEAN, shared : BOOLEAN]

TypeOK ==
    /\ running \in {"no", "yes", "stopping"}
    /\ incarnation \in 0 .. MaxIncarnations
    /\ coordinator \in 0 .. incarnation /\ epoch \in 0 .. incarnation
    /\ outcome \in [RequestIds -> Held]
    /\ persist_epoch \in Nat /\ persist_clean_epoch \in Nat
    /\ saver \subseteq Threads
    /\ disk \in Snapshot
    /\ worker_boots \in [WorkerIds -> Nat]
    /\ thread \in [Threads -> ThreadState]
    /\ seen \in [Threads -> SUBSET RequestIds]
    /\ save_state \in {"saved", "failed", "lost"}

Durable(a) == disk.outcome[a.request] = a.answer

\* A frame that made a change and is answered with success has its change in
\* the state file, whatever other threads changed, saved or skipped saving
\* meanwhile, and the file keeps it through crashes and restarts.  The listener
\* ignores a save that failed and its caller marks the change clean all the
\* same; the next save that succeeds makes up for it, unless the process ends
\* first (engine.cpp 73-100, promotion.cpp 488-508, coordinator_server.cpp
\* 36-50).
OwnSuccessIsDurable ==
    \A a \in acknowledged :
        save_state = "saved" /\ a.own => Durable(a)

\* No two processes act under one authority: once a process has answered a
\* change with success, every later one has another coordinator identity or
\* epoch, although start() does not save the epoch it takes
\* (coordinator_server.cpp 62-80).
IncarnationsAreFenced ==
    \A a \in acknowledged :
        /\ save_state = "saved" /\ a.own
        /\ running # "no" /\ a.incarnation # incarnation
        => <<a.coordinator, a.epoch>> # <<coordinator, epoch>>

\* The state file never loses a change, and never goes back to an older
\* snapshot, although any thread may save (coordinator_server.cpp 43-50).
FileNeverGoesBack ==
    [][/\ \A r \in RequestIds :
             disk.outcome[r] # "none" => disk'.outcome[r] # "none"
       /\ disk'.incarnation = disk.incarnation => disk'.at >= disk.at
       /\ disk'.epoch >= disk.epoch]_vars

\* What notify_change() may skip is saved: the changes up to the clean epoch of
\* this process are in the file, although commit() stores the clean epoch under
\* a shared lock (engine.cpp 79-82, promotion.cpp 491-505).
CleanIsSaved ==
    save_state = "saved" /\ running # "no" /\ persist_clean_epoch > 0 =>
        disk.incarnation = incarnation /\ persist_clean_epoch <= disk.at

\* A frame is answered, or the process ends: the locks of the engine and of the
\* server never block all threads (engine.cpp 73-100, promotion.cpp 488-508).
ServedIsAnswered == \A t \in Threads : ~Resting(t) ~> Resting(t)

\* "Success is never acknowledged before the commit is durable" (engine.hpp
\* 134-135, README.md 34-36), to whichever client it is acknowledged.
SuccessIsDurable ==
    \A a \in acknowledged :
        save_state = "saved" /\ a.answer = "committed" => Durable(a)
=============================================================================
