----------------------- MODULE CoordinatorServerProofs -----------------------
(***************************************************************************)
(* Proofs about the coordinator process, for any number of threads,        *)
(* clients, frames and processes: a change that was acknowledged to the    *)
(* frame that made it is in the state file while saves succeed, the file   *)
(* never goes back, and no two processes act under one authority.          *)
(*                                                                         *)
(* The inductive invariant follows a snapshot from memory to the file.     *)
(* At most one snapshot is on its way, it is not older than the file, and  *)
(* it holds every change whose thread got past its own save; the numbers   *)
(* of the changes (persist_epoch) decide which those are.                  *)
(***************************************************************************)
EXTENDS CoordinatorServer, TLAPS

-----------------------------------------------------------------------------
(* The inductive invariant.                                                *)

Writing(t) == thread[t].pc = "write"

\* The save the thread asked for has ended.
PastSave(t) == thread[t].pc \in {"mark", "mark_store"}

\* The thread reports a change that it made itself.
OwnSuccess(t) ==
    ~Resting(t) /\ thread[t].own /\ thread[t].answer \in Success

\* ... and has nothing left to save.
Reporting(t) ==
    OwnSuccess(t) /\ (PastSave(t) \/ thread[t].pc = "reply")

\* The thread has planned its request and will call commit().
Committing(t) ==
    ~Resting(t) /\ thread[t].after = "commit" /\ thread[t].pc # "reply"

\* The requests of promotions, which alone are planned and committed.
PromotionFrames == {f \in Frames : f.kind \in {"Promotion", "Evaluate"}}
PromotionRequests == {f.request : f \in PromotionFrames}

Planned(held) ==
    \A r \in RequestIds :
        held[r] \in {"planned", "committed"} => r \in PromotionRequests

\* A snapshot this process took, at the change numbered s.at.
Taken(s) ==
    /\ s.incarnation = incarnation
    /\ s.coordinator = coordinator /\ s.epoch = epoch
    /\ s.at <= persist_epoch
    /\ s.at = persist_epoch =>
          \A r \in RequestIds :
             outcome[r] \in Success => s.outcome[r] = outcome[r]
    /\ \A r \in RequestIds : s.outcome[r] # "none" => outcome[r] # "none"

Acknowledgement ==
    [request : RequestIds, answer : Success, own : BOOLEAN, incarnation : Nat,
     coordinator : Nat, epoch : Nat]

\* What a process that is not there has, and what only one that is there has.
ProcessInv ==
    /\ acknowledged \subseteq Acknowledgement
    /\ disk.incarnation \in 0 .. incarnation
    /\ disk.coordinator \in 0 .. incarnation /\ disk.epoch \in 0 .. incarnation
    /\ disk = NoFile \/ disk.epoch > 0
    /\ running = "no" =>
          /\ save_state # "failed"
          /\ persist_clean_epoch = 0
          /\ \A t \in Threads : thread[t] = Closed
    /\ running # "no" => save_state # "lost" /\ epoch > 0

\* What a thread serves.
FrameInv ==
    \A t \in Threads :
        ~Resting(t) =>
            /\ thread[t].frame \in Frames /\ thread[t].after # "none"
            /\ thread[t].pc = "commit" => thread[t].after = "commit"
            /\ thread[t].pc = "evaluate" \/ thread[t].after = "commit" =>
                  thread[t].frame \in PromotionFrames
            /\ thread[t].pc \in {"register", "trust"} =>
                  thread[t].frame \notin PromotionFrames

\* The lock of a save, and the numbers threads and the clean epoch hold.
SaverInv ==
    /\ saver = {t \in Threads : Writing(t)}
    /\ \A t, u \in Threads : Writing(t) /\ Writing(u) => t = u
    /\ persist_clean_epoch <= persist_epoch
    /\ \A t \in Threads : thread[t].target <= persist_epoch

PlannedInv ==
    /\ Planned(outcome) /\ Planned(disk.outcome)
    /\ \A t \in Threads : Writing(t) => Planned(thread[t].copy.outcome)

\* A change stays what its thread reports, and one thread reports it.
OwnInv ==
    /\ \A t \in Threads :
          OwnSuccess(t) => /\ outcome[Request(t)] = thread[t].answer
                           /\ persist_epoch > 0
    /\ \A t \in Threads :
          Committing(t) => thread[t].own /\ thread[t].answer = "planned"
    /\ \A t, u \in Threads :
          /\ OwnSuccess(t) /\ OwnSuccess(u) /\ Request(t) = Request(u)
          /\ thread[t].answer = "planned" /\ thread[u].answer = "planned"
          => t = u

\* A snapshot that may replace the file: it is not older, and it has what is
\* reported, what was acknowledged and what the file has.
Fresh(s) ==
    /\ Taken(s)
    /\ persist_clean_epoch <= s.at
    /\ \A t \in Threads : PastSave(t) => thread[t].target <= s.at
    /\ \A t \in Threads :
          Reporting(t) => s.outcome[Request(t)] = thread[t].answer
    /\ \A a \in acknowledged : a.own => s.outcome[a.request] = a.answer
    /\ disk.incarnation = incarnation => disk.at <= s.at
    /\ \A r \in RequestIds :
          disk.outcome[r] # "none" => s.outcome[r] # "none"

\* ... and, when a thread has it, what that thread changed.
Carries(t, s) ==
    /\ Fresh(s)
    /\ thread[t].target <= s.at
    /\ OwnSuccess(t) => s.outcome[Request(t)] = thread[t].answer

\* The snapshot on its way to the file.
CopyInv == \A t \in Threads : Writing(t) => Carries(t, thread[t].copy)

\* The file, against the process that runs.
FileInv ==
    running # "no" =>
        /\ disk.incarnation = incarnation => Taken(disk)
        /\ disk.epoch <= epoch
        /\ disk # NoFile => disk.coordinator = coordinator
        /\ \A r \in RequestIds : disk.outcome[r] # "none" => outcome[r] # "none"

\* The file, while the newest save succeeded.
SavedInv ==
    save_state = "saved" =>
        /\ persist_clean_epoch > 0 =>
              disk.incarnation = incarnation /\ persist_clean_epoch <= disk.at
        /\ \A t \in Threads : PastSave(t) =>
              disk.incarnation = incarnation /\ thread[t].target <= disk.at
        /\ \A t \in Threads : Reporting(t) =>
              /\ disk.incarnation = incarnation
              /\ disk.outcome[Request(t)] = thread[t].answer
        /\ \A a \in acknowledged : a.own =>
              /\ Durable(a)
              /\ disk.coordinator = a.coordinator /\ a.epoch <= disk.epoch

\* What was acknowledged, against the process that runs.
AcknowledgedInv ==
    \A a \in acknowledged : a.own =>
        /\ a.incarnation <= incarnation
        /\ running # "no" =>
              /\ outcome[a.request] = a.answer
              /\ \A t \in Threads : Committing(t) => Request(t) # a.request
              /\ a.coordinator = coordinator
              /\ a.incarnation = incarnation => a.epoch = epoch
              /\ a.incarnation # incarnation => a.epoch < epoch

SavingInvariant ==
    /\ ProcessInv /\ FrameInv /\ SaverInv /\ PlannedInv /\ OwnInv
    /\ CopyInv /\ FileInv /\ SavedInv /\ AcknowledgedInv

-----------------------------------------------------------------------------
(* What a step makes of the threads.                                       *)

\* Snapshots of the memory, and the absence of one, are snapshots.
LEMMA SnapshotType ==
    ASSUME TypeOK
    PROVE  snapshot \in Snapshot /\ NoFile \in Snapshot
  <1>1. Empty \in [RequestIds -> Held]
    BY DEF Empty, Held, Unanswered
  <1>2. NoFile \in Snapshot
    BY <1>1 DEF NoFile, Snapshot
  <1>3. snapshot \in Snapshot
    BY DEF snapshot, Snapshot, TypeOK
  <1> QED BY <1>2, <1>3

\* A thread without a connection, and one between two frames.
LEMMA RestingType == Closed \in ThreadState /\ Open \in ThreadState
  <1>1. NoFile \in Snapshot
    BY DEF NoFile, Snapshot, Empty, Held, Unanswered
  <1>2. Closed \in ThreadState
    BY <1>1 DEF Closed, ThreadState, Held, Unanswered
  <1> QED BY <1>2 DEF Open, ThreadState

\* The step of thread t leaves it in the given state, and the other threads alone.
Becomes(t, pc, frame, after, target, copy, answer, own, shared) ==
    /\ thread' \in [Threads -> ThreadState]
    /\ \A u \in Threads \ {t} : thread'[u] = thread[u]
    /\ thread'[t].pc = pc /\ thread'[t].frame = frame
    /\ thread'[t].after = after /\ thread'[t].target = target
    /\ thread'[t].copy = copy /\ thread'[t].answer = answer
    /\ thread'[t].own = own /\ thread'[t].shared = shared

\* A thread that is given a new state.
LEMMA ThreadUpdate ==
    ASSUME TypeOK, NEW t \in Threads, NEW new \in ThreadState,
           thread' = [thread EXCEPT ![t] = new]
    PROVE  Becomes(t, new.pc, new.frame, new.after, new.target, new.copy,
                   new.answer, new.own, new.shared)
  BY DEF TypeOK, Becomes

\* Record() moves the thread on and gives it the answer to report.
LEMMA RecordView ==
    ASSUME TypeOK, NEW t \in Threads, NEW held \in Held,
           NEW pc \in {"notify", "reply", "commit_save"},
           NEW after \in {"commit", "reply"}, Record(t, held, pc, after)
    PROVE  LET old == thread[t] IN
           Becomes(t, pc, old.frame, after, old.target, old.copy, held, TRUE,
                   old.shared)
  <1> DEFINE new == [thread[t] EXCEPT !.pc = pc, !.after = after,
                                       !.answer = held, !.own = TRUE]
  <1>1. thread[t] \in ThreadState
    BY DEF TypeOK
  <1>2. new \in ThreadState
    BY <1>1 DEF ThreadState
  <1>3. thread' = [thread EXCEPT ![t] = new]
    BY DEF Record
  <1>4. /\ new.pc = pc /\ new.frame = thread[t].frame /\ new.after = after
        /\ new.target = thread[t].target /\ new.copy = thread[t].copy
        /\ new.answer = held /\ new.own = TRUE /\ new.shared = thread[t].shared
    BY <1>1 DEF ThreadState
  <1> HIDE DEF new
  <1> QED BY <1>2, <1>3, <1>4, ThreadUpdate

\* Return() leaves the thread with an answer that is not its own change.
LEMMA ReturnView ==
    ASSUME TypeOK, NEW t \in Threads, NEW answer \in Held \cup {"error"},
           Return(t, answer)
    PROVE  LET old == thread[t] IN
           Becomes(t, "reply", old.frame, old.after, old.target, old.copy,
                   answer, FALSE, old.shared)
  <1> DEFINE new == [thread[t] EXCEPT !.pc = "reply", !.answer = answer,
                                       !.own = FALSE]
  <1>1. thread[t] \in ThreadState
    BY DEF TypeOK
  <1>2. new \in ThreadState
    BY <1>1 DEF ThreadState
  <1>3. thread' = [thread EXCEPT ![t] = new]
    BY DEF Return
  <1>4. /\ new.pc = "reply" /\ new.frame = thread[t].frame
        /\ new.after = thread[t].after /\ new.target = thread[t].target
        /\ new.copy = thread[t].copy /\ new.answer = answer
        /\ new.own = FALSE /\ new.shared = thread[t].shared
    BY <1>1 DEF ThreadState
  <1> HIDE DEF new
  <1> QED BY <1>2, <1>3, <1>4, ThreadUpdate

\* connect() opens a thread.
LEMMA ConnectView ==
    ASSUME TypeOK, NEW c \in Clients, NEW t \in Threads, connect(c, t)
    PROVE  LET old == thread[t] IN
           Becomes(t, "open", old.frame, old.after, old.target, old.copy,
                   old.answer, old.own, old.shared)
  <1> DEFINE new == [thread[t] EXCEPT !.pc = "open"]
  <1>1. thread[t] \in ThreadState
    BY DEF TypeOK
  <1>2. new \in ThreadState
    BY <1>1 DEF ThreadState
  <1>3. thread' = [thread EXCEPT ![t] = new]
    BY DEF connect, Goto
  <1>4. /\ new.pc = "open" /\ new.frame = thread[t].frame
        /\ new.after = thread[t].after /\ new.target = thread[t].target
        /\ new.copy = thread[t].copy /\ new.answer = thread[t].answer
        /\ new.own = thread[t].own /\ new.shared = thread[t].shared
    BY <1>1 DEF ThreadState
  <1> HIDE DEF new
  <1> QED BY <1>2, <1>3, <1>4, ThreadUpdate

\* notify_change() skips a save.
LEMMA SkipView ==
    ASSUME TypeOK, FrameInv, NEW t \in Threads, notify_change(t),
           persist_clean_epoch = persist_epoch
    PROVE  LET old == thread[t] IN
           Becomes(t, old.after, old.frame, old.after, old.target, old.copy,
                   old.answer, old.own, old.shared)
  <1> DEFINE new == [thread[t] EXCEPT !.pc = thread[t].after]
  <1>1. thread[t] \in ThreadState
    BY DEF TypeOK
  <1>2. new \in ThreadState
    BY <1>1 DEF ThreadState, FrameInv, Resting, notify_change
  <1>3. thread' = [thread EXCEPT ![t] = new]
    BY DEF notify_change
  <1>4. /\ new.pc = thread[t].after /\ new.frame = thread[t].frame
        /\ new.after = thread[t].after /\ new.target = thread[t].target
        /\ new.copy = thread[t].copy /\ new.answer = thread[t].answer
        /\ new.own = thread[t].own /\ new.shared = thread[t].shared
    BY <1>1 DEF ThreadState, FrameInv, Resting, notify_change
  <1> HIDE DEF new
  <1> QED BY <1>2, <1>3, <1>4, ThreadUpdate

\* notify_change() calls the listener.
LEMMA ListenView ==
    ASSUME TypeOK, NEW t \in Threads, notify_change(t),
           persist_clean_epoch # persist_epoch
    PROVE  LET old == thread[t] IN
           Becomes(t, "listen", old.frame, old.after, persist_epoch,
                   old.copy, old.answer, old.own, old.shared)
  <1> DEFINE new == [thread[t] EXCEPT !.pc = "listen",
                                       !.target = persist_epoch]
  <1>1. thread[t] \in ThreadState
    BY DEF TypeOK
  <1>2. new \in ThreadState
    BY <1>1 DEF ThreadState, TypeOK
  <1>3. thread' = [thread EXCEPT ![t] = new]
    BY DEF notify_change
  <1>4. /\ new.pc = "listen" /\ new.frame = thread[t].frame
        /\ new.after = thread[t].after /\ new.target = persist_epoch
        /\ new.copy = thread[t].copy /\ new.answer = thread[t].answer
        /\ new.own = thread[t].own /\ new.shared = thread[t].shared
    BY <1>1 DEF ThreadState, TypeOK
  <1> HIDE DEF new
  <1> QED BY <1>2, <1>3, <1>4, ThreadUpdate

\* commit() calls the listener with the lock shared.
LEMMA CommitSaveView ==
    ASSUME TypeOK, NEW t \in Threads, commit_save(t)
    PROVE  LET old == thread[t] IN
           Becomes(t, "listen", old.frame, old.after, persist_epoch,
                   old.copy, old.answer, old.own, TRUE)
  <1> DEFINE new == [thread[t] EXCEPT !.pc = "listen", !.shared = TRUE,
                                       !.target = persist_epoch]
  <1>1. thread[t] \in ThreadState
    BY DEF TypeOK
  <1>2. new \in ThreadState
    BY <1>1 DEF ThreadState, TypeOK
  <1>3. thread' = [thread EXCEPT ![t] = new]
    BY DEF commit_save
  <1>4. /\ new.pc = "listen" /\ new.frame = thread[t].frame
        /\ new.after = thread[t].after /\ new.target = persist_epoch
        /\ new.copy = thread[t].copy /\ new.answer = thread[t].answer
        /\ new.own = thread[t].own /\ new.shared = TRUE
    BY <1>1 DEF ThreadState, TypeOK
  <1> HIDE DEF new
  <1> QED BY <1>2, <1>3, <1>4, ThreadUpdate

\* A save begins with a snapshot.
LEMMA TakeSnapshotView ==
    ASSUME TypeOK, NEW t \in Threads, TakeSnapshot(t)
    PROVE  LET old == thread[t] IN
           Becomes(t, "write", old.frame, old.after, old.target, snapshot,
                   old.answer, old.own, old.shared)
  <1> DEFINE new == [thread[t] EXCEPT !.pc = "write", !.copy = snapshot]
  <1>1. thread[t] \in ThreadState
    BY DEF TypeOK
  <1>2. new \in ThreadState
    BY <1>1, SnapshotType DEF ThreadState
  <1>3. thread' = [thread EXCEPT ![t] = new]
    BY DEF TakeSnapshot
  <1>4. /\ new.pc = "write" /\ new.frame = thread[t].frame
        /\ new.after = thread[t].after /\ new.target = thread[t].target
        /\ new.copy = snapshot /\ new.answer = thread[t].answer
        /\ new.own = thread[t].own /\ new.shared = thread[t].shared
    BY <1>1, SnapshotType DEF ThreadState
  <1> HIDE DEF new
  <1> QED BY <1>2, <1>3, <1>4, ThreadUpdate

\* A save that a SnapshotSave frame asked for ends with its answer.
LEMMA SaveFrameView ==
    ASSUME TypeOK, NEW t \in Threads, NEW succeeds \in BOOLEAN,
           SaveEnds(t, succeeds), thread[t].frame.kind = "SnapshotSave"
    PROVE  LET old == thread[t] IN
           Becomes(t, "reply", old.frame, old.after, old.target, NoFile,
                   IF succeeds THEN "saved" ELSE "error", old.own,
                   old.shared)
  <1> DEFINE new == [thread[t] EXCEPT !.pc = "reply", !.copy = NoFile,
                           !.answer = IF succeeds THEN "saved" ELSE "error"]
  <1>1. thread[t] \in ThreadState
    BY DEF TypeOK
  <1>2. new \in ThreadState
    BY <1>1, SnapshotType DEF ThreadState
  <1>3. thread' = [thread EXCEPT ![t] = new]
    BY DEF SaveEnds
  <1>4. /\ new.pc = "reply" /\ new.frame = thread[t].frame
        /\ new.after = thread[t].after /\ new.target = thread[t].target
        /\ new.copy = NoFile /\ new.answer = IF succeeds THEN "saved" ELSE "error"
        /\ new.own = thread[t].own /\ new.shared = thread[t].shared
    BY <1>1, SnapshotType DEF ThreadState
  <1> HIDE DEF new
  <1> QED BY <1>2, <1>3, <1>4, ThreadUpdate

\* A save that the listener made ends before the change is marked clean.
LEMMA SaveView ==
    ASSUME TypeOK, NEW t \in Threads, NEW succeeds \in BOOLEAN,
           SaveEnds(t, succeeds), thread[t].frame.kind # "SnapshotSave"
    PROVE  LET old == thread[t] IN
           Becomes(t, "mark", old.frame, old.after, old.target, NoFile,
                   old.answer, old.own, old.shared)
  <1> DEFINE new == [thread[t] EXCEPT !.pc = "mark", !.copy = NoFile]
  <1>1. thread[t] \in ThreadState
    BY DEF TypeOK
  <1>2. new \in ThreadState
    BY <1>1, SnapshotType DEF ThreadState
  <1>3. thread' = [thread EXCEPT ![t] = new]
    BY DEF SaveEnds
  <1>4. /\ new.pc = "mark" /\ new.frame = thread[t].frame
        /\ new.after = thread[t].after /\ new.target = thread[t].target
        /\ new.copy = NoFile /\ new.answer = thread[t].answer
        /\ new.own = thread[t].own /\ new.shared = thread[t].shared
    BY <1>1, SnapshotType DEF ThreadState
  <1> HIDE DEF new
  <1> QED BY <1>2, <1>3, <1>4, ThreadUpdate

\* The end of notify_change().
LEMMA MarkView ==
    ASSUME TypeOK, FrameInv, NEW t \in Threads, mark(t)
    PROVE  LET old == thread[t] IN
           Becomes(t, old.after, old.frame, old.after, 0, old.copy,
                   old.answer, old.own, old.shared)
  <1> DEFINE new == [thread[t] EXCEPT !.pc = thread[t].after, !.target = 0]
  <1>1. thread[t] \in ThreadState
    BY DEF TypeOK
  <1>2. new \in ThreadState
    BY <1>1 DEF ThreadState, FrameInv, Resting, mark, Mark
  <1>3. thread' = [thread EXCEPT ![t] = new]
    BY DEF mark, Mark
  <1>4. /\ new.pc = thread[t].after /\ new.frame = thread[t].frame
        /\ new.after = thread[t].after /\ new.target = 0
        /\ new.copy = thread[t].copy /\ new.answer = thread[t].answer
        /\ new.own = thread[t].own /\ new.shared = thread[t].shared
    BY <1>1 DEF ThreadState, FrameInv, Resting, mark, Mark
  <1> HIDE DEF new
  <1> QED BY <1>2, <1>3, <1>4, ThreadUpdate

\* commit() will store its epoch as clean.
LEMMA StoreView ==
    ASSUME TypeOK, NEW t \in Threads, mark_compare(t),
           thread[t].target > persist_clean_epoch
    PROVE  LET old == thread[t] IN
           Becomes(t, "mark_store", old.frame, old.after, old.target,
                   old.copy, old.answer, old.own, old.shared)
  <1> DEFINE new == [thread[t] EXCEPT !.pc = "mark_store"]
  <1>1. thread[t] \in ThreadState
    BY DEF TypeOK
  <1>2. new \in ThreadState
    BY <1>1 DEF ThreadState
  <1>3. thread' = [thread EXCEPT ![t] = new]
    BY DEF mark_compare
  <1>4. /\ new.pc = "mark_store" /\ new.frame = thread[t].frame
        /\ new.after = thread[t].after /\ new.target = thread[t].target
        /\ new.copy = thread[t].copy /\ new.answer = thread[t].answer
        /\ new.own = thread[t].own /\ new.shared = thread[t].shared
    BY <1>1 DEF ThreadState
  <1> HIDE DEF new
  <1> QED BY <1>2, <1>3, <1>4, ThreadUpdate

\* commit() leaves a later clean epoch alone.
LEMMA LeaveView ==
    ASSUME TypeOK, NEW t \in Threads, mark_compare(t),
           ~(thread[t].target > persist_clean_epoch)
    PROVE  LET old == thread[t] IN
           Becomes(t, "notify", old.frame, old.after, 0, old.copy,
                   old.answer, old.own, FALSE)
  <1> DEFINE new == [thread[t] EXCEPT !.pc = "notify", !.shared = FALSE,
                                       !.target = 0]
  <1>1. thread[t] \in ThreadState
    BY DEF TypeOK
  <1>2. new \in ThreadState
    BY <1>1 DEF ThreadState
  <1>3. thread' = [thread EXCEPT ![t] = new]
    BY DEF mark_compare
  <1>4. /\ new.pc = "notify" /\ new.frame = thread[t].frame
        /\ new.after = thread[t].after /\ new.target = 0
        /\ new.copy = thread[t].copy /\ new.answer = thread[t].answer
        /\ new.own = thread[t].own /\ new.shared = FALSE
    BY <1>1 DEF ThreadState
  <1> HIDE DEF new
  <1> QED BY <1>2, <1>3, <1>4, ThreadUpdate

\* commit() has stored its epoch as clean.
LEMMA StoredView ==
    ASSUME TypeOK, NEW t \in Threads, mark_store(t)
    PROVE  LET old == thread[t] IN
           Becomes(t, "notify", old.frame, old.after, 0, old.copy,
                   old.answer, old.own, FALSE)
  <1> DEFINE new == [thread[t] EXCEPT !.pc = "notify", !.shared = FALSE,
                                       !.target = 0]
  <1>1. thread[t] \in ThreadState
    BY DEF TypeOK
  <1>2. new \in ThreadState
    BY <1>1 DEF ThreadState
  <1>3. thread' = [thread EXCEPT ![t] = new]
    BY DEF mark_store, StoreClean
  <1>4. /\ new.pc = "notify" /\ new.frame = thread[t].frame
        /\ new.after = thread[t].after /\ new.target = 0
        /\ new.copy = thread[t].copy /\ new.answer = thread[t].answer
        /\ new.own = thread[t].own /\ new.shared = FALSE
    BY <1>1 DEF ThreadState
  <1> HIDE DEF new
  <1> QED BY <1>2, <1>3, <1>4, ThreadUpdate

\* receive() hands a frame to the operation it asks for.
LEMMA ReceiveView ==
    ASSUME TypeOK, NEW t \in Threads, NEW f \in Frames, receive(t, f)
    PROVE  \E pc \in {"evaluate", "register", "trust", "save"} :
              /\ Becomes(t, pc, f, "reply", 0, NoFile, "none", FALSE, FALSE)
              /\ pc = "evaluate" <=> f \in PromotionFrames
  <1> DEFINE pc == CASE f.kind \in {"Promotion", "Evaluate"} -> "evaluate"
                     [] f.kind = "Registration" -> "register"
                     [] f.kind = "Trust" -> "trust"
                     [] f.kind = "SnapshotSave" -> "save"
             new == [Open EXCEPT !.pc = pc, !.after = "reply", !.frame = f]
  <1>1. f.kind \in FrameKind
    BY ServerAssumption
  <1>2. /\ pc \in {"evaluate", "register", "trust", "save"}
        /\ pc = "evaluate" <=> f \in PromotionFrames
    BY <1>1 DEF FrameKind, PromotionFrames
  <1>3. thread' = [thread EXCEPT ![t] = new]
    BY DEF receive
  <1> HIDE DEF pc
  <1>4. /\ new.pc = pc /\ new.frame = f /\ new.after = "reply"
        /\ new.target = 0 /\ new.copy = NoFile /\ new.answer = "none"
        /\ new.own = FALSE /\ new.shared = FALSE
    BY DEF Open, Closed
  <1>5. new \in ThreadState
    BY <1>2, RestingType DEF ThreadState
  <1> HIDE DEF new
  <1>6. Becomes(t, pc, f, "reply", 0, NoFile, "none", FALSE, FALSE)
    BY <1>3, <1>4, <1>5, ThreadUpdate
  <1> QED BY <1>2, <1>6

\* reply() leaves the thread without a frame.
LEMMA ReplyView ==
    ASSUME TypeOK, NEW t \in Threads, reply(t)
    PROVE  \E pc \in {"closed", "open"} :
              Becomes(t, pc, Closed.frame, "none", 0, NoFile, "none", FALSE, FALSE)
  <1> DEFINE new == IF running = "stopping" THEN Closed ELSE Open
  <1>1. thread' = [thread EXCEPT ![t] = new]
    BY DEF reply
  <1>2. new \in ThreadState
    BY RestingType
  <1>3. /\ new.pc \in {"closed", "open"} /\ new.frame = Closed.frame
        /\ new.after = "none" /\ new.target = 0 /\ new.copy = NoFile
        /\ new.answer = "none" /\ new.own = FALSE /\ new.shared = FALSE
    BY DEF Open, Closed
  <1> HIDE DEF new
  <1> QED BY <1>1, <1>2, <1>3, ThreadUpdate

\* The numbers that the invariant compares, and the states of a thread.
LEMMA Numbers ==
    ASSUME TypeOK
    PROVE  /\ incarnation \in Nat /\ coordinator \in Nat /\ epoch \in Nat
           /\ persist_epoch \in Nat /\ persist_clean_epoch \in Nat
           /\ disk.at \in Nat /\ disk.epoch \in Nat /\ disk.incarnation \in Nat
           /\ disk.coordinator \in Nat
           /\ \A u \in Threads :
                 /\ thread[u].target \in Nat /\ thread[u].copy.at \in Nat
                 /\ thread[u].copy.epoch \in Nat
                 /\ thread[u].after \in {"none", "commit", "reply"}
                 /\ thread[u].own \in BOOLEAN /\ thread[u].shared \in BOOLEAN
  <1>1. disk \in Snapshot /\ \A u \in Threads : thread[u] \in ThreadState
    BY DEF TypeOK
  <1>2. \A u \in Threads : thread[u].copy \in Snapshot
    BY <1>1 DEF ThreadState
  <1> QED BY <1>1, <1>2, ServerAssumption DEF TypeOK, ThreadState, Snapshot

-----------------------------------------------------------------------------
(* Steps that change nothing that is saved.                                *)

\* Thread t goes on without a change of what it reports; it may store the epoch
\* of its save as clean, and be done with saving when all is clean.
Quiet(t) ==
    /\ running # "no" /\ UNCHANGED running
    /\ ~Writing(t) /\ ~Writing(t)'
    /\ thread' \in [Threads -> ThreadState]
    /\ \A u \in Threads \ {t} : thread'[u] = thread[u]
    /\ thread'[t].target <= persist_epoch
    /\ OwnSuccess(t)' => /\ OwnSuccess(t)
                         /\ Request(t)' = Request(t)
                         /\ thread'[t].answer = thread[t].answer
    /\ Committing(t)' => /\ Committing(t)
                         /\ Request(t)' = Request(t)
                         /\ thread'[t].own = thread[t].own
                         /\ thread'[t].answer = thread[t].answer
    /\ PastSave(t)' => PastSave(t) /\ thread'[t].target = thread[t].target
    /\ Reporting(t)' => Reporting(t) \/ persist_clean_epoch = persist_epoch
    /\ \/ UNCHANGED persist_clean_epoch
       \/ PastSave(t) /\ persist_clean_epoch' = thread[t].target
    /\ UNCHANGED <<incarnation, engineVars, persist_epoch, saver, disk,
                   save_state, acknowledged>>

\* A quiet step keeps the invariant.
LEMMA QuietStep ==
    ASSUME TypeOK, SavingInvariant, NEW t \in Threads, Quiet(t), FrameInv'
    PROVE  SavingInvariant'
  <1>a. /\ ProcessInv /\ FrameInv /\ SaverInv /\ PlannedInv /\ OwnInv
        /\ CopyInv /\ FileInv /\ SavedInv /\ AcknowledgedInv
    BY DEF SavingInvariant
  <1>b. UNCHANGED <<running, incarnation, coordinator, epoch, outcome,
                    persist_epoch, saver, disk, save_state, acknowledged>>
    BY DEF Quiet, engineVars
  <1>1. \A u \in Threads :
           /\ Writing(u)' <=> Writing(u)
           /\ Writing(u) => thread'[u] = thread[u]
    BY DEF Quiet, Writing
  <1>2. \A u \in Threads :
           OwnSuccess(u)' => /\ OwnSuccess(u)
                             /\ Request(u)' = Request(u)
                             /\ thread'[u].answer = thread[u].answer
    BY DEF Quiet, OwnSuccess, Resting, Request
  <1>3. \A u \in Threads :
           Committing(u)' => /\ Committing(u)
                             /\ Request(u)' = Request(u)
                             /\ thread'[u].own = thread[u].own
                             /\ thread'[u].answer = thread[u].answer
    BY DEF Quiet, Committing, Resting, Request
  <1>4. \A u \in Threads :
           PastSave(u)' => PastSave(u) /\ thread'[u].target = thread[u].target
    BY DEF Quiet, PastSave
  <1>5. \A u \in Threads :
           Reporting(u)' =>
              /\ OwnSuccess(u) /\ Request(u)' = Request(u)
              /\ thread'[u].answer = thread[u].answer
              /\ Reporting(u) \/ persist_clean_epoch = persist_epoch
    <2> SUFFICES ASSUME NEW u \in Threads, Reporting(u)'
                 PROVE  Reporting(u) \/ persist_clean_epoch = persist_epoch
      BY <1>2 DEF Reporting
    <2> QED BY DEF Quiet, Reporting, OwnSuccess, PastSave, Resting
  <1>6. \/ UNCHANGED persist_clean_epoch
        \/ PastSave(t) /\ persist_clean_epoch' = thread[t].target
    BY DEF Quiet
  <1>7. ProcessInv'
    BY <1>a, <1>b DEF ProcessInv, Quiet
  <1>8. SaverInv'
    <2>1. \A u \in Threads : thread'[u].target <= persist_epoch
      BY <1>a DEF SaverInv, Quiet
    <2> QED BY <1>a, <1>b, <1>1, <1>6, <2>1 DEF SaverInv
  <1>9. PlannedInv'
    BY <1>a, <1>b, <1>1 DEF PlannedInv, Planned
  <1>10. OwnInv'
    BY <1>a, <1>b, <1>2, <1>3 DEF OwnInv
  <1>11. \A s : s.at \in Nat /\ Fresh(s) => Fresh(s)'
    <2> SUFFICES ASSUME NEW s, s.at \in Nat, Fresh(s)
                 PROVE  Fresh(s)'
      OBVIOUS
    <2>1. Taken(s)'
      BY <1>b DEF Fresh, Taken
    <2>2. ASSUME NEW u \in Threads, Reporting(u)'
          PROVE  s.outcome[Request(u)'] = thread'[u].answer
      <3>1. CASE Reporting(u)
        BY <1>5, <2>2, <3>1 DEF Fresh
      <3>2. CASE persist_clean_epoch = persist_epoch
        <4>1. OwnSuccess(u) /\ Request(u)' = Request(u)
                /\ thread'[u].answer = thread[u].answer
          BY <1>5, <2>2
        <4>2. outcome[Request(u)] = thread[u].answer /\ thread[u].answer \in Success
          BY <1>a, <4>1 DEF OwnInv, OwnSuccess
        <4>3. Request(u) \in RequestIds
          BY <1>a, <4>1 DEF FrameInv, OwnSuccess, Request, RequestIds
        <4>4. s.at = persist_epoch
          BY <3>2, Numbers DEF Fresh, Taken
        <4> QED BY <4>1, <4>2, <4>3, <4>4 DEF Fresh, Taken
      <3> QED BY <1>5, <2>2, <3>1, <3>2
    <2> QED BY <1>b, <1>4, <1>6, <2>1, <2>2 DEF Fresh
  <1>12. CopyInv'
    <2> SUFFICES ASSUME NEW u \in Threads, Writing(u)'
                 PROVE  Carries(u, thread[u].copy)'
      BY DEF CopyInv
    <2>1. Writing(u) /\ thread'[u] = thread[u]
      BY <1>1
    <2>2. Carries(u, thread[u].copy)
      BY <1>a, <2>1 DEF CopyInv
    <2>3. Fresh(thread[u].copy)'
      BY <1>11, <2>1, <2>2, Numbers DEF Carries
    <2> QED BY <1>2, <2>1, <2>2, <2>3 DEF Carries
  <1>13. FileInv'
    BY <1>a, <1>b DEF FileInv, Taken
  <1>14. SavedInv'
    <2> SUFFICES ASSUME save_state = "saved"
                 PROVE  SavedInv'
      BY <1>b DEF SavedInv
    <2>1. ASSUME NEW u \in Threads, Reporting(u)'
          PROVE  /\ disk.incarnation = incarnation
                 /\ disk.outcome[Request(u)'] = thread'[u].answer
      <3>1. CASE Reporting(u)
        BY <1>a, <1>5, <2>1, <3>1 DEF SavedInv
      <3>2. CASE persist_clean_epoch = persist_epoch
        <4>1. OwnSuccess(u) /\ Request(u)' = Request(u)
                /\ thread'[u].answer = thread[u].answer
          BY <1>5, <2>1
        <4>2. /\ outcome[Request(u)] = thread[u].answer
              /\ thread[u].answer \in Success /\ persist_epoch > 0
          BY <1>a, <4>1 DEF OwnInv, OwnSuccess
        <4>3. Request(u) \in RequestIds
          BY <1>a, <4>1 DEF FrameInv, OwnSuccess, Request, RequestIds
        <4>4. disk.incarnation = incarnation /\ persist_epoch <= disk.at
          BY <1>a, <3>2, <4>2 DEF SavedInv
        <4>5. disk.at = persist_epoch /\ Taken(disk)
          BY <1>a, <4>4, Numbers DEF FileInv, Taken, Quiet
        <4> QED BY <4>1, <4>2, <4>3, <4>4, <4>5 DEF Taken
      <3> QED BY <1>5, <2>1, <3>1, <3>2
    <2> QED BY <1>a, <1>b, <1>4, <1>6, <2>1 DEF SavedInv, Durable
  <1>15. AcknowledgedInv'
    BY <1>a, <1>b, <1>3 DEF AcknowledgedInv
  <1> QED
    BY <1>7, <1>8, <1>9, <1>10, <1>12, <1>13, <1>14, <1>15 DEF SavingInvariant

\* The greater of two numbers is one of them.
LEMMA MaxOfTwo == \A a, b \in Nat : Max({a, b}) \in {a, b}
  <1> SUFFICES ASSUME NEW a \in Nat, NEW b \in Nat
               PROVE  Max({a, b}) \in {a, b}
    OBVIOUS
  <1>1. \E x \in {a, b} : \A y \in {a, b} : x >= y
    <2>1. CASE a >= b
      BY <2>1
    <2>2. CASE ~(a >= b)
      BY <2>2
    <2> QED BY <2>1, <2>2
  <1> QED BY <1>1, Zenon DEF Max

\* A thread of a process that is not there has no connection.
LEMMA Running ==
    ASSUME ProcessInv, NEW t \in Threads, thread[t].pc # "closed"
    PROVE  running # "no" /\ save_state # "lost" /\ epoch > 0
  BY DEF ProcessInv, Closed

\* The step of a thread keeps the frames, when the state it leaves the thread
\* in is one for its frame.
LEMMA FrameStep ==
    ASSUME FrameInv, NEW t \in Threads, NEW pc, NEW frame, NEW after,
           NEW target, NEW copy, NEW answer, NEW own, NEW shared,
           Becomes(t, pc, frame, after, target, copy, answer, own, shared),
           pc \notin {"closed", "open"} =>
               /\ frame \in Frames /\ after # "none"
               /\ pc = "commit" => after = "commit"
               /\ pc = "evaluate" \/ after = "commit" => frame \in PromotionFrames
               /\ pc \in {"register", "trust"} => frame \notin PromotionFrames
    PROVE  FrameInv'
  BY DEF FrameInv, Becomes, Resting

\* connect() keeps the invariant.
LEMMA ConnectStep ==
    ASSUME TypeOK, SavingInvariant, NEW c \in Clients, NEW t \in Threads,
           connect(c, t)
    PROVE  SavingInvariant'
  <1>1. FrameInv /\ SaverInv
    BY DEF SavingInvariant
  <1> DEFINE old == thread[t]
  <1>2. Becomes(t, "open", old.frame, old.after, old.target, old.copy,
                old.answer, old.own, old.shared)
    BY ConnectView
  <1>3. FrameInv'
    BY <1>1, <1>2, FrameStep
  <1>4. Quiet(t)
    BY <1>1, <1>2 DEF connect, Quiet, Becomes, Writing, OwnSuccess, Committing,
       PastSave, Reporting, Resting, SaverInv, persistVars
  <1> QED BY <1>3, <1>4, QuietStep

\* receive() keeps the invariant.
LEMMA ReceiveStep ==
    ASSUME TypeOK, SavingInvariant, NEW t \in Threads, NEW f \in Frames,
           receive(t, f)
    PROVE  SavingInvariant'
  <1>1. FrameInv /\ SaverInv
    BY DEF SavingInvariant
  <1>2. PICK pc \in {"evaluate", "register", "trust", "save"} :
              /\ Becomes(t, pc, f, "reply", 0, NoFile, "none", FALSE, FALSE)
              /\ pc = "evaluate" <=> f \in PromotionFrames
    BY ReceiveView
  <1>3. FrameInv'
    BY <1>1, <1>2, FrameStep
  <1>4. Quiet(t)
    <2>1. /\ running # "no" /\ thread[t].pc = "open"
          /\ UNCHANGED <<engineVars, persistVars, processVars, acknowledged>>
      BY DEF receive
    <2> QED BY <1>2, <2>1, Numbers DEF Quiet, Becomes, Writing, OwnSuccess,
               Committing, PastSave, Reporting, Resting, persistVars, processVars
  <1> QED BY <1>3, <1>4, QuietStep

\* A call that returns without a change keeps the invariant.
LEMMA ReturnStep ==
    ASSUME TypeOK, SavingInvariant, NEW t \in Threads,
           NEW answer \in Held \cup {"error"}, Return(t, answer),
           thread[t].pc \in {"evaluate", "commit", "register", "trust"}
    PROVE  SavingInvariant'
  <1>1. ProcessInv /\ FrameInv /\ SaverInv
    BY DEF SavingInvariant
  <1> DEFINE old == thread[t]
  <1>2. Becomes(t, "reply", old.frame, old.after, old.target, old.copy,
                answer, FALSE, old.shared)
    BY ReturnView
  <1>3. FrameInv'
    <2>1. /\ old.frame \in Frames /\ old.after # "none"
          /\ old.after = "commit" => old.frame \in PromotionFrames
      BY <1>1 DEF FrameInv, Resting
    <2> QED BY <1>1, <1>2, <2>1, FrameStep
  <1>4. running # "no"
    BY <1>1, Running
  <1>5. Quiet(t)
    BY <1>1, <1>2, <1>4 DEF Return, Quiet, Becomes, Writing, OwnSuccess, Committing,
       PastSave, Reporting, Resting, SaverInv, persistVars, processVars
  <1> QED BY <1>3, <1>5, QuietStep

\* notify_change() up to the listener keeps the invariant.
LEMMA NotifyStep ==
    ASSUME TypeOK, SavingInvariant, NEW t \in Threads, notify_change(t)
    PROVE  SavingInvariant'
  <1>1. ProcessInv /\ FrameInv /\ SaverInv
    BY DEF SavingInvariant
  <1> DEFINE old == thread[t]
  <1>2. /\ old.frame \in Frames /\ old.after \in {"commit", "reply"}
        /\ old.after = "commit" => old.frame \in PromotionFrames
    BY <1>1, Numbers DEF notify_change, FrameInv, Resting
  <1>3. running # "no"
    BY <1>1, Running DEF notify_change
  <1>4. CASE persist_clean_epoch = persist_epoch
    <2>1. Becomes(t, old.after, old.frame, old.after, old.target, old.copy,
                  old.answer, old.own, old.shared)
      BY <1>1, <1>4, SkipView
    <2>2. FrameInv'
      BY <1>1, <1>2, <2>1, FrameStep
    <2>3. Quiet(t)
      BY <1>1, <1>2, <1>3, <1>4, <2>1 DEF notify_change, Quiet, Becomes, Writing,
         OwnSuccess, Committing, PastSave, Reporting, Resting, Request, SaverInv,
         persistVars, processVars
    <2> QED BY <2>2, <2>3, QuietStep
  <1>5. CASE persist_clean_epoch # persist_epoch
    <2>1. Becomes(t, "listen", old.frame, old.after, persist_epoch, old.copy,
                  old.answer, old.own, old.shared)
      BY <1>5, ListenView
    <2>2. FrameInv'
      BY <1>1, <1>2, <2>1, FrameStep
    <2>3. Quiet(t)
      BY <1>1, <1>2, <1>3, <2>1, Numbers DEF notify_change, Quiet, Becomes, Writing,
         OwnSuccess, Committing, PastSave, Reporting, Resting, Request,
         persistVars, processVars
    <2> QED BY <2>2, <2>3, QuietStep
  <1> QED BY <1>4, <1>5

\* commit() up to the listener keeps the invariant.
LEMMA CommitSaveStep ==
    ASSUME TypeOK, SavingInvariant, NEW t \in Threads, commit_save(t)
    PROVE  SavingInvariant'
  <1>1. ProcessInv /\ FrameInv
    BY DEF SavingInvariant
  <1> DEFINE old == thread[t]
  <1>2. /\ old.frame \in Frames /\ old.after # "none"
        /\ old.after = "commit" => old.frame \in PromotionFrames
    BY <1>1 DEF commit_save, FrameInv, Resting
  <1>3. running # "no"
    BY <1>1, Running DEF commit_save
  <1>4. Becomes(t, "listen", old.frame, old.after, persist_epoch, old.copy,
                old.answer, old.own, TRUE)
    BY CommitSaveView
  <1>5. FrameInv'
    BY <1>1, <1>2, <1>4, FrameStep
  <1>6. Quiet(t)
    BY <1>3, <1>4, Numbers DEF commit_save, Quiet, Becomes, Writing,
       OwnSuccess, Committing, PastSave, Reporting, Resting, Request,
       persistVars, processVars
  <1> QED BY <1>5, <1>6, QuietStep

\* The end of notify_change() keeps the invariant.
LEMMA MarkStep ==
    ASSUME TypeOK, SavingInvariant, NEW t \in Threads, mark(t)
    PROVE  SavingInvariant'
  <1>1. ProcessInv /\ FrameInv
    BY DEF SavingInvariant
  <1> DEFINE old == thread[t]
  <1>2. /\ old.frame \in Frames /\ old.after \in {"commit", "reply"}
        /\ old.after = "commit" => old.frame \in PromotionFrames
    BY <1>1, Numbers DEF mark, Mark, FrameInv, Resting
  <1>3. running # "no"
    BY <1>1, Running DEF mark, Mark
  <1>4. Becomes(t, old.after, old.frame, old.after, 0, old.copy, old.answer,
                old.own, old.shared)
    BY <1>1, MarkView
  <1>5. FrameInv'
    BY <1>1, <1>2, <1>4, FrameStep
  <1>6. \/ UNCHANGED persist_clean_epoch
        \/ persist_clean_epoch' = thread[t].target
    BY MaxOfTwo, Numbers DEF mark, Mark
  <1>7. Quiet(t)
    BY <1>2, <1>3, <1>4, <1>6, Numbers DEF mark, Mark, Quiet, Becomes, Writing,
       OwnSuccess, Committing, PastSave, Reporting, Resting, Request,
       persistVars, processVars
  <1> QED BY <1>5, <1>7, QuietStep

\* The comparison at the end of commit() keeps the invariant.
LEMMA MarkCompareStep ==
    ASSUME TypeOK, SavingInvariant, NEW t \in Threads, mark_compare(t)
    PROVE  SavingInvariant'
  <1>1. ProcessInv /\ FrameInv /\ SaverInv
    BY DEF SavingInvariant
  <1> DEFINE old == thread[t]
  <1>2. /\ old.frame \in Frames /\ old.after # "none"
        /\ old.after = "commit" => old.frame \in PromotionFrames
    BY <1>1 DEF mark_compare, FrameInv, Resting
  <1>3. running # "no"
    BY <1>1, Running DEF mark_compare
  <1>4. CASE thread[t].target > persist_clean_epoch
    <2>1. Becomes(t, "mark_store", old.frame, old.after, old.target, old.copy,
                  old.answer, old.own, old.shared)
      BY <1>4, StoreView
    <2>2. FrameInv'
      BY <1>1, <1>2, <2>1, FrameStep
    <2>3. Quiet(t)
      BY <1>1, <1>3, <2>1 DEF mark_compare, Quiet, Becomes, Writing,
         OwnSuccess, Committing, PastSave, Reporting, Resting, Request, SaverInv,
         persistVars, processVars
    <2> QED BY <2>2, <2>3, QuietStep
  <1>5. CASE ~(thread[t].target > persist_clean_epoch)
    <2>1. Becomes(t, "notify", old.frame, old.after, 0, old.copy,
                  old.answer, old.own, FALSE)
      BY <1>5, LeaveView
    <2>2. FrameInv'
      BY <1>1, <1>2, <2>1, FrameStep
    <2>3. Quiet(t)
      BY <1>3, <2>1, Numbers DEF mark_compare, Quiet, Becomes, Writing,
         OwnSuccess, Committing, PastSave, Reporting, Resting, Request,
         persistVars, processVars
    <2> QED BY <2>2, <2>3, QuietStep
  <1> QED BY <1>4, <1>5

\* The store at the end of commit() keeps the invariant.
LEMMA MarkStoreStep ==
    ASSUME TypeOK, SavingInvariant, NEW t \in Threads, mark_store(t)
    PROVE  SavingInvariant'
  <1>1. ProcessInv /\ FrameInv
    BY DEF SavingInvariant
  <1> DEFINE old == thread[t]
  <1>2. /\ old.frame \in Frames /\ old.after # "none"
        /\ old.after = "commit" => old.frame \in PromotionFrames
    BY <1>1 DEF mark_store, StoreClean, FrameInv, Resting
  <1>3. running # "no"
    BY <1>1, Running DEF mark_store, StoreClean
  <1>4. Becomes(t, "notify", old.frame, old.after, 0, old.copy, old.answer,
                old.own, FALSE)
    BY StoredView
  <1>5. FrameInv'
    BY <1>1, <1>2, <1>4, FrameStep
  <1>6. Quiet(t)
    BY <1>3, <1>4, Numbers DEF mark_store, StoreClean, Quiet, Becomes, Writing,
       OwnSuccess, Committing, PastSave, Reporting, Resting, Request,
       persistVars, processVars
  <1> QED BY <1>5, <1>6, QuietStep

-----------------------------------------------------------------------------
(* Changes.                                                                *)

\* What a thread that reports a change of its own reports is not touched when
\* the request of t comes to hold what is given, nor is what was acknowledged.
Respects(t, held) ==
    /\ \A u \in Threads \ {t} :
          OwnSuccess(u) /\ Request(u) = Request(t) =>
              thread[u].answer = held /\ held # "planned"
    /\ \A a \in acknowledged :
          a.own /\ a.request = Request(t) => a.answer = held /\ held # "planned"

\* A change that respects the others keeps the invariant.
LEMMA RecordStep ==
    ASSUME TypeOK, SavingInvariant, NEW t \in Threads, NEW held \in Held,
           NEW pc \in {"notify", "reply", "commit_save"},
           NEW after \in {"commit", "reply"}, Record(t, held, pc, after),
           thread[t].pc \in {"evaluate", "commit", "register", "trust"},
           \/ persist_epoch' = persist_epoch + 1
           \/ persist_epoch' = persist_epoch /\ held \notin Success,
           Respects(t, held),
           held # "none",
           pc = "reply" => held \notin Success,
           held \in {"planned", "committed"} => Request(t) \in PromotionRequests,
           after = "commit" => held = "planned" /\ thread[t].frame \in PromotionFrames
    PROVE  SavingInvariant'
  <1>a. /\ ProcessInv /\ FrameInv /\ SaverInv /\ PlannedInv /\ OwnInv
        /\ CopyInv /\ FileInv /\ SavedInv /\ AcknowledgedInv
    BY DEF SavingInvariant
  <1>b. /\ UNCHANGED <<running, incarnation, coordinator, epoch, saver, disk,
                       persist_clean_epoch, save_state, acknowledged>>
        /\ outcome' = [outcome EXCEPT ![Request(t)] = held]
    BY DEF Record, processVars
  <1>c. running # "no"
    BY <1>a, Running
  <1>d. thread[t].frame \in Frames /\ Request(t) \in RequestIds
    BY <1>a DEF FrameInv, Resting, Request, RequestIds
  <1> DEFINE old == thread[t]
  <1>e. Becomes(t, pc, old.frame, after, old.target, old.copy, held, TRUE,
                old.shared)
    BY RecordView
  <1>f. persist_epoch \in Nat /\ persist_epoch' \in Nat
          /\ persist_epoch <= persist_epoch'
          /\ (held \in Success => persist_epoch' > 0)
    BY Numbers
  <1>g. /\ outcome'[Request(t)] = held
        /\ \A r \in RequestIds \ {Request(t)} : outcome'[r] = outcome[r]
    BY <1>b, <1>d DEF TypeOK
  <1>1. \A u \in Threads : Request(u)' = Request(u)
    BY <1>e DEF Becomes, Request
  <1>2. \A u \in Threads :
           /\ Writing(u)' <=> Writing(u)
           /\ Writing(u) => u # t /\ thread'[u] = thread[u]
    BY <1>e DEF Becomes, Writing
  <1>3. \A u \in Threads \ {t} : OwnSuccess(u)' <=> OwnSuccess(u)
    BY <1>e DEF Becomes, OwnSuccess, Resting
  <1>4. OwnSuccess(t)' <=> held \in Success
    BY <1>e DEF Becomes, OwnSuccess, Resting
  <1>5. \A u \in Threads :
           Committing(u)' =>
              IF u = t THEN after = "commit" ELSE Committing(u)
    BY <1>e DEF Becomes, Committing, Resting
  <1>6. \A u \in Threads : PastSave(u)' => u # t /\ PastSave(u)
    BY <1>e DEF Becomes, PastSave
  <1>7. \A u \in Threads : Reporting(u)' => u # t /\ Reporting(u)
    BY <1>e DEF Becomes, Reporting, OwnSuccess, PastSave, Resting
  <1>8. \A u \in Threads \ {t} : thread'[u] = thread[u]
    BY <1>e DEF Becomes
  <1>9. thread'[t].answer = held /\ thread'[t].own = TRUE
          /\ thread'[t].target = thread[t].target
    BY <1>e DEF Becomes
  <1>10. ProcessInv'
    BY <1>a, <1>b, <1>c DEF ProcessInv
  <1>11. FrameInv'
    BY <1>a, <1>d, <1>e, FrameStep
  <1>12. SaverInv'
    <2>1. persist_clean_epoch' <= persist_epoch'
      BY <1>a, <1>b, <1>f, Numbers DEF SaverInv
    <2>2. \A u \in Threads : thread'[u].target <= persist_epoch'
      BY <1>a, <1>8, <1>9, <1>f, Numbers DEF SaverInv
    <2> QED BY <1>a, <1>b, <1>2, <2>1, <2>2 DEF SaverInv
  <1>13. PlannedInv'
    BY <1>a, <1>b, <1>g, <1>2 DEF PlannedInv, Planned
  <1>14. OwnInv'
    <2>1. ASSUME NEW u \in Threads, OwnSuccess(u)'
          PROVE  outcome'[Request(u)] = thread'[u].answer /\ persist_epoch' > 0
      <3>1. CASE u = t
        BY <1>4, <1>9, <1>f, <1>g, <2>1, <3>1
      <3>2. CASE u # t
        <4>1. OwnSuccess(u) /\ thread'[u].answer = thread[u].answer
          BY <1>3, <1>8, <2>1, <3>2
        <4>2. outcome[Request(u)] = thread[u].answer /\ persist_epoch > 0
          BY <1>a, <4>1 DEF OwnInv
        <4>3. Request(u) \in RequestIds
          BY <1>a, <4>1 DEF OwnSuccess, FrameInv, Request, RequestIds
        <4> QED BY <1>f, <1>g, <3>2, <4>1, <4>2, <4>3 DEF Respects
      <3> QED BY <3>1, <3>2
    <2>2. ASSUME NEW u \in Threads, Committing(u)'
          PROVE  thread'[u].own /\ thread'[u].answer = "planned"
      BY <1>a, <1>5, <1>8, <1>9, <2>2 DEF OwnInv
    <2>3. ASSUME NEW u \in Threads, NEW v \in Threads,
                 OwnSuccess(u)', OwnSuccess(v)', Request(u) = Request(v),
                 thread'[u].answer = "planned", thread'[v].answer = "planned"
          PROVE  u = v
      BY <1>a, <1>3, <1>4, <1>8, <1>9, <2>3 DEF OwnInv, Respects
    <2> QED BY <1>1, <2>1, <2>2, <2>3 DEF OwnInv
  <1>15. \A s : s.at \in Nat /\ Taken(s) => Taken(s)'
    <2> SUFFICES ASSUME NEW s, s.at \in Nat, Taken(s)
                 PROVE  Taken(s)'
      OBVIOUS
    <2>1. s.at <= persist_epoch'
      BY <1>f DEF Taken
    <2>2. ASSUME s.at = persist_epoch', NEW r \in RequestIds,
                 outcome'[r] \in Success
          PROVE  s.outcome[r] = outcome'[r]
      <3>1. s.at = persist_epoch /\ held \notin Success
        BY <1>f, <2>2 DEF Taken
      <3> QED BY <1>g, <2>2, <3>1 DEF Taken
    <2>3. \A r \in RequestIds : s.outcome[r] # "none" => outcome'[r] # "none"
      BY <1>g DEF Taken
    <2> QED BY <1>b, <2>1, <2>2, <2>3 DEF Taken
  <1>16. CopyInv'
    <2> SUFFICES ASSUME NEW u \in Threads, Writing(u)'
                 PROVE  Carries(u, thread[u].copy)'
      BY DEF CopyInv
    <2>1. Writing(u) /\ u # t /\ thread'[u] = thread[u]
      BY <1>2
    <2>2. Carries(u, thread[u].copy)
      BY <1>a, <2>1 DEF CopyInv
    <2>3. Taken(thread[u].copy)'
      BY <1>15, <2>1, <2>2, Numbers DEF Carries, Fresh
    <2>4. Fresh(thread[u].copy)'
      BY <1>b, <1>1, <1>6, <1>7, <1>8, <2>1, <2>2, <2>3 DEF Carries, Fresh
    <2> QED BY <1>1, <1>3, <2>1, <2>2, <2>4 DEF Carries
  <1>17. FileInv'
    <2>1. disk.incarnation = incarnation => Taken(disk)'
      BY <1>a, <1>b, <1>c, <1>15, Numbers DEF FileInv
    <2> QED BY <1>a, <1>b, <1>g, <2>1 DEF FileInv
  <1>18. SavedInv'
    BY <1>a, <1>b, <1>1, <1>6, <1>7, <1>8 DEF SavedInv, Durable
  <1>19. AcknowledgedInv'
    <2> SUFFICES ASSUME NEW a \in acknowledged, a.own
                 PROVE  /\ outcome'[a.request] = a.answer
                        /\ \A u \in Threads :
                              Committing(u)' => Request(u) # a.request
      BY <1>a, <1>b, <1>c, <1>1 DEF AcknowledgedInv
    <2>1. a.request \in RequestIds
      BY <1>a DEF ProcessInv, Acknowledgement
    <2>2. outcome'[a.request] = a.answer
      BY <1>a, <1>c, <1>g, <2>1 DEF AcknowledgedInv, Respects
    <2>3. \A u \in Threads : Committing(u)' => Request(u) # a.request
      BY <1>a, <1>c, <1>5 DEF AcknowledgedInv, Respects
    <2> QED BY <2>2, <2>3
  <1> QED
    BY <1>10, <1>11, <1>12, <1>13, <1>14, <1>16, <1>17, <1>18, <1>19
    DEF SavingInvariant

\* What a thread serves, and what the engine holds of its request.
LEMMA Served ==
    ASSUME TypeOK, FrameInv, NEW t \in Threads, ~Resting(t)
    PROVE  /\ thread[t].frame \in Frames /\ Request(t) \in RequestIds
           /\ outcome[Request(t)] \in Held
           /\ thread[t].frame \in PromotionFrames <=> Request(t) \in PromotionRequests
  <1>1. thread[t].frame \in Frames /\ Request(t) \in RequestIds
    BY DEF FrameInv, Request, RequestIds
  <1>2. Request(t) \in PromotionRequests => thread[t].frame \in PromotionFrames
    BY <1>1, ServerAssumption DEF PromotionRequests, PromotionFrames, Request
  <1>3. thread[t].frame \in PromotionFrames => Request(t) \in PromotionRequests
    BY DEF PromotionRequests, Request
  <1> QED BY <1>1, <1>2, <1>3 DEF TypeOK

\* evaluate() keeps the invariant: it changes a request that nobody reports.
LEMMA EvaluateStep ==
    ASSUME TypeOK, SavingInvariant, NEW t \in Threads, evaluate(t)
    PROVE  SavingInvariant'
  <1>1. ProcessInv /\ FrameInv /\ OwnInv /\ AcknowledgedInv
    BY DEF SavingInvariant
  <1>2. thread[t].pc = "evaluate" /\ running # "no"
    BY <1>1, Running DEF evaluate
  <1>3. /\ thread[t].frame \in PromotionFrames
        /\ Request(t) \in PromotionRequests /\ outcome[Request(t)] \in Held
    BY <1>1, <1>2, Served DEF FrameInv, Resting
  <1>4. CASE running = "stopping" \/ outcome[Request(t)] \notin Unanswered
    <2>1. PICK answer \in Held \cup {"error"} : Return(t, answer)
      BY <1>3, <1>4 DEF evaluate
    <2> QED BY <1>2, <2>1, ReturnStep
  <1>5. CASE running # "stopping" /\ outcome[Request(t)] \in Unanswered
    <2>1. outcome[Request(t)] \notin Success
      BY <1>5 DEF Unanswered, Success
    <2>2. \A held : Respects(t, held)
      <3>1. \A u \in Threads : OwnSuccess(u) => Request(u) # Request(t)
        BY <1>1, <2>1 DEF OwnInv, OwnSuccess
      <3>2. \A a \in acknowledged : a.own => a.request # Request(t)
        BY <1>1, <1>2, <2>1 DEF AcknowledgedInv, ProcessInv, Acknowledgement
      <3> QED BY <3>1, <3>2 DEF Respects
    <2>3. \/ Change(t, "planned", "notify", IF thread[t].frame.kind = "Promotion"
                                            THEN "commit" ELSE "reply")
          \/ \E h \in {"refused", "unknown"} : Change(t, h, "notify", "reply")
      BY <1>5 DEF evaluate
    <2>4. ASSUME NEW after \in {"commit", "reply"},
                 Change(t, "planned", "notify", after)
          PROVE  SavingInvariant'
      <3>1. /\ Record(t, "planned", "notify", after)
            /\ persist_epoch' = persist_epoch + 1
        BY <2>4 DEF Change
      <3> QED BY <1>2, <1>3, <2>2, <3>1, RecordStep DEF Held, Success
    <2>5. ASSUME NEW h \in {"refused", "unknown"}, Change(t, h, "notify", "reply")
          PROVE  SavingInvariant'
      <3>1. /\ Record(t, h, "notify", "reply")
            /\ persist_epoch' = persist_epoch + 1
        BY <2>5 DEF Change
      <3> QED BY <1>2, <1>3, <2>2, <3>1, RecordStep DEF Held, Unanswered
    <2> QED BY <2>3, <2>4, <2>5
  <1> QED BY <1>4, <1>5

\* commit() under state_mutex_ keeps the invariant: the thread that planned a
\* request is the only one that reports it.
LEMMA CommitStep ==
    ASSUME TypeOK, SavingInvariant, NEW t \in Threads, commit(t)
    PROVE  SavingInvariant'
  <1>1. ProcessInv /\ FrameInv /\ OwnInv /\ AcknowledgedInv
    BY DEF SavingInvariant
  <1>2. thread[t].pc = "commit" /\ running # "no"
    BY <1>1, Running DEF commit
  <1>3. thread[t].frame \in PromotionFrames /\ Request(t) \in PromotionRequests
    BY <1>1, <1>2, Served DEF FrameInv, Resting
  <1>4. Committing(t)
    BY <1>1, <1>2 DEF FrameInv, Resting, Committing
  <1>5. OwnSuccess(t) /\ thread[t].answer = "planned"
    BY <1>1, <1>4 DEF OwnInv, OwnSuccess, Committing, Success
  <1>6. \A held : Respects(t, held)
    <2>1. \A u \in Threads \ {t} : OwnSuccess(u) => Request(u) # Request(t)
      BY <1>1, <1>5 DEF OwnInv
    <2>2. \A a \in acknowledged : a.own => a.request # Request(t)
      BY <1>1, <1>2, <1>4 DEF AcknowledgedInv
    <2> QED BY <2>1, <2>2 DEF Respects
  <1>7. CASE Return(t, "error")
    BY <1>2, <1>7, ReturnStep
  <1>8. ASSUME Change(t, "committed", "commit_save", "reply")
        PROVE  SavingInvariant'
    <2>1. /\ Record(t, "committed", "commit_save", "reply")
          /\ persist_epoch' = persist_epoch + 1
      BY <1>8 DEF Change
    <2> QED BY <1>2, <1>3, <1>6, <2>1, RecordStep DEF Held, Success
  <1>9. ASSUME Record(t, "refused", "reply", "reply"),
               \/ persist_epoch' = persist_epoch + 1
               \/ persist_epoch' = persist_epoch
        PROVE  SavingInvariant'
    BY <1>2, <1>3, <1>6, <1>9, RecordStep DEF Held, Success
  <1> QED BY <1>7, <1>8, <1>9 DEF commit, Change

\* What is held of a request that is not one of a promotion can only be "done"
\* where it is reported.
LEMMA ReportedDone ==
    ASSUME TypeOK, SavingInvariant, NEW t \in Threads,
           thread[t].pc \in {"register", "trust"}
    PROVE  /\ running # "no" /\ Request(t) \in RequestIds
           /\ thread[t].frame \notin PromotionFrames
           /\ \A u \in Threads :
                 OwnSuccess(u) /\ Request(u) = Request(t) =>
                    thread[u].answer = "done" /\ outcome[Request(t)] = "done"
           /\ \A a \in acknowledged :
                 a.own /\ a.request = Request(t) =>
                    a.answer = "done" /\ outcome[Request(t)] = "done"
  <1>1. ProcessInv /\ FrameInv /\ OwnInv /\ PlannedInv /\ AcknowledgedInv
    BY DEF SavingInvariant
  <1>2. running # "no"
    BY <1>1, Running
  <1>3. /\ Request(t) \in RequestIds /\ Request(t) \notin PromotionRequests
        /\ thread[t].frame \notin PromotionFrames
    BY <1>1, Served DEF FrameInv, Resting
  <1>4. outcome[Request(t)] \in Success => outcome[Request(t)] = "done"
    BY <1>1, <1>3 DEF PlannedInv, Planned, Success
  <1>5. \A u \in Threads :
           OwnSuccess(u) /\ Request(u) = Request(t) =>
              thread[u].answer = "done" /\ outcome[Request(t)] = "done"
    BY <1>1, <1>4 DEF OwnInv, OwnSuccess
  <1>6. \A a \in acknowledged :
           a.own /\ a.request = Request(t) =>
              a.answer = "done" /\ outcome[Request(t)] = "done"
    BY <1>1, <1>2, <1>4 DEF AcknowledgedInv, ProcessInv, Acknowledgement
  <1> QED BY <1>2, <1>3, <1>5, <1>6

\* register_artifact() and submit_evidence() keep the invariant.
LEMMA RegisterStep ==
    ASSUME TypeOK, SavingInvariant, NEW t \in Threads, register(t)
    PROVE  SavingInvariant'
  <1>1. thread[t].pc = "register"
    BY DEF register
  <1>2. CASE Return(t, "error")
    BY <1>1, <1>2, ReturnStep
  <1>3. CASE Change(t, "done", "notify", "reply")
    <2>1. Record(t, "done", "notify", "reply") /\ persist_epoch' = persist_epoch + 1
      BY <1>3 DEF Change
    <2>2. Respects(t, "done")
      BY <1>1, ReportedDone DEF Respects
    <2> QED BY <1>1, <2>1, <2>2, RecordStep DEF Held, Success
  <1> QED BY <1>2, <1>3 DEF register

\* Operations on trust keep the invariant.
LEMMA TrustStep ==
    ASSUME TypeOK, SavingInvariant, NEW t \in Threads, trust(t)
    PROVE  SavingInvariant'
  <1>1. thread[t].pc = "trust"
    BY DEF trust
  <1>2. ASSUME NEW answer \in {"error", "done"}, Return(t, answer)
        PROVE  SavingInvariant'
    BY <1>1, <1>2, ReturnStep DEF Held, Success
  <1>3. ASSUME outcome[Request(t)] # "done", NEW h \in {"done", "refused"},
               Change(t, h, "notify", "reply")
        PROVE  SavingInvariant'
    <2>1. Record(t, h, "notify", "reply") /\ persist_epoch' = persist_epoch + 1
      BY <1>3 DEF Change
    <2>2. Respects(t, h)
      BY <1>1, <1>3, ReportedDone DEF Respects
    <2> QED BY <1>1, <2>1, <2>2, RecordStep DEF Held, Success
  <1> QED BY <1>2, <1>3 DEF trust

-----------------------------------------------------------------------------
(* Saves and answers.                                                      *)

\* A snapshot of the memory may replace the file.
LEMMA SnapshotIsFresh ==
    ASSUME TypeOK, SavingInvariant, running # "no"
    PROVE  Fresh(snapshot) /\ Planned(snapshot.outcome)
  <1>1. SaverInv /\ PlannedInv /\ OwnInv /\ FileInv /\ AcknowledgedInv
    BY DEF SavingInvariant
  <1>2. /\ snapshot.coordinator = coordinator /\ snapshot.epoch = epoch
        /\ snapshot.outcome = outcome /\ snapshot.incarnation = incarnation
        /\ snapshot.at = persist_epoch
    BY DEF snapshot
  <1>3. Taken(snapshot)
    BY <1>2, Numbers DEF Taken
  <1>4. disk.incarnation = incarnation => disk.at <= snapshot.at
    BY <1>1, <1>2 DEF FileInv, Taken
  <1>5. \A u \in Threads :
           Reporting(u) => snapshot.outcome[Request(u)] = thread[u].answer
    BY <1>1, <1>2 DEF OwnInv, Reporting
  <1>6. \A a \in acknowledged : a.own => snapshot.outcome[a.request] = a.answer
    BY <1>1, <1>2 DEF AcknowledgedInv
  <1>7. Fresh(snapshot)
    BY <1>1, <1>2, <1>3, <1>4, <1>5, <1>6 DEF Fresh, SaverInv, FileInv
  <1> QED BY <1>1, <1>2, <1>7 DEF PlannedInv

\* The snapshot of a save keeps the invariant.
LEMMA PersistNowStep ==
    ASSUME TypeOK, SavingInvariant, NEW t \in Threads, persist_now(t)
    PROVE  SavingInvariant'
  <1>a. /\ ProcessInv /\ FrameInv /\ SaverInv /\ PlannedInv /\ OwnInv
        /\ CopyInv /\ FileInv /\ SavedInv /\ AcknowledgedInv
    BY DEF SavingInvariant
  <1>b. /\ UNCHANGED <<running, incarnation, coordinator, epoch, outcome,
                       persist_epoch, persist_clean_epoch, disk, save_state,
                       acknowledged>>
        /\ saver = {} /\ saver' = saver \cup {t}
        /\ thread[t].pc \in {"listen", "save"}
    BY DEF persist_now, TakeSnapshot, engineVars, processVars
  <1>c. running # "no"
    BY <1>a, <1>b, Running
  <1> DEFINE old == thread[t]
  <1>d. Becomes(t, "write", old.frame, old.after, old.target, snapshot,
                old.answer, old.own, old.shared)
    BY TakeSnapshotView DEF persist_now
  <1>1. \A u \in Threads : ~Writing(u) /\ (Writing(u)' <=> u = t)
    BY <1>a, <1>b, <1>d DEF SaverInv, Becomes, Writing
  <1>2. \A u \in Threads :
           /\ Request(u)' = Request(u) /\ thread'[u].answer = thread[u].answer
           /\ thread'[u].target = thread[u].target /\ thread'[u].own = thread[u].own
           /\ OwnSuccess(u)' <=> OwnSuccess(u)
    BY <1>b, <1>d DEF Becomes, Request, OwnSuccess, Resting
  <1>3. \A u \in Threads : Committing(u)' => Committing(u)
    BY <1>b, <1>d DEF Becomes, Committing, Resting
  <1>4. \A u \in Threads :
           /\ PastSave(u)' => PastSave(u)
           /\ Reporting(u)' => Reporting(u)
    BY <1>b, <1>d DEF Becomes, PastSave, Reporting, OwnSuccess, Resting
  <1>5. thread'[t].copy = snapshot
    BY <1>d DEF Becomes
  <1>6. Fresh(snapshot) /\ Planned(snapshot.outcome)
    BY <1>c, SnapshotIsFresh
  <1>7. ProcessInv'
    BY <1>a, <1>b, <1>c DEF ProcessInv
  <1>8. FrameInv'
    <2>1. /\ old.frame \in Frames /\ old.after # "none"
          /\ old.after = "commit" => old.frame \in PromotionFrames
      BY <1>a, <1>b DEF FrameInv, Resting
    <2> QED BY <1>a, <1>d, <2>1, FrameStep
  <1>9. SaverInv'
    BY <1>a, <1>b, <1>1, <1>2 DEF SaverInv
  <1>10. PlannedInv'
    BY <1>a, <1>b, <1>1, <1>5, <1>6 DEF PlannedInv, Planned
  <1>11. OwnInv'
    BY <1>a, <1>b, <1>2, <1>3 DEF OwnInv
  <1>12. CopyInv'
    <2>1. \A s : Fresh(s) => Fresh(s)'
      BY <1>b, <1>2, <1>4 DEF Fresh, Taken
    <2>2. Fresh(thread[t].copy)'
      BY <1>5, <1>6, <2>1
    <2>3. thread'[t].target <= thread'[t].copy.at
      BY <1>a, <1>2, <1>5 DEF SaverInv, snapshot
    <2>4. OwnSuccess(t)' => thread'[t].copy.outcome[Request(t)'] = thread'[t].answer
      BY <1>a, <1>2, <1>5 DEF OwnInv, snapshot
    <2> QED BY <1>1, <2>2, <2>3, <2>4 DEF CopyInv, Carries
  <1>13. FileInv'
    BY <1>a, <1>b DEF FileInv, Taken
  <1>14. SavedInv'
    BY <1>a, <1>b, <1>2, <1>4 DEF SavedInv, Durable
  <1>15. AcknowledgedInv'
    BY <1>a, <1>b, <1>2, <1>3 DEF AcknowledgedInv
  <1> QED
    BY <1>7, <1>8, <1>9, <1>10, <1>11, <1>12, <1>13, <1>14, <1>15
    DEF SavingInvariant

\* The end of a save keeps the invariant.
LEMMA SaveStep ==
    ASSUME TypeOK, SavingInvariant, NEW t \in Threads, NEW succeeds \in BOOLEAN,
           SaveEnds(t, succeeds)
    PROVE  SavingInvariant'
  <1>a. /\ ProcessInv /\ FrameInv /\ SaverInv /\ PlannedInv /\ OwnInv
        /\ CopyInv /\ FileInv /\ SavedInv /\ AcknowledgedInv
    BY DEF SavingInvariant
  <1>b. /\ UNCHANGED <<running, incarnation, coordinator, epoch, outcome,
                       persist_epoch, persist_clean_epoch, acknowledged>>
        /\ saver' = saver \ {t} /\ thread[t].pc = "write"
        /\ disk' = IF succeeds THEN thread[t].copy ELSE disk
    BY DEF SaveEnds, atomic_write_file, engineVars, processVars
  <1>c. running # "no" /\ save_state # "lost" /\ epoch > 0
    BY <1>a, <1>b, Running
  <1>d. save_state' = IF succeeds THEN "saved" ELSE "failed"
    BY <1>c DEF SaveEnds, atomic_write_file
  <1> DEFINE old == thread[t]
             s == thread[t].copy
  <1>e. \/ Becomes(t, "reply", old.frame, old.after, old.target, NoFile,
                   IF succeeds THEN "saved" ELSE "error", old.own, old.shared)
        \/ Becomes(t, "mark", old.frame, old.after, old.target, NoFile,
                   old.answer, old.own, old.shared)
    BY SaveFrameView, SaveView
  <1>f. Writing(t) /\ Carries(t, s) /\ s \in Snapshot
    <2>1. thread[t] \in ThreadState
      BY DEF TypeOK
    <2> QED BY <1>a, <1>b, <2>1 DEF CopyInv, Writing, ThreadState
  <1>1. \A u \in Threads : (Writing(u) <=> u = t) /\ ~Writing(u)'
    <2>1. \A u \in Threads : Writing(u) <=> u = t
      BY <1>a, <1>f DEF SaverInv
    <2>2. ~Writing(t)'
      BY <1>e DEF Becomes, Writing
    <2>3. \A u \in Threads \ {t} : Writing(u)' <=> Writing(u)
      BY <1>e DEF Becomes, Writing
    <2> QED BY <2>1, <2>2, <2>3
  <1>2. \A u \in Threads :
           /\ Request(u)' = Request(u)
           /\ thread'[u].target = thread[u].target
           /\ OwnSuccess(u)' =>
                 OwnSuccess(u) /\ thread'[u].answer = thread[u].answer
    <2>1. "saved" \notin Success /\ "error" \notin Success
      BY DEF Success
    <2> QED BY <1>b, <1>e, <2>1 DEF Becomes, Request, OwnSuccess, Resting
  <1>3. \A u \in Threads :
           Committing(u)' => /\ Committing(u) /\ thread'[u].own = thread[u].own
                             /\ thread'[u].answer = thread[u].answer
    BY <1>b, <1>e DEF Becomes, Committing, Resting
  <1>4. \A u \in Threads :
           /\ PastSave(u)' => PastSave(u) \/ u = t
           /\ Reporting(u)' => /\ OwnSuccess(u) /\ (Reporting(u) \/ u = t)
                               /\ thread'[u].answer = thread[u].answer
    <2>1. \A u \in Threads \ {t} :
             /\ PastSave(u)' => PastSave(u)
             /\ Reporting(u)' => Reporting(u)
      BY <1>e DEF Becomes, PastSave, Reporting, OwnSuccess, Resting
    <2> QED BY <1>2, <2>1 DEF Reporting
  <1>5. ProcessInv'
    <2>1. CASE succeeds
      <3>1. disk' = s /\ s.incarnation = incarnation /\ s.coordinator = coordinator
              /\ s.epoch = epoch
        BY <1>b, <1>f, <2>1 DEF Carries, Fresh, Taken
      <3>2. /\ incarnation \in 0 .. incarnation
            /\ coordinator \in 0 .. incarnation /\ epoch \in 0 .. incarnation
        BY Numbers DEF TypeOK
      <3> QED BY <1>a, <1>b, <1>c, <1>d, <2>1, <3>1, <3>2 DEF ProcessInv
    <2>2. CASE ~succeeds
      BY <1>a, <1>b, <1>c, <1>d, <2>2 DEF ProcessInv
    <2> QED BY <2>1, <2>2
  <1>6. FrameInv'
    <2>1. /\ old.frame \in Frames /\ old.after # "none"
          /\ old.after = "commit" => old.frame \in PromotionFrames
      BY <1>a, <1>b DEF FrameInv, Resting
    <2> QED BY <1>a, <1>e, <2>1, FrameStep
  <1>7. SaverInv'
    BY <1>a, <1>b, <1>1, <1>2 DEF SaverInv
  <1>8. PlannedInv'
    BY <1>a, <1>b, <1>f, <1>1 DEF PlannedInv, Planned
  <1>9. OwnInv'
    BY <1>a, <1>b, <1>2, <1>3 DEF OwnInv
  <1>10. CopyInv'
    BY <1>1 DEF CopyInv
  <1>11. FileInv'
    <2>1. CASE succeeds
      <3>1. disk' = s /\ Taken(s)
        BY <1>b, <1>f, <2>1 DEF Carries, Fresh
      <3> QED BY <1>b, <3>1, Numbers DEF FileInv, Taken
    <2>2. CASE ~succeeds
      BY <1>a, <1>b, <2>2 DEF FileInv, Taken
    <2> QED BY <2>1, <2>2
  <1>12. SavedInv'
    <2> SUFFICES ASSUME succeeds
                 PROVE  SavedInv'
      BY <1>d DEF SavedInv
    <2>1. disk' = s /\ s.incarnation = incarnation /\ s.coordinator = coordinator
            /\ s.epoch = epoch
      BY <1>b, <1>f DEF Carries, Fresh, Taken
    <2>2. persist_clean_epoch' <= s.at
      BY <1>b, <1>f DEF Carries, Fresh
    <2>3. \A u \in Threads : PastSave(u)' => thread'[u].target <= s.at
      BY <1>f, <1>2, <1>4 DEF Carries, Fresh
    <2>4. \A u \in Threads :
             Reporting(u)' => s.outcome[Request(u)'] = thread'[u].answer
      BY <1>f, <1>2, <1>4 DEF Carries, Fresh
    <2>5. \A a \in acknowledged : a.own =>
             /\ s.outcome[a.request] = a.answer
             /\ s.coordinator = a.coordinator /\ a.epoch <= s.epoch
      <3>1. ASSUME NEW a \in acknowledged, a.own
            PROVE  a.coordinator = coordinator /\ a.epoch <= epoch
        <4>1. a.epoch \in Nat /\ epoch \in Nat
          BY <1>a, Numbers DEF ProcessInv, Acknowledgement
        <4> QED BY <1>a, <1>c, <3>1, <4>1 DEF AcknowledgedInv
      <3> QED BY <1>f, <2>1, <3>1 DEF Carries, Fresh
    <2> QED BY <1>b, <2>1, <2>2, <2>3, <2>4, <2>5 DEF SavedInv, Durable
  <1>13. AcknowledgedInv'
    BY <1>a, <1>b, <1>2, <1>3 DEF AcknowledgedInv
  <1> QED
    BY <1>5, <1>6, <1>7, <1>8, <1>9, <1>10, <1>11, <1>12, <1>13
    DEF SavingInvariant

\* An answer keeps the invariant: a change that is reported is in the file, while
\* saves succeed.
LEMMA ReplyStep ==
    ASSUME TypeOK, SavingInvariant, NEW t \in Threads, reply(t)
    PROVE  SavingInvariant'
  <1>a. /\ ProcessInv /\ FrameInv /\ SaverInv /\ PlannedInv /\ OwnInv
        /\ CopyInv /\ FileInv /\ SavedInv /\ AcknowledgedInv
    BY DEF SavingInvariant
  <1> DEFINE ack == [request |-> Request(t), answer |-> thread[t].answer,
                     own |-> thread[t].own, incarnation |-> incarnation,
                     coordinator |-> coordinator, epoch |-> epoch]
  <1>b. /\ UNCHANGED <<running, incarnation, coordinator, epoch, outcome, saver,
                       persist_epoch, persist_clean_epoch, disk, save_state>>
        /\ thread[t].pc = "reply"
    BY DEF reply, engineVars, persistVars, processVars
  <1>c. \A a \in acknowledged' :
           \/ a \in acknowledged
           \/ a = ack /\ thread[t].answer \in Success
    BY DEF reply
  <1>d. running # "no"
    BY <1>a, <1>b, Running
  <1>e. PICK pc \in {"closed", "open"} :
           Becomes(t, pc, Closed.frame, "none", 0, NoFile, "none", FALSE, FALSE)
    BY ReplyView
  <1>1. \A u \in Threads :
           /\ Writing(u)' => u # t /\ Writing(u)
           /\ u # t /\ Writing(u) => Writing(u)'
           /\ OwnSuccess(u)' => u # t /\ OwnSuccess(u)
           /\ Committing(u)' => u # t /\ Committing(u)
           /\ PastSave(u)' => u # t /\ PastSave(u)
           /\ Reporting(u)' => u # t /\ Reporting(u)
           /\ u # t => Request(u)' = Request(u)
    BY <1>e DEF Becomes, Writing, OwnSuccess, Committing, PastSave, Reporting,
                Resting, Request
  <1>2. ~Writing(t) /\ \A u \in Threads \ {t} : thread'[u] = thread[u]
    BY <1>b, <1>e DEF Becomes, Writing
  <1>3. ASSUME NEW a \in acknowledged', a \notin acknowledged, a.own
        PROVE  /\ a = ack /\ OwnSuccess(t) /\ Reporting(t)
               /\ a.answer = thread[t].answer /\ a.request = Request(t)
               /\ a.incarnation = incarnation /\ a.coordinator = coordinator
               /\ a.epoch = epoch
    <2>1. a = ack /\ thread[t].answer \in Success
      BY <1>c, <1>3
    <2>2. /\ ack.answer = thread[t].answer /\ ack.request = Request(t)
          /\ ack.incarnation = incarnation /\ ack.coordinator = coordinator
          /\ ack.epoch = epoch /\ ack.own = thread[t].own
      OBVIOUS
    <2>3. OwnSuccess(t)
      BY <1>3, <1>b, <2>1, <2>2 DEF OwnSuccess, Resting
    <2> HIDE DEF ack
    <2> QED BY <1>b, <2>1, <2>2, <2>3 DEF Reporting
  <1>4. ProcessInv'
    <2>1. acknowledged' \subseteq Acknowledgement
      <3>1. thread[t].answer \in Success => ack \in Acknowledgement
        <4>1. Request(t) \in RequestIds
          BY <1>a, <1>b, Served DEF Resting
        <4> QED BY <4>1, Numbers DEF Acknowledgement
      <3> HIDE DEF ack
      <3> QED BY <1>a, <1>c, <3>1 DEF ProcessInv
    <2> QED BY <1>a, <1>b, <1>d, <2>1 DEF ProcessInv
  <1> HIDE DEF ack
  <1>5. FrameInv'
    BY <1>a, <1>e, FrameStep
  <1>6. SaverInv'
    <2>1. thread'[t].target <= persist_epoch
      BY <1>e, Numbers DEF Becomes
    <2> QED BY <1>a, <1>b, <1>1, <1>2, <2>1 DEF SaverInv
  <1>7. PlannedInv'
    BY <1>a, <1>b, <1>1, <1>2 DEF PlannedInv, Planned
  <1>8. OwnInv'
    BY <1>a, <1>b, <1>1, <1>2 DEF OwnInv
  <1>9. CopyInv'
    <2> SUFFICES ASSUME NEW u \in Threads, Writing(u)'
                 PROVE  Carries(u, thread[u].copy)'
      BY DEF CopyInv
    <2>1. u # t /\ Writing(u) /\ thread'[u] = thread[u]
      BY <1>1, <1>2
    <2>2. Carries(u, thread[u].copy)
      BY <1>a, <2>1 DEF CopyInv
    <2>3. \A a \in acknowledged' :
             a.own => thread[u].copy.outcome[a.request] = a.answer
      BY <1>3, <2>2 DEF Carries, Fresh
    <2>4. Taken(thread[u].copy)'
      BY <1>b, <2>1, <2>2 DEF Carries, Fresh, Taken
    <2>5. Fresh(thread[u].copy)'
      BY <1>b, <1>1, <1>2, <2>1, <2>2, <2>3, <2>4 DEF Carries, Fresh
    <2> QED BY <1>1, <2>1, <2>2, <2>5 DEF Carries
  <1>10. FileInv'
    BY <1>a, <1>b DEF FileInv, Taken
  <1>11. SavedInv'
    <2> SUFFICES ASSUME save_state = "saved"
                 PROVE  SavedInv'
      BY <1>b DEF SavedInv
    <2>1. ASSUME NEW a \in acknowledged', a.own
          PROVE  /\ disk.outcome[a.request] = a.answer
                 /\ disk.coordinator = a.coordinator /\ a.epoch <= disk.epoch
      <3>1. CASE a \in acknowledged
        BY <1>a, <2>1, <3>1 DEF SavedInv, Durable
      <3>2. CASE a \notin acknowledged
        <4>1. disk.incarnation = incarnation
                /\ disk.outcome[Request(t)] = thread[t].answer
          BY <1>a, <1>3, <2>1, <3>2 DEF SavedInv
        <4>2. disk.coordinator = coordinator /\ disk.epoch = epoch
          BY <1>a, <1>d, <4>1 DEF FileInv, Taken
        <4> QED BY <1>3, <2>1, <3>2, <4>1, <4>2, Numbers
      <3> QED BY <3>1, <3>2
    <2> QED BY <1>a, <1>b, <1>1, <1>2, <2>1 DEF SavedInv, Durable
  <1>12. AcknowledgedInv'
    <2>1. ASSUME NEW a \in acknowledged', a.own, a \notin acknowledged
          PROVE  /\ a.incarnation <= incarnation /\ outcome[a.request] = a.answer
                 /\ \A u \in Threads : Committing(u)' => Request(u)' # a.request
                 /\ a.coordinator = coordinator /\ a.incarnation = incarnation
                 /\ a.epoch = epoch
      <3>1. /\ OwnSuccess(t) /\ a.answer = thread[t].answer
            /\ a.request = Request(t) /\ a.incarnation = incarnation
            /\ a.coordinator = coordinator /\ a.epoch = epoch
        BY <1>3, <2>1
      <3>2. outcome[a.request] = a.answer
        BY <1>a, <3>1 DEF OwnInv
      <3>3. ASSUME NEW u \in Threads, Committing(u)', Request(u)' = a.request
            PROVE  FALSE
        <4>1. u # t /\ Committing(u) /\ Request(u) = Request(t)
          BY <1>1, <3>1, <3>3
        <4>2. OwnSuccess(u) /\ thread[u].answer = "planned"
          BY <1>a, <4>1 DEF OwnInv, OwnSuccess, Committing, Success
        <4>3. thread[t].answer = "planned"
          BY <1>a, <3>1, <4>1, <4>2 DEF OwnInv
        <4> QED BY <1>a, <3>1, <4>1, <4>2, <4>3 DEF OwnInv
      <3> QED BY <3>1, <3>2, <3>3, Numbers
    <2> QED BY <1>a, <1>b, <1>1, <2>1 DEF AcknowledgedInv
  <1> QED
    BY <1>4, <1>5, <1>6, <1>7, <1>8, <1>9, <1>10, <1>11, <1>12
    DEF SavingInvariant

-----------------------------------------------------------------------------
(* The process.                                                            *)

\* Threads that are closed do nothing.
LEMMA AllClosed ==
    ASSUME \A t \in Threads : thread[t] = Closed
    PROVE  \A t \in Threads :
              /\ Resting(t) /\ ~Writing(t) /\ ~PastSave(t) /\ ~OwnSuccess(t)
              /\ ~Reporting(t) /\ ~Committing(t) /\ thread[t].target = 0
  BY DEF Closed, Resting, Writing, PastSave, OwnSuccess, Reporting, Committing

\* An empty memory has planned nothing.
LEMMA EmptyPlanned == Planned(Empty)
  BY DEF Planned, Empty

\* Init establishes the invariant.
LEMMA InitialState ==
    ASSUME Init
    PROVE  TypeOK /\ SavingInvariant
  <1> USE DEF Init
  <1>1. NoFile \in Snapshot /\ Empty \in [RequestIds -> Held]
    BY DEF NoFile, Snapshot, Empty, Held, Unanswered
  <1>2. TypeOK
    BY <1>1, RestingType, ServerAssumption DEF TypeOK
  <1>3. \A t \in Threads : thread[t] = Closed
    OBVIOUS
  <1>4. ProcessInv
    BY <1>3 DEF ProcessInv, NoFile
  <1>5. FrameInv /\ CopyInv /\ SaverInv /\ OwnInv
    BY <1>3, AllClosed DEF FrameInv, CopyInv, SaverInv, OwnInv
  <1>6. PlannedInv
    BY <1>3, AllClosed, EmptyPlanned DEF PlannedInv, NoFile
  <1>7. FileInv /\ SavedInv /\ AcknowledgedInv
    BY <1>3, AllClosed DEF FileInv, SavedInv, AcknowledgedInv
  <1> QED BY <1>2, <1>4, <1>5, <1>6, <1>7 DEF SavingInvariant

\* The start of a process keeps the invariant: it goes on from the file, which
\* has what was acknowledged, under a later epoch.
LEMMA StartStep ==
    ASSUME TypeOK, SavingInvariant, start
    PROVE  SavingInvariant'
  <1>a. /\ ProcessInv /\ FrameInv /\ SaverInv /\ PlannedInv /\ OwnInv
        /\ CopyInv /\ FileInv /\ SavedInv /\ AcknowledgedInv
    BY DEF SavingInvariant
  <1>b. /\ UNCHANGED <<persist_clean_epoch, saver, disk, save_state, thread,
                       acknowledged>>
        /\ running = "no" /\ running' = "yes" /\ incarnation' = incarnation + 1
        /\ save_state = "saved"
    BY <1>a DEF start, ProcessInv, TypeOK
  <1>c. /\ \A t \in Threads : thread[t] = Closed /\ thread'[t] = Closed
        /\ persist_clean_epoch = 0
    BY <1>a, <1>b DEF ProcessInv
  <1>d. \A t \in Threads :
           /\ Resting(t)' /\ ~Writing(t)' /\ ~PastSave(t)' /\ ~OwnSuccess(t)'
           /\ ~Reporting(t)' /\ ~Committing(t)' /\ thread'[t].target = 0
    BY <1>c DEF Closed, Resting, Writing, PastSave, OwnSuccess, Reporting, Committing
  <1>e. \/ /\ disk = NoFile
           /\ coordinator' = incarnation + 1 /\ epoch' = 1 /\ outcome' = Empty
           /\ persist_epoch' = 0
        \/ /\ disk # NoFile
           /\ coordinator' = disk.coordinator /\ epoch' = disk.epoch + 1
           /\ outcome' = disk.outcome /\ persist_epoch' = 1
    <2>1. CASE start_empty
      BY <2>1 DEF start_empty
    <2>2. CASE start_loaded
      <3>1. disk \in Snapshot
        BY DEF TypeOK
      <3> QED BY <2>2, <3>1 DEF start_loaded, install_state, NextEpoch, Snapshot
    <2> QED BY <2>1, <2>2 DEF start
  <1>f. \A a \in acknowledged : a.own => disk # NoFile
    <2> SUFFICES ASSUME NEW a \in acknowledged, a.own, disk = NoFile
                 PROVE  FALSE
      OBVIOUS
    <2>1. disk.outcome[a.request] = a.answer /\ a.answer \in Success
            /\ a.request \in RequestIds
      BY <1>a, <1>b DEF SavedInv, Durable, ProcessInv, Acknowledgement
    <2>2. disk.outcome = Empty
      BY DEF NoFile
    <2> QED BY <2>1, <2>2 DEF Empty, Success
  <1>g. persist_epoch' \in Nat /\ epoch' > 0 /\ disk.epoch <= epoch'
    BY <1>a, <1>e, Numbers DEF ProcessInv, NoFile
  <1>1. ProcessInv'
    BY <1>a, <1>b, <1>g, Numbers DEF ProcessInv
  <1>2. FrameInv' /\ CopyInv'
    BY <1>d DEF FrameInv, CopyInv
  <1>3. SaverInv'
    BY <1>a, <1>b, <1>c, <1>d, <1>g, AllClosed DEF SaverInv
  <1>4. PlannedInv'
    BY <1>a, <1>b, <1>d, <1>e, EmptyPlanned DEF PlannedInv, Planned
  <1>5. OwnInv'
    BY <1>d DEF OwnInv
  <1>6. FileInv'
    <2>1. disk.incarnation # incarnation'
      BY <1>a, <1>b, Numbers DEF ProcessInv
    <2>2. \A r \in RequestIds : disk.outcome[r] # "none" => outcome'[r] # "none"
      BY <1>e DEF NoFile
    <2> QED BY <1>b, <1>e, <1>g, <2>1, <2>2 DEF FileInv
  <1>7. SavedInv'
    BY <1>a, <1>b, <1>c, <1>d DEF SavedInv, Durable
  <1>8. AcknowledgedInv'
    <2> SUFFICES ASSUME NEW a \in acknowledged, a.own
                 PROVE  /\ a.incarnation <= incarnation'
                        /\ outcome'[a.request] = a.answer
                        /\ a.coordinator = coordinator'
                        /\ a.incarnation # incarnation' /\ a.epoch < epoch'
      BY <1>b, <1>d DEF AcknowledgedInv
    <2>1. a.incarnation \in Nat /\ a.epoch \in Nat
      BY <1>a DEF ProcessInv, Acknowledgement
    <2>2. a.incarnation <= incarnation
      BY <1>a DEF AcknowledgedInv
    <2>3. /\ disk.outcome[a.request] = a.answer
          /\ disk.coordinator = a.coordinator /\ a.epoch <= disk.epoch
      BY <1>a, <1>b DEF SavedInv, Durable
    <2> QED BY <1>b, <1>e, <1>f, <2>1, <2>2, <2>3, Numbers
  <1> QED
    BY <1>1, <1>2, <1>3, <1>4, <1>5, <1>6, <1>7, <1>8 DEF SavingInvariant

\* A stop keeps the invariant.
LEMMA StopStep ==
    ASSUME TypeOK, SavingInvariant, stop
    PROVE  SavingInvariant'
  <1>1. /\ running = "yes" /\ running' = "stopping"
        /\ UNCHANGED <<incarnation, coordinator, epoch, outcome, persist_epoch,
                       persist_clean_epoch, saver, disk, save_state, thread,
                       acknowledged>>
    BY DEF stop, engineVars, persistVars
  <1>2. /\ ProcessInv' /\ FrameInv' /\ SaverInv' /\ PlannedInv' /\ OwnInv'
    BY <1>1 DEF SavingInvariant, ProcessInv, FrameInv, SaverInv, PlannedInv,
                Planned, OwnInv, Writing, OwnSuccess, Committing, Resting, Request
  <1>3. CopyInv'
    BY <1>1 DEF SavingInvariant, CopyInv, Carries, Fresh, Taken, Writing, PastSave,
                Reporting, OwnSuccess, Resting, Request
  <1>4. FileInv' /\ SavedInv' /\ AcknowledgedInv'
    BY <1>1 DEF SavingInvariant, FileInv, SavedInv, AcknowledgedInv, Taken, PastSave,
                Reporting, OwnSuccess, Committing, Resting, Request, Durable
  <1> QED BY <1>2, <1>3, <1>4 DEF SavingInvariant

\* The end of the process keeps the invariant, when the file it leaves behind has
\* what was acknowledged or is known not to.
LEMMA ProcessEndsStep ==
    ASSUME TypeOK, SavingInvariant, ProcessEnds,
           UNCHANGED <<incarnation, acknowledged>>,
           running # "no",
           \/ UNCHANGED <<disk, save_state>> /\ save_state = "saved"
           \/ UNCHANGED disk /\ save_state' = "lost"
           \/ disk' = snapshot /\ save_state' = "saved"
    PROVE  SavingInvariant'
  <1>a. /\ ProcessInv /\ FrameInv /\ SaverInv /\ PlannedInv /\ OwnInv
        /\ CopyInv /\ FileInv /\ SavedInv /\ AcknowledgedInv
    BY DEF SavingInvariant
  <1>b. /\ running' = "no" /\ outcome' = Empty /\ saver' = {}
        /\ persist_epoch' = 0 /\ persist_clean_epoch' = 0
        /\ \A t \in Threads : thread'[t] = Closed
    BY DEF ProcessEnds
  <1>c. \A t \in Threads :
           /\ Resting(t)' /\ ~Writing(t)' /\ ~PastSave(t)' /\ ~OwnSuccess(t)'
           /\ ~Reporting(t)' /\ ~Committing(t)' /\ thread'[t].target = 0
    BY <1>b DEF Closed, Resting, Writing, PastSave, OwnSuccess, Reporting, Committing
  <1>d. /\ snapshot.coordinator = coordinator /\ snapshot.epoch = epoch
        /\ snapshot.outcome = outcome /\ snapshot.incarnation = incarnation
    BY DEF snapshot
  <1>e. /\ incarnation \in 0 .. incarnation
        /\ coordinator \in 0 .. incarnation /\ epoch \in 0 .. incarnation
        /\ epoch > 0
    BY <1>a, Numbers DEF TypeOK, ProcessInv
  <1>1. ProcessInv'
    BY <1>a, <1>b, <1>d, <1>e DEF ProcessInv
  <1>2. FrameInv' /\ CopyInv' /\ OwnInv'
    BY <1>c DEF FrameInv, CopyInv, OwnInv
  <1>3. SaverInv'
    BY <1>b, <1>c DEF SaverInv
  <1>4. PlannedInv'
    BY <1>a, <1>b, <1>c, <1>d, EmptyPlanned DEF PlannedInv, Planned
  <1>5. FileInv'
    BY <1>b DEF FileInv
  <1>6. SavedInv'
    <2>1. CASE UNCHANGED <<disk, save_state>>
      BY <1>a, <1>b, <1>c, <2>1 DEF SavedInv, Durable
    <2>2. CASE disk' = snapshot
      <3>1. \A a \in acknowledged : a.own =>
               /\ snapshot.outcome[a.request] = a.answer
               /\ snapshot.coordinator = a.coordinator /\ a.epoch <= snapshot.epoch
        <4> SUFFICES ASSUME NEW a \in acknowledged, a.own
                     PROVE  /\ outcome[a.request] = a.answer
                            /\ coordinator = a.coordinator /\ a.epoch <= epoch
          BY <1>d
        <4>1. a.epoch \in Nat
          BY <1>a DEF ProcessInv, Acknowledgement
        <4> QED BY <1>a, <4>1, Numbers DEF AcknowledgedInv
      <3> QED BY <1>b, <1>c, <2>2, <3>1 DEF SavedInv, Durable
    <2>3. CASE save_state' = "lost"
      BY <2>3 DEF SavedInv
    <2> QED BY <2>1, <2>2, <2>3
  <1>7. AcknowledgedInv'
    BY <1>a, <1>b DEF AcknowledgedInv
  <1> QED
    BY <1>1, <1>2, <1>3, <1>4, <1>5, <1>6, <1>7 DEF SavingInvariant

-----------------------------------------------------------------------------
(* The theorems.                                                           *)

\* Every step keeps the types; the authority a process takes up is bounded by
\* the one in the file.
LEMMA TypeStep ==
    ASSUME TypeOK, SavingInvariant, [Next]_vars
    PROVE  TypeOK'
  <1>a. ProcessInv /\ FrameInv
    BY DEF SavingInvariant
  <1>1. CASE start
    <2>1. disk \in Snapshot /\ disk.outcome \in [RequestIds -> Held]
            /\ Empty \in [RequestIds -> Held]
      BY DEF TypeOK, Snapshot, Empty, Held, Unanswered
    <2>2. /\ outcome' \in [RequestIds -> Held] /\ persist_epoch' \in Nat
          /\ coordinator' \in 0 .. incarnation + 1 /\ epoch' \in 0 .. incarnation + 1
      <3>1. CASE start_empty
        BY <2>1, <3>1, Numbers DEF start_empty
      <3>2. CASE start_loaded
        <4>1. /\ outcome' = disk.outcome /\ persist_epoch' = 1
              /\ coordinator' = disk.coordinator /\ epoch' = disk.epoch + 1
          BY <2>1, <3>2 DEF start_loaded, install_state, NextEpoch, Snapshot
        <4> QED BY <1>a, <2>1, <4>1, Numbers DEF ProcessInv
      <3> QED BY <1>1, <3>1, <3>2 DEF start
    <2>3. incarnation' = incarnation + 1 /\ incarnation' \in 0 .. MaxIncarnations
      BY <1>1, Numbers, ServerAssumption DEF start, TypeOK
    <2> QED BY <1>1, <2>2, <2>3 DEF start, TypeOK
  <1>2. CASE Crash \/ stop_joined
    <2>1. ProcessEnds /\ UNCHANGED incarnation
      BY <1>2 DEF Crash, stop_joined
    <2>2. disk' \in Snapshot /\ save_state' \in {"saved", "failed", "lost"}
      BY <1>2, SnapshotType DEF Crash, stop_joined, atomic_write_file, TypeOK
    <2>3. Empty \in [RequestIds -> Held] /\ Closed \in ThreadState
      BY RestingType DEF Empty, Held, Unanswered
    <2> QED BY <2>1, <2>2, <2>3, Numbers DEF ProcessEnds, TypeOK
  <1>3. CASE stop
    BY <1>3 DEF stop, engineVars, persistVars, TypeOK
  <1>4. ASSUME NEW c \in Clients, NEW t \in Threads, connect(c, t)
        PROVE  TypeOK'
    <2>1. thread' \in [Threads -> ThreadState]
      BY <1>4, ConnectView DEF Becomes
    <2>2. worker_boots' \in [WorkerIds -> Nat]
      BY <1>4, ServerAssumption DEF connect, register_worker_boot, TypeOK
    <2> QED BY <1>4, <2>1, <2>2 DEF connect, engineVars, persistVars, TypeOK
  <1>5. ASSUME NEW t \in Threads, NEW f \in Frames, receive(t, f)
        PROVE  TypeOK'
    <2>1. thread' \in [Threads -> ThreadState]
      BY <1>5, ReceiveView DEF Becomes
    <2>2. seen' \in [Threads -> SUBSET RequestIds]
      BY <1>5 DEF receive, TypeOK, RequestIds
    <2>3. UNCHANGED <<engineVars, persistVars, processVars>>
      BY <1>5 DEF receive
    <2> QED BY <2>1, <2>2, <2>3 DEF engineVars, persistVars, processVars, TypeOK
  <1>6. ASSUME NEW t \in Threads, NEW answer \in Held \cup {"error"},
               Return(t, answer)
        PROVE  TypeOK'
    <2>1. thread' \in [Threads -> ThreadState]
      BY <1>6, ReturnView DEF Becomes
    <2> QED BY <1>6, <2>1 DEF Return, engineVars, persistVars, processVars, TypeOK
  <1>7. ASSUME NEW t \in Threads, NEW held \in Held,
               NEW pc \in {"notify", "reply", "commit_save"},
               NEW after \in {"commit", "reply"}, Record(t, held, pc, after),
               persist_epoch' \in {persist_epoch, persist_epoch + 1}
        PROVE  TypeOK'
    <2>1. thread' \in [Threads -> ThreadState]
      BY <1>7, RecordView DEF Becomes
    <2>2. outcome' \in [RequestIds -> Held]
      BY <1>7 DEF Record, TypeOK
    <2>3. persist_epoch' \in Nat
      BY <1>7, Numbers
    <2> QED BY <1>7, <2>1, <2>2, <2>3 DEF Record, processVars, TypeOK
  <1>8. ASSUME NEW t \in Threads, evaluate(t)
        PROVE  TypeOK'
    <2>1. outcome[Request(t)] \in Held
      BY <1>a, <1>8, Served DEF evaluate, Resting
    <2>2. {"planned", "refused", "unknown"} \subseteq Held
      BY DEF Held, Success, Unanswered
    <2> QED BY <1>6, <1>7, <1>8, <2>1, <2>2 DEF evaluate, Change
  <1>9. ASSUME NEW t \in Threads, commit(t) \/ register(t) \/ trust(t)
        PROVE  TypeOK'
    <2>1. {"committed", "refused", "done"} \subseteq Held
      BY DEF Held, Success
    <2>2. CASE commit(t)
      BY <1>6, <1>7, <2>1, <2>2 DEF commit, Change
    <2>3. CASE register(t)
      BY <1>6, <1>7, <2>1, <2>3 DEF register, Change
    <2>4. CASE trust(t)
      BY <1>6, <1>7, <2>1, <2>4 DEF trust, Change
    <2> QED BY <1>9, <2>2, <2>3, <2>4
  <1>10. ASSUME NEW t \in Threads,
                notify_change(t) \/ commit_save(t) \/ mark_compare(t) \/ reply(t)
         PROVE  TypeOK'
    <2>1. thread' \in [Threads -> ThreadState]
      BY <1>a, <1>10, SkipView, ListenView, CommitSaveView, StoreView, LeaveView,
         ReplyView DEF Becomes
    <2>2. UNCHANGED <<engineVars, persistVars, processVars, seen>>
      BY <1>10 DEF notify_change, commit_save, mark_compare, reply
    <2> QED BY <2>1, <2>2 DEF engineVars, persistVars, processVars, TypeOK
  <1>11. ASSUME NEW t \in Threads, mark(t) \/ mark_store(t)
         PROVE  TypeOK'
    <2>1. thread' \in [Threads -> ThreadState]
      BY <1>a, <1>11, MarkView, StoredView DEF Becomes
    <2>2. persist_clean_epoch' \in Nat
      BY <1>11, MaxOfTwo, Numbers DEF mark, Mark, mark_store, StoreClean
    <2> QED BY <1>11, <2>1, <2>2
            DEF mark, Mark, mark_store, StoreClean, engineVars, processVars, TypeOK
  <1>12. ASSUME NEW t \in Threads, persist_now(t)
         PROVE  TypeOK'
    <2>1. thread' \in [Threads -> ThreadState]
      BY <1>12, TakeSnapshotView DEF persist_now, Becomes
    <2> QED BY <1>12, <2>1
            DEF persist_now, TakeSnapshot, engineVars, processVars, TypeOK
  <1>13. ASSUME NEW t \in Threads, NEW succeeds \in BOOLEAN, SaveEnds(t, succeeds)
         PROVE  TypeOK'
    <2>1. thread' \in [Threads -> ThreadState]
      BY <1>13, SaveFrameView, SaveView DEF Becomes
    <2>2. thread[t].copy \in Snapshot
      BY DEF TypeOK, ThreadState
    <2>3. disk' \in Snapshot /\ save_state' \in {"saved", "failed", "lost"}
      BY <1>13, <2>2 DEF SaveEnds, atomic_write_file, TypeOK
    <2> QED BY <1>13, <2>1, <2>3 DEF SaveEnds, engineVars, processVars, TypeOK
  <1>14. CASE UNCHANGED vars
    BY <1>14 DEF vars, engineVars, persistVars, processVars, TypeOK
  <1> QED
    BY <1>1, <1>2, <1>3, <1>4, <1>5, <1>8, <1>9, <1>10, <1>11, <1>12, <1>13, <1>14
    DEF Next, Serve, save

\* Every step keeps the invariant.
LEMMA SavingStep ==
    ASSUME TypeOK, SavingInvariant, [Next]_vars
    PROVE  SavingInvariant'
  <1>1. CASE start
    BY <1>1, StartStep
  <1>2. CASE Crash
    <2>1. /\ UNCHANGED disk
          /\ save_state' = IF save_state = "saved" THEN "saved" ELSE "lost"
      BY <1>2 DEF Crash
    <2> QED BY <1>2, <2>1, ProcessEndsStep DEF Crash
  <1>3. CASE stop
    BY <1>3, StopStep
  <1>4. CASE stop_joined
    <2>1. save_state # "lost"
      BY <1>4 DEF stop_joined, SavingInvariant, ProcessInv
    <2>2. \/ UNCHANGED disk /\ save_state' = "lost"
          \/ disk' = snapshot /\ save_state' = "saved"
      BY <1>4, <2>1 DEF stop_joined, atomic_write_file
    <2> QED BY <1>4, <2>2, ProcessEndsStep DEF stop_joined
  <1>5. CASE UNCHANGED vars
    <2>1. UNCHANGED <<running, incarnation, coordinator, epoch, outcome, persist_epoch,
                      persist_clean_epoch, saver, disk, save_state, thread,
                      acknowledged>>
      BY <1>5 DEF vars, engineVars, persistVars, processVars
    <2>2. /\ ProcessInv' /\ FrameInv' /\ SaverInv' /\ PlannedInv' /\ OwnInv'
      BY <2>1 DEF SavingInvariant, ProcessInv, FrameInv, SaverInv, PlannedInv,
                  Planned, OwnInv, Writing, OwnSuccess, Committing, Resting, Request
    <2>3. CopyInv'
      BY <2>1 DEF SavingInvariant, CopyInv, Carries, Fresh, Taken, Writing, PastSave,
                  Reporting, OwnSuccess, Resting, Request
    <2>4. FileInv' /\ SavedInv' /\ AcknowledgedInv'
      BY <2>1 DEF SavingInvariant, FileInv, SavedInv, AcknowledgedInv, Taken, PastSave,
                  Reporting, OwnSuccess, Committing, Resting, Request, Durable
    <2> QED BY <2>2, <2>3, <2>4 DEF SavingInvariant
  <1> QED
    BY <1>1, <1>2, <1>3, <1>4, <1>5, ConnectStep, ReceiveStep, EvaluateStep,
       CommitStep, RegisterStep, TrustStep, NotifyStep, CommitSaveStep, PersistNowStep,
       SaveStep, MarkStep, MarkCompareStep, MarkStoreStep, ReplyStep
    DEF Next, Serve, save

\* The inductive invariant holds, whatever the numbers of threads, clients,
\* frames and processes.
THEOREM SavingIsSound == Spec => [](TypeOK /\ SavingInvariant)
  <1>1. Init => TypeOK /\ SavingInvariant
    BY InitialState
  <1>2. TypeOK /\ SavingInvariant /\ [Next]_vars => (TypeOK /\ SavingInvariant)'
    BY TypeStep, SavingStep
  <1> QED BY <1>1, <1>2, PTL DEF Spec

\* Every variable has its type, and the authority of a process its bounds.
THEOREM ServerTypeCorrect == Spec => []TypeOK
  BY SavingIsSound, PTL

\* A frame that made a change and was answered with success has its change in the
\* state file while saves succeed, through crashes and restarts (notify_change()
\* in engine.cpp, the end of commit() in promotion.cpp, persist_now() in
\* coordinator_server.cpp).
THEOREM OwnSuccessDurable == Spec => []OwnSuccessIsDurable
  <1>1. SavingInvariant => OwnSuccessIsDurable
    BY DEF SavingInvariant, SavedInv, OwnSuccessIsDurable
  <1> QED BY <1>1, SavingIsSound, PTL

\* What notify_change() skips is in the file, although commit() stores the clean
\* epoch under a shared lock.
THEOREM SkippedIsSaved == Spec => []CleanIsSaved
  <1>1. SavingInvariant => CleanIsSaved
    BY DEF SavingInvariant, SavedInv, CleanIsSaved
  <1> QED BY <1>1, SavingIsSound, PTL

\* Once a process has answered a change with success, every later one acts under
\* another authority, although start() does not save the one it takes.
THEOREM IncarnationsFenced == Spec => []IncarnationsAreFenced
  <1>1. TypeOK /\ SavingInvariant => IncarnationsAreFenced
    <2> SUFFICES ASSUME TypeOK, SavingInvariant, NEW a \in acknowledged, a.own,
                        running # "no", a.incarnation # incarnation
                 PROVE  a.epoch # epoch
      BY DEF IncarnationsAreFenced
    <2>1. a.epoch \in Nat /\ a.epoch < epoch
      BY DEF SavingInvariant, ProcessInv, AcknowledgedInv, Acknowledgement
    <2> QED BY <2>1, Numbers
  <1> QED BY <1>1, SavingIsSound, PTL

\* The state file never loses a request that it knows and never goes back to an
\* older snapshot, whichever threads save.
THEOREM FileGoesForward == Spec => FileNeverGoesBack
  <1> DEFINE Forward ==
         /\ \A r \in RequestIds :
               disk.outcome[r] # "none" => disk'.outcome[r] # "none"
         /\ disk'.incarnation = disk.incarnation => disk'.at >= disk.at
         /\ disk'.epoch >= disk.epoch
  <1>1. TypeOK /\ SavingInvariant /\ [Next]_vars => Forward
    <2> SUFFICES ASSUME TypeOK, SavingInvariant, [Next]_vars
                 PROVE  Forward
      OBVIOUS
    <2>1. CASE UNCHANGED disk
      BY <2>1, Numbers
    <2>2. ASSUME NEW s, Fresh(s), disk' = s, running # "no", s.at \in Nat
          PROVE  Forward
      <3>1. s.incarnation = incarnation /\ s.epoch = epoch
        BY <2>2 DEF Fresh, Taken
      <3>2. disk.epoch <= epoch
        BY <2>2 DEF SavingInvariant, FileInv
      <3> QED BY <2>2, <3>1, <3>2, Numbers DEF Fresh
    <2>3. ASSUME NEW t \in Threads, save(t)
          PROVE  Forward
      <3>1. Writing(t) /\ running # "no" /\ Fresh(thread[t].copy)
        BY <2>3, Running DEF save, SaveEnds, Writing, SavingInvariant, CopyInv, Carries
      <3>2. disk' = disk \/ disk' = thread[t].copy
        BY <2>3 DEF save, SaveEnds, atomic_write_file
      <3> QED BY <2>1, <2>2, <3>1, <3>2, Numbers
    <2>4. CASE stop_joined
      <3>1. Fresh(snapshot) /\ running # "no"
        BY <2>4, SnapshotIsFresh DEF stop_joined
      <3>2. disk' = disk \/ disk' = snapshot
        BY <2>4 DEF stop_joined, atomic_write_file
      <3>3. snapshot.at \in Nat
        BY Numbers DEF snapshot
      <3> QED BY <2>1, <2>2, <3>1, <3>2, <3>3
    <2>5. ASSUME NEW t \in Threads, Serve(t), ~save(t)
          PROVE  UNCHANGED disk
      BY <2>5 DEF Serve, evaluate, commit, register, trust, notify_change, commit_save,
         persist_now, TakeSnapshot, mark, Mark, mark_compare, mark_store, StoreClean,
         reply, Return, Change, Record, persistVars
    <2>6. start \/ Crash \/ stop => UNCHANGED disk
      BY DEF start, Crash, stop, persistVars
    <2>7. \A c \in Clients, t \in Threads : connect(c, t) => UNCHANGED disk
      BY DEF connect, persistVars
    <2>8. \A t \in Threads, f \in Frames : receive(t, f) => UNCHANGED disk
      BY DEF receive, persistVars
    <2>9. UNCHANGED vars => UNCHANGED disk
      BY DEF vars, persistVars
    <2> QED BY <2>1, <2>3, <2>4, <2>5, <2>6, <2>7, <2>8, <2>9 DEF Next
  <1>2. TypeOK /\ SavingInvariant /\ [Next]_vars => [Forward]_vars
    BY <1>1
  <1> QED BY <1>2, SavingIsSound, PTL DEF Spec, FileNeverGoesBack
=============================================================================
