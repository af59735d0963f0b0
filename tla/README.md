# Artifact Promotion: specifications, checks and proofs

Artifact Promotion is a C++20 runtime that decides whether an artifact may
advance from one lifecycle stage to the next, and keeps that decision
authoritative through restarts, concurrent callers, stale evidence and retries.
This directory specifies the decision-making core of the runtime in TLA+: the
lifecycle graph, the policy, the gates, the plan/reserve/commit protocol, every
operation that changes the coordinator's state, the file in which that state is
saved, the process that serves these operations to workers and saves their
effects, and the connections between the two. TLC checks the properties on small
instances; TLAPS proves the most important ones for every instance.

Paths below are relative to the repository (`src/engine/...`,
`include/artifact_promotion/...`).

## 1. The system

| Component | Source | State it keeps | Operations |
|---|---|---|---|
| Lifecycle graph | `src/domain/stage.cpp` | a set of edges between ten stages | `add_edge`, `validate` |
| Policy | `src/domain/policy.cpp` | graph, entry stage, rules of gates | `validate`, `find_rule`, `make_reference_policy` |
| Coordinator state | `src/domain/store.cpp`, `include/.../{store,artifact,decision,evidence,config}.hpp` | revision chains, evidence, plans, reservations, decisions, promotion records, idempotency records, vetoes, active policy, epoch, compatibility generation | lookups, bounds |
| Gate evaluation | `src/engine/evaluate.cpp` | none (reads the state) | `evaluate_gates` |
| Promotion | `src/engine/promotion.cpp` | none of its own | `evaluate`, `commit`, `promote` |
| Registry and control | `src/engine/engine.cpp` | admission flag, listener, persist epochs | `register_artifact`, `submit_evidence`, `publish_policy`, `restart`, `recover_in_flight`, `snapshot`, `install_state`, admission |
| Trust mutation | `src/engine/trust.cpp` | none of its own | `quarantine`, `release_quarantine`, `revoke`, `supersede`, `retire`, `revoke_evidence`, vetoes, compatibility generation |
| Durability | `src/persist/*.cpp`, `src/core/io.cpp` | the state file | `encode`, `decode`, `save`, `load` |
| Coordinator server | `src/distributed/coordinator_server.cpp` | worker boots, connections and their threads | `start`, `stop`, the accept loop, frame handlers that call the engine |
| Worker client | `src/distributed/worker_client.cpp` | connection, authority it believes in | `connect`, `disconnect`, one exchange per operation |
| Protocol and sockets | `src/distributed/{protocol,socket}.cpp` | none of their own | frames, loopback connections |
| Core utilities, explanations, tools, examples | remaining files | none that a decision reads | hashing, I/O, text |

How they interact. Callers (threads, or server connections) call the engine.
Each operation holds `state_mutex_` exclusively from its first check to its last
write, so an operation is one atomic step, with one exception that matters:
`promote` is `evaluate` followed by `commit` and the lock is free in between. A
plan therefore travels through the caller: anything may happen to the artifact,
its evidence, its dependencies, the policy or the coordinator before the plan
comes back to be committed, if it comes back at all. After a change the engine
calls the change listener, which saves a snapshot before the caller is
answered. Saving involves two more locks: `persist_mutex_` of the engine, which
`notify_change` takes exclusively around (not during) the call of the listener and
`commit` shared during it, and `persist_mutex_` of the server, held over snapshot
and save. A worker reaches the engine over a loopback connection that a thread of
the server serves, frame by frame, after a handshake that tells the worker the
authority of the process and the process the boot of the worker.

What is hard. Interleavings of callers around an outstanding plan; restarts and
new epochs between plan and commit; retries of answered requests; a wall clock
that jumps; bounds at which plans and records are evicted; long sequences of
trust operations over several revisions; a graph validation that treats holding
stages specially; threads that change the state, save it for each other and skip
saves, while the process may be killed at any point; records that a writer
accepts and a reader refuses; threads that wait in a socket for a peer while
`stop` waits for them; timeouts that race with the next request and requests that
are sent again on another connection. `PROJECT.json` lists these hazards at the lines where they
bite.

What makes each part correct:

- *graph*: `validate` accepts exactly the graphs in which every stage can be
  occupied and left for good and promotion never cycles;
- *promotion*: a plan and a request make at most one transition, under the
  authority and from the stage they were planned for, and a caller is told of
  success only where a transition was made;
- *gates*: a transition rests on evidence that is live and fresh, and on
  dependencies that hold authority, at the moment it commits;
- *registry and trust*: only the newest revision is promoted, one evidence
  record per key is live, authority ends when trust does, the promotion records
  of a revision form one path;
- *bounds*: collections stay within `EngineConfig`;
- *liveness*: a client that keeps trying gets its artifact promoted, and a frame
  that was received is answered;
- *durability and server*: what is acknowledged is in the state file, the file
  never goes back, it can be loaded again and gives the same state, and every
  process has an authority of its own;
- *connections*: `stop` returns unless a peer holds it, every call returns, a caller that asks again
  learns its outcome, no frame of a worker is stale and an older boot never comes
  back.

## 2. The modules

| Module | Models |
|---|---|
| `LifecycleGraph` | `stage.cpp`: stages, reference graph, the traversals and the topological count of `validate` as the sets they compute |
| `GraphBuilder` | a policy author who adds edges, and what `validate` promises, defined by closed sets instead of traversals |
| `PromotionPolicy` | `policy.cpp`: gates, rules, validation, the reference policy |
| `CoordinatorState` | constants, record types, VARIABLES, `Init`, lookups, eviction, promotion records |
| `GateEvaluation` | `evaluate.cpp`: selection of evidence, one error code per gate, the outcome of the first failing gate |
| `Promotion` | `promotion.cpp`: `evaluate` (4 outcomes that change state) and `commit` (6) |
| `Registry` | `engine.cpp`: registration, evidence, policy, epochs, admission, clock |
| `TrustMutation` | `trust.cpp` |
| `PromotionEngine` | all operations as `Next`, and the properties that hold |
| `ExclusivePromotion` | the promise of the engine to its callers, without policies, evidence, stages or plans |
| `DocumentedClaims` | a check of `check_invariants` that the engine does not keep |
| `RecordCodec` | `codec.cpp`: what is written of each record, and what its reader accepts and gives back |
| `StateFile` | `snapshot.cpp`, `snapshot()`, `install_state`: sections, digests, `encode` and `decode`, on top of the engine |
| `ReferencePipeline` | a client of the reference policy, with fairness |
| `CoordinatorServer` | `coordinator_server.cpp`, `notify_change`, `snapshot`, `install_state` and the end of `commit`: threads, locks, the state file, crashes and restarts |
| `FrameProtocol` | `protocol.cpp`: message types, frame headers, answers and errors |
| `WorkerConnection` | `worker_client.cpp`, `socket.cpp`, `coordinator_server.cpp`: connections, handshakes, boots, timeouts, `start` and `stop` |
| `MCEngine`, `MCStateFile`, `MCPipeline`, `MCCoordinatorServer`, `MCWorkerConnection` | small instances for TLC |
| `PromotionEngineProofs`, `EnginePolicyProofs`, `EngineBoundsProofs` | proofs about the engine: types, plans and what a step does to each collection; gates, trust and reservations; bounds, records, answers and consistency |
| `ExclusivePromotionProofs` | the engine implements `ExclusivePromotion` |
| `StateFileProofs` | the file of every reachable state loads and gives that state back |
| `CoordinatorServerProofs`, `WorkerConnectionProofs`, `GraphBuilderProofs` | proofs about the process, the connections and the validation of graphs |

EXTENDS order: `LifecycleGraph` < `PromotionPolicy` < `CoordinatorState` <
`GateEvaluation` < (`Promotion` < `TrustMutation`), `Registry` <
`PromotionEngine` < `DocumentedClaims`, `ReferencePipeline`, `RecordCodec` <
`StateFile`, and the proofs. `PromotionEngine` instantiates
`ExclusivePromotion`. `CoordinatorServer` stands alone: it keeps of the engine what
durability tells apart. So does `WorkerConnection`, over `FrameProtocol`: it keeps
of the engine that a request is answered.

### State and actions

A VARIABLE of `CoordinatorState` is a field of `struct CoordinatorState`, with
these abstractions:

- a revision is its place in its artifact's chain, a decision and an evidence
  record its place in a sequence (these collections only grow here); plans and
  promotion records are sets, with counters for their generators, because they
  are evicted. 0 is the invalid identity;
- a policy record stands for its identity, generation, digest and graph digest;
  an evidence snapshot for its digest: both digests cover what the model keeps;
- the audit history, sequence numbers, reasons and texts are left out, since no
  guard reads them; so is the digest of a request, which only separates two
  answers (the stored decision, a conflict) that both change nothing;
- the quarantine, revocation and supersession records of an artifact are their
  `active` flags.

Each public operation is an action with the operation's name. A call that is
refused without changing state is a stuttering step and has no action of its
own; a refusal that does change state (a decision recorded, a reservation
erased, a plan identity used up) is modelled as what it does. Inputs satisfy the
`validate()` functions but may name artifacts and revisions that do not exist.
`now` is the wall clock and may go back. The age of evidence is computed modulo
`WordSize`, as the unsigned 64-bit difference in the code.

`install_state` of a loaded snapshot with the next epoch has, on the variables of
this model, the effect of `restart`: reservations go, the rest stays. That the
loaded snapshot is the state that was saved is what `StateFile` checks.

### The state file

`StateFile` runs the engine and adds the two things only the file tells apart: for
each decision what `evaluate` and `commit` list in it (`explanations`: the class of
the artifact, the source stage, how many gates and how many reasons), and for
each evidence record the digest stored with it (`seals`). A digest is the record
of the fields it covers, so two digests are equal exactly when their inputs are;
this is the usual assumption on SHA-256.

`RecordCodec` follows `codec.cpp` record by record. An enumerator is written as its
number and read back by the reader of its type, and these readers differ: some
refuse byte 0, some accept it where a field is optional, and one takes any number of
the enumeration. A record is the tuple of what is written; `..._readable` is the
conjunction of the tests of its reader and `read_...` what the reader gives. Lists
within a record have the bounds of the reader, sections have its limits on the
number of their entries (`Countable`, 1,000,000 or 10,000,000, and 1024 revisions a chain),
and the file its limit of 256 MiB (`kMaxSnapshotBytes`). How many bytes a payload
takes depends on its layout, which is left out: `ByteSize` is a parameter. Writing
tests none of these limits. Sections may come in any order and each once; the
header, the footer digest and the counts are checked as in `decode`, and
`verify_consistency` as in `install_state`. Left out: the audit history section
(with the limit on its entries, snapshot.cpp 474), texts and their lengths, and the
salts of the generators. Of the evidence types the codec has the 19 enumerators of
evidence.hpp; `is_valid_evidence_type` also accepts the bytes 19 to 62, which no enumerator has.

### The coordinator process

`CoordinatorServer` is the same system at the granularity of its locks. A
connection thread has a program counter; a step is what it does between two
changes of the locks it holds, so `state_mutex_` is held within a step and the two
`persist_mutex_` over several. The engine's state is, per request, what the
engine holds of it: nothing, a plan, a committed transition, a refusal, a decision
that is not kept under the request's identity, or the effect of another operation; how the engine decides is a choice here, since
`PromotionEngine` is about that. `persist_epoch_` and `persist_clean_epoch_` are
the code's; the fields `incarnation` and `at` of a snapshot are history for the
properties. `commit` compares and stores `persist_clean_epoch_` under a shared
lock, which is a data race: the comparison and the store are two steps that
other threads may come between.

A crash ends the process between any two steps: memory, locks and connections
go, the state file stays what the last rename made it. It is the end of the
process, not of the machine: `atomic_write_file` does not sync the file on POSIX
systems, so nothing is said of a power failure. A client that lost its answer
sends its request again on another connection, to this process or to the next.
The handshake gives a client the authority of the process, and its connection
ends with that process, so no frame of a stale epoch can arise; this is
`FramesCarryCurrentAuthority` of `WorkerConnection`. `start` loads what was saved,
without reservations: whether it loads at all is `SavedStateLoads` of `StateFile`.
A save either replaces the file or fails and leaves it as it was; after a save that
failed, `save_state` is `lost` and the durability properties claim nothing of what
is acknowledged from then on, because the listener drops the error.

### Connections

In `WorkerConnection` a connection is a record: the two queues of frames in flight, which
side has closed, what its server thread does (it waits in the backlog, receives,
replies, has ended), the identities it has seen and whether its handshake is
complete. A worker is a client that is idle or waits for the answer to one call,
with the authority it learned last; its caller has a set of calls to make, and a
call that returned without an answer is made again, on a new connection when the
old one is closed. Two workers with the same `WorkerId` are a process and its
restarted successor.

One step is one send, one receive together with what the frame handler does, or one close.
The engine is not in this module: `handle_request` answers, or reports an error of
the engine, and may save. A
promotion carries the caller's request identity, so it is the operation with which
a repetition is recognised; the other calls draw a new identity for each
attempt and differ in the payload only, so the instance has promotions as
calls. `Stranger` stands for a peer that is no `WorkerClient`; what it sends is a
constant of the instance, and it reads its answers, leaves them unread or goes when
it likes. A connection holds `SendBuffer` answers that were not read; a thread that
has one more waits in `send_all` (`SendBlocks`), because only a receive
timeout is set (coordinator_server.cpp 171-173). `greeted` is history: the clients whose
handshake the present process completed. Two simplifications spare states: a new connection takes
a number by its peer (`NextSocket`), and the connection of a stranger is forgotten when its thread
has ended (`Reclaimed`), since nothing depends on what a stranger does with its end. A `send` to a connection that the peer has closed
fails, or, because `send_all` passes no `MSG_NOSIGNAL` (socket.cpp 99-115), ends the
sending process with SIGPIPE where that signal has its default effect:
`ClientEnds` is a worker process that ends, this way or another, and `Crash` a
coordinator.

## 3. The runs

| Run | Instance | Shows |
|---|---|---|
| `graph_builder` | 5 stages, every graph of at most 6 edges (60,460) | `validate` accepts only graphs whose stages can be reached and left, accepts a cycle of promotions only where a holding stage hides it, and accepts every well formed graph |
| `fencing` | 1 artifact, 3 racing requests, restart, 2 policy generations, 2 compatibility generations | types; the invariant of the proofs; success is answered only for requests that committed, and idempotency records agree with the records; plans of an earlier authority never commit; the engine implements `ExclusivePromotion` |
| `lifecycle` | 2 revisions, 4 requests (one to `REVOKED`), every trust operation, the file of every state | transitions happen once, from the planned stage, only for the current revision; records form a path; authority ends with trust and withdrawn trust is final; reservations account for their artifacts; a promoted revision has its record; what is saved loads and is the same exactly within the reader's limits |
| `capacity` | an artifact and its dependent, all bounds 1, vetoes, admission | bounds hold; records go only by eviction, and a promoted revision keeps its own until then; a dependent commits only over authoritative dependencies |
| `time` | 4 instants, 2 evidence keys, one record per revision, evidence with and without a window, resubmission and revocation | evidence is fresh at commit; one live record per key; live evidence within its bounds |
| `durability` | 2 threads, 2 promotions, each of which may be sent again on the other connection or to the next process, saves that fail, 2 frames per process, 3 processes | types; a thread's own success is in the file; clean epochs are saved; the file never goes back; each process that acknowledged a change has its own authority |
| `service` | 2 threads, frames of all kinds, saves that fail | every frame received is answered, unless the process ends |
| `connection` | a worker and its restarted successor, a stranger, 3 sockets, 2 processes, 1 disturbance | types; `stop` and calls return and outcomes are learned, unless a stranger that never reads holds `stop`; frames are current; older boots stay out |
| `pipeline` | reference policy, executable, 7 pieces of evidence, one restart, plan expiry | `<>` promoted |

Bounds. The interesting cases need two or three actors on one artifact: two
plans that compete for a reservation, one disturbance between a plan and its
commit, a second revision, one retained plan or record too few. `DecisionLimit`
(2 to 4 decisions) bounds the number of evaluations and `EvidenceLimit` the
submissions; they are the only bounds of the engine that are the model's own, because the code
lets these collections grow. `WordSize` 16 with instants up to 6 lets an age
wrap and keeps wrapped ages apart from real ones, as 2^64 does. In `lifecycle`
`kMaxDecisionReasons` is 3 instead of 64, so that the bound is met, and counts
beyond it are alike. So are the limits of the file there: 1 artifact, 3 entries
a section and 58 bytes, where an entry of evidence, of decisions and of records counts for
one byte and header and footer for 52. States reach the limits on artifacts, decisions, records and size, and go
beyond the last two. `unloadable` has limits that no state meets (8 entries, 128 bytes), so
that its counterexample is about the decision alone. In
`CoordinatorServer` the bounds are `Threads`, `MaxFrames` per process and
`MaxIncarnations`: the hazards need two threads that race for one save and a crash
after it, and a second restart from a file that the second process wrote. In
`WorkerConnection` three sockets let a worker, its successor and a stranger, or an
old connection and its replacement, be served at once; `MaxIncarnations` 2
gives one end of the coordinator, by a crash or by `stop`, and a restart that
stays; `MaxDisturbances` 1 allows one of these, between any two steps of the others: a
receive that times out in a server that is not stopping, a worker process that
ends, a stranger that connects. `SendBuffer` 1 makes the second answer to a stranger
that does not read block; its three frames get three answers. Deadlock is not checked: with its inputs
used up the system has nothing left to do.

Fairness. `CoordinatorServer` assumes that a thread that can go on does
(`Serve(t)`): the operating system schedules it, and the shared mutexes are
released by their holders. Every frame takes finitely many steps and a process
receives finitely many frames, so no fairness of the locks themselves is needed.
Nobody has to send, crash, stop or start. `WorkerConnection` assumes that some
thread of the coordinator that can go on does, that a coordinator that is down is started
again, and that a worker whose call can return or be made goes on. The receive
timeout is among the steps of a connection thread: this is
`options_.connection_receive_timeout_millis`, which is not zero. Nobody has to
stop, crash, disconnect or connect as a stranger, and a stranger need not read or leave:
without the exceptions for a `stop` that it holds, TLC finds `StopReturns`,
`CallReturns` and `OutcomeIsLearned` violated. `ReferencePipeline` assumes weak fairness
of the client's next step. It is an assumption on the caller, which retries a refused request
under a new identity and commits the plans it is given, except that a plan of an
earlier epoch may be lost in the restart or come late; each call returns, so a
call the client keeps wanting to make happens. Restarts and the clock get no
fairness; restarts are finitely many because epochs only advance in the
instance, and time moves forward (a clock that moves back and forth can expire
every plan for ever).

Every property of a passing run is paired in `PROJECT.json` with a mutant of the
code's logic (a reservation that survives a restart, an off-by-one bound, a
saturating age, ...) under which TLC finds it violated. The mutants are the
operators marked "Mutant of" next to what they replace; no specification uses
them.

### Divergences between the code and what it says of itself

Each of these has a run in which TLC finds the documented claim violated by a
behaviour of the model; `PROJECT.json` quotes the lines.

- `two_promoted`: registering and promoting a newer revision leaves the older one
  promoted, which `check_invariants` reports as a violation.
- `unsaved_answer`: a retry on another connection is answered with the committed
  decision before the thread that committed has saved it, so an acknowledged
  promotion can be lost in a crash.
- `unloadable`: a request about an artifact or a revision that is not registered
  stores a decision without an artifact class and without a source stage. Both are
  written as byte 0, which their readers refuse, so `decode` refuses the whole
  file and no coordinator can start from it. The answer to such a request
  travels through the same codec, so a worker cannot read it either.

Others met while modelling, without a run of their own:

- `load` refuses a file of more than 256 MiB, a payload that is larger and a section with
  more entries than its limit (io.cpp 27, snapshot.cpp 202-204, 336-492), and
  `encode` and `save` test none of these. Decisions, idempotency records, vetoes and superseded
  evidence grow without a bound of the engine, so a coordinator that runs long
  enough saves a file that no coordinator can load. `SavedStateLoads` says
  exactly when (`Oversized`);
- `max_decisions_retained` is tested by `commit` alone, and only when the decision of the
  plan is not held (promotion.cpp 446-453), so it bounds nothing that `evaluate` adds
  (config.hpp 16-20);
- `SavedStateLoads` has a third exception: each refused `commit` of a plan adds a
  reason to its decision, and the reader refuses a decision with more than 64, so
  a caller that commits a lost plan again and again makes the file unloadable;
- the topological count of `validate` leaves edges out of holding stages out of
  the in-degrees but decrements along them (stage.cpp 329-338), so it accepts some
  graphs with a promotion cycle. `AcceptedGraphIsSound` therefore leaves
  acyclicity out, and `AcceptedCyclesAreHeld` says which cycles these are: a
  holding stage leads into them;
- committing a plan a second time after it committed rewrites the stored decision
  to a conflict (promotion.cpp 343-354), and a retry of its request is answered
  with that, although engine.hpp 241-243 says it returns the committed result. The
  transition is still made once (`PlanCommitsOnce`, `RequestCommitsOnce`), and
  `IdempotencyAgreesWithRecords` states the direction that holds: an answer of
  success is of a request that committed;
- `check_invariants` says that reservations must account exactly for their
  artifacts (engine.cpp 675-690). `ReservationsAccount` says when they do: a
  reservation outlives the registration of a newer revision, and the release of
  a quarantine, which change the stage it was made for;
- the reference policy lets a promotion request enter `REVOKED` without what
  `revoke` does, although policy.cpp 500-501 says that revocation is recorded by
  an explicit operation;
- `commit` does not compare the stage generation with the plan's, although
  README.md 34-36 and trust.cpp 87-89 say it does. With the policies of the runs
  this has no consequence (`CommitsFromPlannedStage` holds in `lifecycle`); with a
  policy that has rules from two stages to one target, a plan commits from a
  stage it was not made for;
- publishing a policy does not invalidate plans (engine.hpp 62-63 says so): a plan
  whose policy is published again after another one commits;
- the listener ignores a failed save and its caller marks the epoch clean,
  although coordinator_server.cpp 36-37 says every committed mutation is written
  before success is acknowledged;
- a refused `commit` returns without `notify_change`, although promotion.cpp
  258-262 says that it runs exactly once at the end; the refusal waits for the
  next change to be saved;
- boot identities are drawn from entropy (worker_client.cpp 36), although
  coordinator_server.cpp 158-160 relies on a monotonic generator: a restarted worker
  that keeps its `WorkerId` and draws a smaller number is refused until the
  coordinator restarts (`OutcomeIsLearned` leaves such a worker out). Boots are
  not saved, and frames after the handshake are not compared with the newest
  boot, so `OlderBootNeverReturns` is about handshakes with one process;
- `connection_threads_` keeps the thread of every connection until `stop`
  (coordinator_server.cpp 143), so it grows with the connections ever served;
- `serve_connection` sets a receive timeout and no send timeout: nothing calls
  `set_send_timeout_millis`. A peer that sends requests and never reads the answers
  blocks its thread in `send_all` (socket.cpp 99-115), and `stop`, which joins
  that thread, does not return. The workers of this repository read each answer before they ask again.
  `StopReturns`, `CallReturns` and `OutcomeIsLearned` except a `stop` held this way and
  nothing else;
- `snapshot` leaves out the generators of internal requests and attempts
  (engine.cpp 626-635), although its comment says a restart never reissues an
  identity;
- the check of `check_invariants` that a promoted revision has its record
  (engine.cpp 692-712) fails once the record was evicted, which `commit` and the trust operations do
  without regard to the revision. `PromotedHasRecord` says that this is the only
  way to lose it;
- the bounds on evidence do not hold back resubmissions, so superseded records
  pile up (the live ones stay within the bounds, `LiveEvidenceIsBounded`);
- a request may take an artifact from `QUARANTINED` to `CANDIDATE` without
  clearing the quarantine (trust.cpp 125-127 says it is a governed release);
  the artifact is then blocked by its gates and cannot be quarantined again;
- evidence dated slightly in the future, which config.hpp 39-42 means to accept,
  gets a wrapped age and is stale;
- a refused commit with a stale policy or an expired plan erases the artifact's
  reservation even when another plan holds it; `reservation_stale_millis` is
  never read, so an abandoned reservation stays until a restart, a refused
  commit or a trust operation;
- an evidence change found by `commit` leaves `CommitResult.outcome` unset
  (promotion.cpp 372-383), and the policy-stale refusal changes state without
  advancing `persist_epoch_` (303-317);
- `evaluate_rollback_eligibility` evaluates no gates although engine.hpp 103-105
  says it does.

## 4. The proofs

TLAPS checks the theorems below for every set of artifacts, registrations,
submissions, requests, policies, clients, calls, threads and frames and every
value of the bounds that satisfy the ASSUMEs of the modules.

| Module | Theorem | States |
|---|---|---|
| `PromotionEngineProofs` | `TypeCorrect` | `[]TypeOK` |
| | `PlansAreSound` | `[]PlanInvariant` |
| | `PlanAtMostOnce`, `RequestAtMostOnce` | `[]PlanCommitsOnce`, `[]RequestCommitsOnce` |
| | `OldAuthorityFenced` | `OldAuthorityNeverCommits` (an action property) |
| | `EvidenceKeysUnique` | `[]OneRecordPerEvidenceKey` |
| `ExclusivePromotionProofs` | `EngineImplementsPromise` | `ImplementsExclusivePromotion` (the refinement) |
| `EnginePolicyProofs` | `PolicyIsValid` | the policy in force passed `validate` |
| | `DependenciesFenced`, `StaleEvidenceFenced` | `DependenciesHoldAuthority`, `StaleEvidenceNeverCommits` |
| | `TrustIsRequired`, `WithdrawalIsFinal` | `[]NoAuthorityWithoutTrust`, `WithdrawnTrustIsFinal` |
| | `OnlyNewestIsPromoted` | `OnlyCurrentRevisionIsPromoted` |
| | `ReservationsAreAccounted`, `TransitionsStartAsPlanned` | `[]ReservationsAccount`, `CommitsFromPlannedStage` |
| `EngineBoundsProofs` | `CountsAreSound`, `BoundsAlwaysHold` | `[]CountInvariant`, `[]BoundsHold` |
| | `RecordsAreAPath`, `PromotionIsRecorded` | `[]RecordsFormAPath`, `[]PromotedHasRecord` |
| | `AnswersAgreeWithRecords` | `[]IdempotencyAgreesWithRecords` |
| | `LiveEvidenceBounded` | `[]LiveEvidenceIsBounded` |
| | `StateIsConsistent` | `[]VerifyConsistency` |
| `StateFileProofs` | `FileIsSound`, `SavedFileLoads` | `[]FileInvariant`, `[]SavedStateLoads` |
| `CoordinatorServerProofs` | `SavingIsSound`, `ServerTypeCorrect` | `[]SavingInvariant`, `[]TypeOK` |
| | `OwnSuccessDurable`, `SkippedIsSaved` | `[]OwnSuccessIsDurable`, `[]CleanIsSaved` |
| | `IncarnationsFenced`, `FileGoesForward` | `[]IncarnationsAreFenced`, `FileNeverGoesBack` |
| `WorkerConnectionProofs` | `ConnectionsAreSound`, `ConnectionTypeCorrect` | `[]ConnectionInvariant`, `[]TypeOK` |
| | `FramesAreCurrent`, `OlderBootFenced` | `[]FramesCarryCurrentAuthority`, `OlderBootNeverReturns` |
| `GraphBuilderProofs` | `AcceptedIsSound`, `CyclesAreHeld` | `[]AcceptedGraphIsSound`, `[]AcceptedCyclesAreHeld` |
| | `WellFormedIsAccepted` | `[]WellFormedGraphIsAccepted` |

### Assumptions

The ASSUMEs say what the types of the code say: inputs name artifact
identities, numbers are machine words (`Instants` lie below `WordSize`; no
other arithmetic is near its width), lists are finite sequences, the policy of
the constructor is valid, bounds of `EngineConfig` are not zero, boots are not
zero, sockets are numbered and hold at least one answer, a frame on a socket has a message type or one that is none.
Three say more. `RecordsAssumption`, of `StateFile`: registrations, submissions
and policies satisfy what their `validate` functions ask of the fields that are
written, gates have the fields of their kind, and a decision can list twice the
gates of a rule (32 gates a rule, 64 a decision). `SavedFileLoads` also assumes that
`ByteSize` is a number, whatever the payload, and nothing else of it or of the limits of
the reader.
`ServerAssumption`: a request identity names either a
promotion or another operation, in all frames that carry it (a client draws
identities once and sends the same request again under it). `StrangerFrames` are
sequences of frames, whatever the peer puts into them.

Five theorems (`TrustIsRequired`, `WithdrawalIsFinal`, `OnlyNewestIsPromoted`,
`ReservationsAreAccounted`, `TransitionsStartAsPlanned`) are about policies of a
certain shape and say so in their ASSUME:
`PromotionIsGuarded` (rules to `PROMOTED` ask for quarantine and revocation),
`EndsAreFinal` (no rule leaves `SUPERSEDED`, `REVOKED` or `RETIRED`, and a rule out
of `PROMOTED` leads there), `OrderlyPolicies` (also: `QUARANTINED` is left for
`CANDIDATE` and only from there). `validate` demands none of this, and
`CommitsFromPlannedStage` is false without it: a policy with rules from two stages
to one target commits from a stage the plan was not made for. The lemma `ReferenceShape`
proves that the reference policy of the code has all three, for every day
length, so the hypotheses describe the policy every coordinator starts with.

### Arguments

*Plans.* `RequestCommitsOnce` is not inductive: it says nothing of plans
that have not committed yet. `PlanInvariant` says what makes a commit safe:
plan identities are fresh and unique (`PlansAreFresh`); a reservation belongs to
one plan, made under the present epoch and compatibility generation
(`ReservationsAreCurrent`: this is why `restart` and
`set_compatibility_generation` must release reservations); a plan with a record
has no reservation (`CommitsAreFinal`: `commit` erases it and nothing gives it
back); and the idempotency record of a request names the only plan it ever got
(`RequestsHaveOnePlan`). A commit needs the reservation of its plan, so it has
no record yet, and the request of a new plan had no idempotency record.
`StateIsSound` proves `TypeOK /\ PlanInvariant` inductive: `TypeStep` has a lemma
per group of operations, `PlanStep` groups the operations by what they do to
plans, reservations and records.

*The promise.* The refinement maps a request to answered when it has an idempotency
record, its reservation to its grant, and the request to committed when that record
says so; the authority is the pair of epoch and compatibility generation.
`EngineImplementsPromise` needs beside `PlanInvariant` that an artifact has at most
one reservation and that the request of a reservation has not committed
(`GrantsAreExclusive`). Each step of the engine is a step of the promise:
`evaluate` grants or refuses, `commit` commits or withdraws, and every other operation
withdraws some grants, or all of them when it changes the authority.

*Steps.* The last part of `PromotionEngineProofs` says once, field by field, what a step makes of a revision
(`RevisionStep`: unchanged, demoted by a newer one, moved by a commit, moved by a trust
operation), of plans, reservations and records. The proofs below start from these
lemmas and not from the actions.

*Gates.* `EligiblePassedGates` opens `evaluate_gates`: an eligible request found
a rule whose every gate returned `Ok`. A transition evaluates the gates again at commit
(`CommittedGates`), so the dependency gate and the freshness gate hold in the state
it starts from. For freshness the age is computed modulo `WordSize`
(`UnsignedAge`): a wrapped age is refused unless the limit is as large, and then
evidence from the future is still not older than the limit.

*Trust.* `TrustInvariant` is `NoAuthorityWithoutTrust` for every revision: the
hard gates guard the way in, and each operation that sets a flag moves the
revision. That only the newest revision is promoted needs
`OldRevisionsAreSettled`: a revision that is no longer the newest is at
`PROMOTED` or at an end, so no rule leads it to `PROMOTED`. `ReservationInvariant`
adds to `ReservationsAccount` that a reservation is that of its plan and that
the exceptions (a newer revision arrived; a quarantine was released) leave the
revision where no rule leads to the target of the plan. This is why `commit`,
which compares neither the stage nor its generation, still starts from the planned stage.

*Bounds.* `CountInvariant` adds that the collections are finite and that no more
records are kept than were issued. `EvictBound`: an eviction at the bound makes
room because the smallest identity exists and goes. For live evidence the count is
over every revision (`EvidenceCounts`): a submission either replaces a live
record or comes in below the bound.

*Records and answers.* `RecordsTellStage`: the newest record of a revision tells its
stage, unless a quarantine or a newer revision moved it since. A new record
therefore starts where the one before it ended. Which records are gone is known from their
number: those kept are always the last ones issued (`LatestRecordsAreKept`, by
`NewRecordIsCounted`). So `PromotedHasRecord` follows a promotion from the commit
that made it: the decision, which holds the plan and the request, stays, whatever a
second commit makes of its outcome (`PlansHaveDecisions`, `DecisionsStay`), a later
promotion of the revision makes a newer record and names its own decision, and the record itself stays until it is among those evicted.
For `IdempotencyAgreesWithRecords` a step either adds an answer that is no success, or marks the
request of the transition it records, or makes an answer worse (`AgreementStays`,
`TransitionIsMarked`, `RefusalIsNoCommit`). Of
`verify_consistency`, `Consistent` is the inductive form: a revision keeps its
registration, so evidence stays bound to it, and what a plan takes from the
revision and the authority is not zero.

*The file.* For each record, `read_` gives back what `write_` wrote and the reader accepts
it, under the types of the engine and what `validate` let in: the byte of an
enumerator is its place in the list (`ByteOfKnown`), so the only bytes refused are the
zeros of a decision without an artifact. Each section is written once, so reading
it back by name finds its payload. The numbers of entries are those of the collections
(`WrittenCount`, `SavedCounts`: distinct records are written differently), which needs
that those without a bound are finite (`StaysFinite`); so the reader's counts and the
size fail exactly when the state is `Oversized`. Three facts about the state are needed that the engine does not
keep (`FileInvariant`): a revision is in the chain of its artifact; the digest
of an evidence record is that of the record as it is, since a revocation computes it
again and it does not cover a supersession; and a decision lists no more gates than can be read.
The last is why `DecisionsAreExplained` says more: `commit` appends the gates of a
second evaluation to those of the first, on a plan that still holds its
reservation, so a decision lists at most half of the bound while its plan holds
the reservation, and no outcome of that second evaluation leaves the plan its
reservation. Reasons have no such bound, which is one of the exceptions that
`SavedStateLoads` names.

*Saving.* `SavingInvariant` follows a snapshot from memory to the file. One thread
at a time is between taking and writing (`SaverInv`), its snapshot is `Fresh`: not
older than the file, not older than the clean epoch, and it holds every
change whose thread is past its own save or was acknowledged. The number of a
change (`persist_epoch_`) decides which those are, so a thread that skips its save
because the epoch is clean is in the file (`SavedInv`). The race on
`persist_clean_epoch_` in `commit` is harmless for this: the number
stored is never above what the file has. Across processes, `AcknowledgedInv` orders
the epochs of acknowledged changes, from which `IncarnationsAreFenced` follows.

*Connections.* `ConnectionInvariant` says of each connection that what is on its way
carries the authority of the process while its thread lives, and that there is no
thread without a process; of each client the process ever greeted that the newest boot registered
for its worker is at least its own (`GreetedAreRegistered`), whether or not it is still connected, so that the
comparison in `register_worker_boot` keeps older ones out;
and of each client that its socket is its own and that it knows the authority
once its handshake returned. A connection ends with the process, so a frame
cannot outlive an authority.

*Graphs.* The traversals and the topological count of `validate` are recursive
functions over rounds. What they compute is characterised without
induction over data: `Climb` applies the well-founded order of the naturals
to the set of rounds at which a claim fails; an iteration over subsets of ten
stages is constant from the tenth round on (`IterationSaturates`); and a finite
nonempty set of stages without a source has a smallest one (`SinksGiveSources`).
So the traversals compute the closed sets of `Reachable` and `Exits`, and the
topological count ends with a set in which every stage has an uncounted predecessor,
which is a cycle unless an edge out of a holding stage was taken off in its place.

### Only model-checked

Liveness (`PipelineCompletes`, `ServedIsAnswered`, `StopReturns`, `CallReturns`,
`OutcomeIsLearned`): fairness is out of the prover's reach. Every other property of a
passing run is stated by a theorem.

## 5. Not modelled, and the plan

Not modelled: the layout of payloads and of the frame header (a frame is what its
decoder gives, or no frame), partial sends and receives, socket options, hashing,
identities as 128-bit values with the salts of their generators, the audit
history, texts and explanations, the refusals of the `validate` functions of inputs, rejection
counters, tools, examples and benchmarks.

Next, in this order:

1. Identities: the generators in the state, what `snapshot` saves of them and what
   `decode` rebuilds, and that no identity is issued twice across restarts.
2. An abstract specification of a durable register that `CoordinatorServer`
   implements while no save fails.
