-------------------------- MODULE MCCoordinatorServer --------------------------
(***************************************************************************)
(* Two connections, a worker that is restarted and retries, and a save     *)
(* that may fail.                                                          *)
(***************************************************************************)
EXTENDS CoordinatorServer, TLC

CONSTANTS t1, t2

Restarted == {[worker |-> "w", boot |-> 1], [worker |-> "w", boot |-> 2]}

Single == {[worker |-> "w", boot |-> 1]}

Promotion(r) == [request |-> r, kind |-> "Promotion"]
Evaluation(r) == [request |-> r, kind |-> "Evaluate"]
Registration(r) == [request |-> r, kind |-> "Registration"]
Trust(r) == [request |-> r, kind |-> "Trust"]
SnapshotSave(r) == [request |-> r, kind |-> "SnapshotSave"]

\* Two promotions race with each other.
RacingFrames == {Promotion("r1"), Promotion("r2")}

\* They race with the other kinds of frames as well.
AllFrames ==
    RacingFrames \cup
    {Evaluation("r1"), Registration("a"), Trust("q"), SnapshotSave("s")}

\* One promotion, sent again by the restarted worker.
RetriedFrame == {Promotion("r1")}

ConnectionSymmetry == Permutations({t1, t2})
=============================================================================
