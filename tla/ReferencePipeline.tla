--------------------------- MODULE ReferencePipeline ---------------------------
(***************************************************************************)
(* One client drives one artifact through the reference policy, the way    *)
(* promote() is used: it registers the artifact, delivers the evidence the *)
(* policy asks of its class, requests the next stage of the pipeline and   *)
(* commits the plan it gets.  When a request was refused it tries again    *)
(* under a new request identity.  Meanwhile the coordinator may restart    *)
(* under a new epoch and its clock may move past the lifetime of a plan.   *)
(***************************************************************************)
EXTENDS PromotionEngine

CONSTANTS Evidence,    \* the submissions, in the order they are delivered
          Subject      \* the artifact

Pipeline == <<"Candidate", "Verified", "Qualified", "Staged", "Approved",
              "Promoted">>

SubjectStage == artifacts[Subject][Current(Subject)].stage

\* A plan that nobody has tried to commit.
Uncommitted(p) == decisions[p.decision].outcome = "PromotionEligible"

\* A plan the client waits for.  The answer that carries a plan may be lost in
\* a restart, so the client does not wait for a plan of an earlier epoch; it
\* may still commit it when the answer comes late.
Outstanding(p) == Uncommitted(p) /\ p.epoch = epoch

\* The client asks for the stage after the one it sees, in the epoch it sees,
\* and only when it has no plan left to commit.
Ready(q) ==
    /\ q.epoch = epoch
    /\ \E i \in 1 .. Len(Pipeline) - 1 :
          SubjectStage = Pipeline[i] /\ q.to = Pipeline[i + 1]
    /\ ~\E p \in plans : Outstanding(p)

\* A new identity for each try: the field counts the tries.
FirstUnused(q) == \A r \in Requests : Ready(r) /\ Unanswered(r) => q.try <= r.try

Deliver ==
    /\ Len(evidence) < Len(Evidence)
    /\ submit_evidence(Evidence[Len(evidence) + 1])

ClientStep ==
    \/ \E r \in Registrations : register_artifact(r)
    \/ Deliver
    \/ /\ Registered(Subject) /\ Len(evidence) = Len(Evidence)
       /\ \E q \in Requests : Ready(q) /\ Unanswered(q) /\ FirstUnused(q) /\ evaluate(q)
    \/ \E p \in plans : Uncommitted(p) /\ commit(p)

Disturbance ==
    \/ \E e \in Epochs : restart(e)
    \/ ClockStep /\ now' > now

PipelineNext == ClientStep \/ Disturbance

\* The client goes on as long as there is something for it to do; nothing is
\* assumed of the restarts and the clock.
PipelineSpec == Init /\ [][PipelineNext]_vars /\ WF_vars(ClientStep)

\* The artifact is promoted in the end: the gates of the reference policy can
\* be passed one after the other, and no restart between a plan and its commit
\* leaves a reservation, a decision or a stage behind that blocks the next try
\* (engine.cpp 177-201, promotion.cpp 106-141, policy.cpp 364-517).
PipelineCompletes == <>(Registered(Subject) /\ SubjectStage = "Promoted")
=============================================================================
