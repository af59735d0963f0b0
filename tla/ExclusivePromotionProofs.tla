----------------------- MODULE ExclusivePromotionProofs -----------------------
(***************************************************************************)
(* The promotion engine implements ExclusivePromotion, for every value of  *)
(* its constants.  Each step of the engine is a step of the promise or     *)
(* leaves what the promise speaks of unchanged: evaluate() grants, refuses *)
(* or stutters, commit() commits or withdraws, an operation at most        *)
(* withdraws, and an operation that changes the authority withdraws all.   *)
(***************************************************************************)
EXTENDS PromotionEngineProofs

\* What the refinement needs beside the plan invariant: an artifact has at most
\* one reservation, and its request has not committed.
GrantsAreExclusive ==
    /\ \A r, s \in pending : r.artifact = s.artifact => r = s
    /\ \A r \in pending : r.request \notin CommittedRequests

Sound == TypeOK /\ PlanInvariant /\ GrantsAreExclusive

Answered == {i.request : i \in idempotency}

Authority == <<epoch, compatibility_generation>>

-----------------------------------------------------------------------------
(* Steps that only withdraw.                                               *)

\* Nothing the promise speaks of is touched but the grants, which shrink, and
\* vanish when the authority changes.
Withdrawal ==
    /\ UNCHANGED idempotency
    /\ pending' \subseteq pending
    /\ UNCHANGED Authority \/ pending' = {}

\* Such a step keeps the invariant and implements a step of the promise.
LEMMA WithdrawalImplements ==
    ASSUME Sound, Withdrawal
    PROVE  GrantsAreExclusive' /\ [Promise!Next]_(Promise!vars)
  <1>1. /\ Answered' = Answered /\ CommittedRequests' = CommittedRequests
        /\ pending' \subseteq pending
    BY DEF Withdrawal, Answered, CommittedRequests
  <1>2. GrantsAreExclusive'
    BY <1>1 DEF Sound, GrantsAreExclusive
  <1>3. Grants' \subseteq Grants
    BY <1>1 DEF Grants
  <1>4. CASE UNCHANGED Authority
    BY <1>1, <1>2, <1>3, <1>4
       DEF Promise!Next, Promise!Withdraw, Answered, Authority
  <1>5. CASE Authority' # Authority
    <2>1. Grants' = {}
      BY <1>5 DEF Withdrawal, Grants
    <2> QED  BY <1>1, <1>2, <1>5, <2>1
             DEF Promise!Next, Promise!ChangeAuthority, Answered, Authority
  <1> QED  BY <1>2, <1>4, <1>5

\* Every step but evaluate() and the transition of a commit() is one.
LEMMA OperationsWithdraw ==
    ASSUME Sound, [Next]_vars,
           ~\E q \in Requests : evaluate(q), ~\E p \in plans : commit(p)
    PROVE  Withdrawal
  <1> USE DEF Withdrawal, Authority
  <1>1. CASE UNCHANGED vars
    BY <1>1 DEF vars
  <1>2. CASE TrustStep
    BY <1>2 DEF TrustStep, quarantine, release_quarantine, revoke, supersede,
                retire, revoke_evidence, Release
  <1>3. CASE \/ \E id \in VetoIds, b \in BOOLEAN : set_security_veto(id, b)
             \/ \E id \in VetoIds, b \in BOOLEAN : set_dependency_veto(id, b)
    BY <1>3 DEF set_security_veto, set_dependency_veto
  <1>4. CASE \/ \E r \in Registrations : register_artifact(r)
             \/ \E s \in Submissions : submit_evidence(s)
             \/ \E p \in Policies : publish_policy(p)
    BY <1>4 DEF register_artifact, submit_evidence, publish_policy
  <1>5. CASE \/ \E e \in Epochs : restart(e)
             \/ recover_in_flight
             \/ \E g \in CompatibilityGenerations : set_compatibility_generation(g)
             \/ \E open \in AdmissionStates : set_admission(open)
             \/ ClockStep
    BY <1>5 DEF restart, recover_in_flight, set_compatibility_generation,
                set_admission, ClockStep
  <1> QED  BY <1>1, <1>2, <1>3, <1>4, <1>5 DEF Next, OtherOperation, TrustStep

-----------------------------------------------------------------------------
(* evaluate().                                                             *)

\* A request that is granted its artifact finds no reservation on it: one of
\* another request is a conflict, and one of its own would mean that it was
\* answered before.
LEMMA EligibleIsAlone ==
    ASSUME Sound, NEW q, Unanswered(q), Verdict(q) = "PromotionEligible"
    PROVE  \A r \in pending : r.artifact # q.artifact
  <1>1. ~ConflictingReservation(q.artifact, q.request, q.attempt)
    BY DEF Verdict
  <1>2. \A r \in pending : r.artifact = q.artifact => r.request = q.request
    BY <1>1 DEF ConflictingReservation
  <1>3. \A r \in pending : \E i \in idempotency : i.request = r.request
    BY DEF Sound, PlanInvariant, RequestsHaveOnePlan
  <1> QED  BY <1>2, <1>3 DEF Unanswered

\* The first record of a request adds it to the answered requests, and to no
\* others.
LEMMA AnswerEffect ==
    ASSUME NEW q, NEW outcome, NEW plan, Answer(q, outcome, plan),
           plan = 0 \/ outcome # "PromotionCommitted"
    PROVE  /\ Answered' = Answered \cup {q.request}
           /\ CommittedRequests' = CommittedRequests
  <1> DEFINE new == [request |-> q.request, decision |-> NextDecision,
                     outcome |-> outcome, plan |-> plan]
  <1>1. idempotency' = idempotency \cup {new}
    BY DEF Answer
  <1>2. /\ new.request = q.request
        /\ ~(new.plan # 0 /\ new.outcome = "PromotionCommitted")
    OBVIOUS
  <1> HIDE DEF new
  <1> QED  BY <1>1, <1>2 DEF Answered, CommittedRequests

\* evaluate() refuses, grants or stutters.
LEMMA EvaluateImplements ==
    ASSUME Sound, NEW q \in Requests, evaluate(q)
    PROVE  GrantsAreExclusive' /\ [Promise!Next]_(Promise!vars)
  <1>1. /\ Unanswered(q) /\ UNCHANGED Authority
        /\ q.request \in RequestIds /\ q.artifact \in ArtifactIds
    BY InputsAssumption DEF evaluate, Authority, RequestIds
  <1>2. q.request \notin Answered
    BY <1>1 DEF Unanswered, Answered
  <1>3. ASSUME UNCHANGED pending, NEW outcome, Answer(q, outcome, 0)
        PROVE  GrantsAreExclusive' /\ [Promise!Next]_(Promise!vars)
    <2>1. /\ Answered' = Answered \cup {q.request}
          /\ CommittedRequests' = CommittedRequests
      BY <1>3, AnswerEffect
    <2>2. Grants' = Grants
      BY <1>3 DEF Grants
    <2>3. Promise!Refuse(q.request)
      BY <1>1, <1>2, <2>1, <2>2 DEF Promise!Refuse, Answered, Authority
    <2>4. GrantsAreExclusive'
      BY <1>3, <2>1 DEF Sound, GrantsAreExclusive
    <2> QED  BY <1>1, <2>3, <2>4 DEF Promise!Next
  <1>4. CASE EvaluateUnknown(q)
    BY <1>1, <1>4, WithdrawalImplements DEF EvaluateUnknown, Withdrawal
  <1>5. CASE EvaluateRejected(q)
    BY <1>3, <1>5 DEF EvaluateRejected
  <1>6. CASE EvaluateAtCapacity(q)
    BY <1>3, <1>6 DEF EvaluateAtCapacity
  <1>7. CASE EvaluatePlanned(q)
    <2> DEFINE r == ReservationFor(PlanFor(q))
               g == [artifact |-> q.artifact, request |-> q.request]
    <2>1. \A s \in pending : s.artifact # q.artifact
      BY <1>1, <1>7, EligibleIsAlone DEF EvaluatePlanned
    <2>2. r.artifact = q.artifact /\ r.request = q.request
      BY DEF ReservationFor, PlanFor
    <2>3. pending' = pending \cup {r}
      BY <1>7, <2>1 DEF EvaluatePlanned, Release
    <2>4. /\ Answered' = Answered \cup {q.request}
          /\ CommittedRequests' = CommittedRequests
      BY <1>7, AnswerEffect DEF EvaluatePlanned
    <2> HIDE DEF r
    <2>5. Grants' = Grants \cup {g}
      BY <2>2, <2>3 DEF Grants
    <2>6. \A h \in Grants : h.artifact # q.artifact
      BY <2>1 DEF Grants
    <2>7. Promise!Grant(q.request, q.artifact)
      BY <1>1, <1>2, <2>4, <2>5, <2>6
         DEF Promise!Grant, Answered, Authority
    <2>8. CommittedRequests \subseteq Answered
      BY DEF CommittedRequests, Answered
    <2>9. GrantsAreExclusive'
      BY <1>2, <2>1, <2>2, <2>3, <2>4, <2>8 DEF Sound, GrantsAreExclusive
    <2> QED  BY <1>1, <2>7, <2>9 DEF Promise!Next
  <1> QED  BY <1>4, <1>5, <1>6, <1>7 DEF evaluate

-----------------------------------------------------------------------------
(* commit().                                                               *)

\* Marking the record of a plan's request as committed adds that request, whose
\* record names the plan, to the committed ones.
LEMMA MarkEffect ==
    ASSUME Sound, NEW p \in plans, NEW r \in pending, r.plan = p.id,
           idempotency' = MarkCommitted(p)
    PROVE  /\ Answered' = Answered
           /\ CommittedRequests' = CommittedRequests \cup {p.request}
  <1> DEFINE Mark(i) == IF i.request = p.request
                        THEN [i EXCEPT !.outcome = "PromotionCommitted",
                                       !.decision = p.decision]
                        ELSE i
  <1>1. idempotency' = {Mark(i) : i \in idempotency}
    BY DEF MarkCommitted
  <1>2. \A i \in idempotency : /\ Mark(i).request = i.request
                               /\ Mark(i).plan = i.plan
                               /\ i.request = p.request =>
                                     Mark(i).outcome = "PromotionCommitted"
                               /\ i.request # p.request =>
                                     Mark(i).outcome = i.outcome
    BY DEF Sound, TypeOK, IdempotencyRecord
  <1> HIDE DEF Mark
  <1>3. p.request = r.request /\ p.id # 0
    BY DEF Sound, PlanInvariant, ReservationsAreCurrent, PlansAreFresh
  <1>4. PICK own \in idempotency : own.request = r.request /\ own.plan = r.plan
    BY DEF Sound, PlanInvariant, RequestsHaveOnePlan
  <1>5. \A i \in idempotency : i.request = p.request => i = own
    BY <1>3, <1>4 DEF Sound, PlanInvariant, RequestsHaveOnePlan
  <1>6. Answered' = Answered
    BY <1>1, <1>2 DEF Answered
  <1>7. p.request \in CommittedRequests'
    BY <1>1, <1>2, <1>3, <1>4 DEF CommittedRequests
  <1>8. CommittedRequests \subseteq CommittedRequests'
    <2>1. ASSUME NEW i \in idempotency, i.plan # 0,
                 i.outcome = "PromotionCommitted"
          PROVE  i.request \in CommittedRequests'
      <3>1. /\ Mark(i) \in idempotency' /\ Mark(i).request = i.request
            /\ Mark(i).plan # 0 /\ Mark(i).outcome = "PromotionCommitted"
        BY <1>1, <1>2, <2>1
      <3> QED  BY <3>1 DEF CommittedRequests
    <2> QED  BY <2>1 DEF CommittedRequests
  <1>9. CommittedRequests' \subseteq CommittedRequests \cup {p.request}
    <2>1. ASSUME NEW i \in idempotency, Mark(i).plan # 0,
                 Mark(i).outcome = "PromotionCommitted"
          PROVE  Mark(i).request \in CommittedRequests \cup {p.request}
      BY <1>2, <2>1 DEF CommittedRequests
    <2> QED  BY <1>1, <2>1 DEF CommittedRequests
  <1> QED  BY <1>6, <1>7, <1>8, <1>9

\* commit() commits the request that holds the artifact, or withdraws.
LEMMA CommitImplements ==
    ASSUME Sound, NEW p \in plans, commit(p)
    PROVE  GrantsAreExclusive' /\ [Promise!Next]_(Promise!vars)
  <1>1. UNCHANGED Authority
    BY DEF commit, Authority
  <1>2. \A outcome : CommitRefused(p, outcome) => Withdrawal
    BY <1>1 DEF CommitRefused, Release, Withdrawal
  <1>3. CASE Withdrawal
    BY <1>3, WithdrawalImplements
  <1>4. CASE CommitTransition(p)
    <2>1. PICK r \in pending : r.artifact = p.artifact /\ r.plan = p.id
      BY <1>4 DEF CommitTransition, ReservationHeld
    <2>2. p.request = r.request
      BY <2>1 DEF Sound, PlanInvariant, ReservationsAreCurrent
    <2>3. /\ Answered' = Answered
          /\ CommittedRequests' = CommittedRequests \cup {p.request}
      BY <1>4, <2>1, MarkEffect DEF CommitTransition
    <2>4. pending' = pending \ {r}
      BY <1>4, <2>1 DEF CommitTransition, Release, Sound, GrantsAreExclusive
    <2> DEFINE g == [artifact |-> r.artifact, request |-> r.request]
    <2>5. g \in Grants /\ g.request = r.request
      BY DEF Grants
    <2>6. \A s \in pending' : s.artifact # r.artifact
      BY <2>4 DEF Sound, GrantsAreExclusive
    <2>7. Grants' = Grants \ {g}
      BY <2>4, <2>6 DEF Grants
    <2> HIDE DEF g
    <2>8. r.request \notin CommittedRequests
      BY DEF Sound, GrantsAreExclusive
    <2>9. Promise!Commit(g)
      BY <1>1, <2>2, <2>3, <2>5, <2>7, <2>8
         DEF Promise!Commit, Answered, Authority
    <2>10. \A s \in pending : s.request = r.request => s = r
      <3>1. \A s \in pending :
               \E i \in idempotency : i.request = s.request /\ i.plan = s.plan
        BY DEF Sound, PlanInvariant, RequestsHaveOnePlan
      <3>2. \A i, j \in idempotency : i.request = j.request => i = j
        BY DEF Sound, PlanInvariant, RequestsHaveOnePlan
      <3>3. \A s, t \in pending : s.plan = t.plan => s = t
        BY DEF Sound, PlanInvariant, ReservationsAreCurrent
      <3> QED  BY <3>1, <3>2, <3>3
    <2>11. GrantsAreExclusive'
      BY <2>2, <2>3, <2>4, <2>10 DEF Sound, GrantsAreExclusive
    <2> QED  BY <2>5, <2>9, <2>11 DEF Promise!Next
  <1> QED
    BY <1>1, <1>2, <1>3, <1>4
       DEF commit, CommitPolicyStale, CommitExpired, CommitReservationLost,
           CommitEvidenceChanged, CommitGatesFailed, Withdrawal

-----------------------------------------------------------------------------
\* One step of the engine is one step of the promise, or none.
LEMMA StepImplements ==
    ASSUME Sound, [Next]_vars
    PROVE  Sound' /\ [Promise!Next]_(Promise!vars)
  <1>1. TypeOK' /\ PlanInvariant'
    BY TypeStep, PlanStep DEF Sound, PlanInvariant
  <1>2. CASE \E q \in Requests : evaluate(q)
    BY <1>1, <1>2, EvaluateImplements DEF Sound
  <1>3. CASE \E p \in plans : commit(p)
    BY <1>1, <1>3, CommitImplements DEF Sound
  <1>4. CASE /\ ~\E q \in Requests : evaluate(q)
             /\ ~\E p \in plans : commit(p)
    BY <1>1, <1>4, OperationsWithdraw, WithdrawalImplements DEF Sound
  <1> QED  BY <1>2, <1>3, <1>4

\* The engine implements exclusive promotion: every behaviour of its callers,
\* operations and restarts is a behaviour of ExclusivePromotion under the
\* mapping of its idempotency records, reservations and authority
\* (promotion.cpp 38-226, 264-509, engine.cpp 167-209, trust.cpp 571-592).
THEOREM EngineImplementsPromise == Spec => ImplementsExclusivePromotion
  <1>1. Init => Sound /\ Promise!Init
    <2> SUFFICES ASSUME Init PROVE Sound /\ Promise!Init
      OBVIOUS
    <2>1. TypeOK /\ PlanInvariant
      BY InitialState
    <2>2. idempotency = {} /\ pending = {} /\ epoch = 1
          /\ compatibility_generation = 1
      BY DEF Init
    <2> QED  BY <2>1, <2>2
             DEF Sound, GrantsAreExclusive, Promise!Init, Grants,
                 CommittedRequests
  <1>2. Sound /\ [Next]_vars => Sound' /\ [Promise!Next]_(Promise!vars)
    BY StepImplements
  <1> QED  BY <1>1, <1>2, PTL
           DEF Spec, ImplementsExclusivePromotion, Promise!Spec
=============================================================================
