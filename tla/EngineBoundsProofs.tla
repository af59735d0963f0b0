-------------------------- MODULE EngineBoundsProofs --------------------------
(***************************************************************************)
(* Proofs about what the promotion engine counts, for every value of its   *)
(* constants: its collections stay within EngineConfig, and the records    *)
(* it keeps, which are those of the last transitions, account for every    *)
(* promotion and every answer.                                             *)
(***************************************************************************)
EXTENDS EnginePolicyProofs, FiniteSetTheorems

-----------------------------------------------------------------------------
(* Lemmas about counting.                                                  *)

\* A nonempty set of records with natural identities has an oldest one.
LEMMA OldestExists ==
    ASSUME NEW S, S # {}, \A r \in S : r.id \in Nat
    PROVE  \E r \in S : \A q \in S : ~(q.id < r.id)
  <1> DEFINE ids == {r.id : r \in S}
             R == OpToRel(<, Nat)
  <1>1. ids \subseteq Nat /\ ids # {}
    OBVIOUS
  <1>2. IsWellFoundedOn(R, Nat)
    BY NatLessThanWellFounded
  <1> HIDE DEF R
  <1>3. PICK n \in ids : \A m \in ids : <<m, n>> \notin R
    BY <1>1, <1>2, WFMin
  <1>4. \A m \in ids : ~(m < n)
    BY <1>1, <1>3 DEF R, OpToRel
  <1> QED  BY <1>4

\* A subset of a finite set is finite and not larger.
LEMMA SmallerSet ==
    ASSUME NEW S, NEW T, T \subseteq S, IsFiniteSet(S)
    PROVE  /\ IsFiniteSet(T)
           /\ Cardinality(S) \in Nat /\ Cardinality(T) \in Nat
           /\ Cardinality(T) <= Cardinality(S)
           /\ T # S => Cardinality(T) < Cardinality(S)
  <1>1. IsFiniteSet(T) /\ Cardinality(T) <= Cardinality(S)
        /\ (Cardinality(S) = Cardinality(T) => S = T)
    BY FS_Subset
  <1>2. Cardinality(S) \in Nat /\ Cardinality(T) \in Nat
    BY <1>1, FS_CardinalityType
  <1> QED  BY <1>1, <1>2

\* One element more is at most one more.
LEMMA OneMore ==
    ASSUME NEW S, NEW x, IsFiniteSet(S)
    PROVE  /\ IsFiniteSet(S \cup {x})
           /\ Cardinality(S) \in Nat /\ Cardinality(S \cup {x}) \in Nat
           /\ Cardinality(S \cup {x}) <= Cardinality(S) + 1
  <1>1. Cardinality(S) \in Nat
    BY FS_CardinalityType
  <1> QED  BY <1>1, FS_AddElement

\* Eviction makes room for one record: std::map::erase(begin()) removes one
\* when the bound is reached.
LEMMA EvictBound ==
    ASSUME NEW S, IsFiniteSet(S), \A r \in S : r.id \in Nat,
           NEW bound \in Nat \ {0}, Cardinality(S) <= bound
    PROVE  /\ IsFiniteSet(Evict(S, bound))
           /\ Cardinality(Evict(S, bound)) \in Nat
           /\ Cardinality(Evict(S, bound)) < bound
           /\ Cardinality(Evict(S, bound)) <= Cardinality(S)
  <1>1. Cardinality(S) \in Nat
    BY FS_CardinalityType
  <1>2. CASE Cardinality(S) < bound
    <2>1. Evict(S, bound) = S
      BY <1>1, <1>2 DEF Evict
    <2> QED  BY <1>1, <1>2, <2>1
  <1>3. CASE Cardinality(S) = bound
    <2>1. S # {}
      BY <1>3, FS_EmptySet
    <2>2. PICK r \in S : \A q \in S : ~(q.id < r.id)
      BY <2>1, OldestExists
    <2>3. Evict(S, bound) = DropOldest(S)
      BY <1>1, <1>3 DEF Evict
    <2>4. DropOldest(S) \subseteq S /\ r \notin DropOldest(S)
      BY <2>2 DEF DropOldest
    <2>5. DropOldest(S) # S
      BY <2>4
    <2> QED  BY <1>3, <2>3, <2>4, <2>5, SmallerSet
  <1> QED  BY <1>1, <1>2, <1>3

\* Below the bound nothing is evicted.
LEMMA NothingEvicted ==
    ASSUME NEW S, NEW bound \in Nat, IsFiniteSet(S), Cardinality(S) < bound
    PROVE  Evict(S, bound) = S
  <1>1. Cardinality(S) \in Nat
    BY FS_CardinalityType
  <1> QED  BY <1>1 DEF Evict

-----------------------------------------------------------------------------
(* The bounds of EngineConfig.                                             *)

\* The artifacts that have a revision.
RegisteredIds == {a \in ArtifactIds : Registered(a)}

\* A finite set within its bound.
Within(S, bound) == IsFiniteSet(S) /\ Cardinality(S) <= bound

\* The inductive form of BoundsHold: the collections are finite, and there are
\* no more records than were ever issued.
CountInvariant ==
    /\ Within(pending, MaxPending)
    /\ Within(plans, MaxPlans)
    /\ Within(records, MaxRecords) /\ Cardinality(records) <= record_count
    /\ Within(RegisteredIds, MaxArtifacts)
    /\ \A a \in ArtifactIds : Len(artifacts[a]) <= MaxRevisions

\* The bounds are positive numbers.
LEMMA BoundsType ==
    /\ MaxPending \in Nat \ {0} /\ MaxPlans \in Nat \ {0}
    /\ MaxRecords \in Nat \ {0} /\ MaxArtifacts \in Nat \ {0}
    /\ MaxRevisions \in Nat \ {0} /\ MaxEvidence \in Nat \ {0}
    /\ MaxEvidencePerRevision \in Nat \ {0}
  BY NumbersAssumption

\* What stays within a bound when something is taken away.
LEMMA WithinSubset ==
    ASSUME NEW S, NEW T, NEW bound \in Nat, T \subseteq S, Within(S, bound)
    PROVE  Within(T, bound)
  <1>1. IsFiniteSet(S) /\ Cardinality(S) <= bound
    BY DEF Within
  <1>2. /\ IsFiniteSet(T) /\ Cardinality(S) \in Nat /\ Cardinality(T) \in Nat
        /\ Cardinality(T) <= Cardinality(S)
    BY <1>1, SmallerSet
  <1> QED  BY <1>1, <1>2 DEF Within

\* And when something is added to what is below it.
LEMMA WithinOneMore ==
    ASSUME NEW S, NEW x, NEW bound \in Nat, IsFiniteSet(S),
           Cardinality(S) < bound
    PROVE  Within(S \cup {x}, bound)
  <1>1. /\ IsFiniteSet(S \cup {x})
        /\ Cardinality(S) \in Nat /\ Cardinality(S \cup {x}) \in Nat
        /\ Cardinality(S \cup {x}) <= Cardinality(S) + 1
    BY OneMore
  <1> QED  BY <1>1 DEF Within

\* The reservations: evaluate() adds one below the bound, or replaces the one
\* of its artifact.
LEMMA PendingBound ==
    ASSUME TypeOK, Within(pending, MaxPending), [Next]_vars
    PROVE  Within(pending, MaxPending)'
  <1>1. MaxPending \in Nat
    BY BoundsType
  <1>2. CASE pending' \subseteq pending
    BY <1>1, <1>2, WithinSubset
  <1>3. ASSUME NEW q \in Requests, EvaluatePlanned(q)
        PROVE  Within(pending, MaxPending)'
    <2> DEFINE kept == Release(q.artifact)
    <2>1. pending' = kept \cup {ReservationFor(PlanFor(q))}
      BY <1>3 DEF EvaluatePlanned
    <2>2. kept \subseteq pending /\ IsFiniteSet(pending)
          /\ Cardinality(pending) <= MaxPending
      BY DEF Release, Within
    <2>3. IsFiniteSet(kept) /\ Cardinality(kept) < MaxPending
      <3>1. CASE Cardinality(pending) < MaxPending
        BY <1>1, <2>2, <3>1, SmallerSet
      <3>2. CASE \E r \in pending : r.artifact = q.artifact
        <4>1. kept # pending
          BY <3>2 DEF Release
        <4> QED  BY <1>1, <2>2, <4>1, SmallerSet
      <3> QED  BY <1>3, <3>1, <3>2 DEF EvaluatePlanned, ReservationAvailable
    <2> HIDE DEF kept
    <2> QED  BY <1>1, <2>1, <2>3, WithinOneMore
  <1> QED  BY <1>2, <1>3, PendingSteps

\* The plans: evaluate() evicts before it adds.
LEMMA PlansBound ==
    ASSUME TypeOK, Within(plans, MaxPlans), [Next]_vars
    PROVE  Within(plans, MaxPlans)'
  <1>1. MaxPlans \in Nat \ {0}
    BY BoundsType
  <1>2. /\ IsFiniteSet(plans) /\ Cardinality(plans) <= MaxPlans
        /\ \A p \in plans : p.id \in Nat
    BY DEF Within, TypeOK, PromotionPlan
  <1>3. /\ IsFiniteSet(Evict(plans, MaxPlans))
        /\ Cardinality(Evict(plans, MaxPlans)) < MaxPlans
    BY <1>1, <1>2, EvictBound
  <1>4. Evict(plans, MaxPlans) \subseteq plans
    BY EvictSubset
  <1>5. CASE UNCHANGED plans
    BY <1>5
  <1>6. CASE plans' = Evict(plans, MaxPlans)
    BY <1>1, <1>4, <1>6, WithinSubset
  <1>7. ASSUME NEW q, plans' = Evict(plans, MaxPlans) \cup {PlanFor(q)}
        PROVE  Within(plans, MaxPlans)'
    BY <1>1, <1>3, <1>7, WithinOneMore
  <1> QED  BY <1>5, <1>6, <1>7, PlanSteps

\* The records: AddRecord() evicts before it adds, and counts what it adds.
LEMMA RecordsBound ==
    ASSUME TypeOK, Within(records, MaxRecords),
           Cardinality(records) <= record_count, [Next]_vars
    PROVE  /\ Within(records, MaxRecords)'
           /\ (Cardinality(records) <= record_count)'
  <1>1. MaxRecords \in Nat \ {0} /\ record_count \in Nat
    BY BoundsType DEF TypeOK
  <1>2. /\ IsFiniteSet(records) /\ Cardinality(records) <= MaxRecords
        /\ \A r \in records : r.id \in Nat
    BY DEF Within, TypeOK, PromotionRecord
  <1> DEFINE kept == Evict(records, MaxRecords)
  <1>3. /\ IsFiniteSet(kept) /\ Cardinality(kept) \in Nat
        /\ Cardinality(kept) < MaxRecords
        /\ Cardinality(kept) <= Cardinality(records)
        /\ Cardinality(records) \in Nat
    BY <1>1, <1>2, EvictBound, FS_CardinalityType
  <1> HIDE DEF kept
  <1>4. CASE UNCHANGED <<records, record_count>>
    BY <1>4
  <1>5. ASSUME NEW new, RecordAdded(new)
        PROVE  /\ Within(records, MaxRecords)'
               /\ (Cardinality(records) <= record_count)'
    <2>1. records' = kept \cup {new} /\ record_count' = record_count + 1
      BY <1>5 DEF RecordAdded, kept
    <2>2. Within(kept \cup {new}, MaxRecords)
      BY <1>1, <1>3, WithinOneMore
    <2>3. /\ Cardinality(kept \cup {new}) \in Nat
          /\ Cardinality(kept \cup {new}) <= Cardinality(kept) + 1
      BY <1>3, OneMore
    <2>4. Cardinality(kept \cup {new}) <= record_count + 1
      BY <1>1, <1>3, <2>3
    <2> QED  BY <2>1, <2>2, <2>4
  <1> QED  BY <1>4, <1>5, RecordSteps

\* The artifacts and their revisions: register_artifact() tests both bounds.
LEMMA ChainsBound ==
    ASSUME TypeOK, PlansAreFresh, Within(RegisteredIds, MaxArtifacts),
           \A a \in ArtifactIds : Len(artifacts[a]) <= MaxRevisions,
           [Next]_vars
    PROVE  /\ Within(RegisteredIds, MaxArtifacts)'
           /\ (\A a \in ArtifactIds : Len(artifacts[a]) <= MaxRevisions)'
  <1>1. MaxArtifacts \in Nat /\ MaxRevisions \in Nat
    BY BoundsType
  <1>2. /\ TypeOK' /\ \A a \in ArtifactIds :
                         artifacts[a] \in Seq(ArtifactRecord)
                         /\ artifacts'[a] \in Seq(ArtifactRecord)
    <2>1. TypeOK'
      BY TypeStep
    <2> QED  BY <2>1 DEF TypeOK
  <1>3. \A a \in ArtifactIds : /\ Registered(a) <=> Len(artifacts[a]) # 0
                               /\ Registered(a)' <=> Len(artifacts'[a]) # 0
    BY <1>2, EmptySeq DEF Registered
  <1>4. CASE \A a \in ArtifactIds : Len(artifacts'[a]) = Len(artifacts[a])
    <2>1. RegisteredIds' = RegisteredIds
      BY <1>3, <1>4 DEF RegisteredIds
    <2> QED  BY <1>4, <2>1
  <1>5. ASSUME NEW r \in Registrations, register_artifact(r)
        PROVE  /\ Within(RegisteredIds, MaxArtifacts)'
               /\ (\A a \in ArtifactIds : Len(artifacts[a]) <= MaxRevisions)'
    <2>1. /\ r.id \in ArtifactIds
          /\ Len(artifacts'[r.id]) = Len(artifacts[r.id]) + 1
          /\ \A a \in ArtifactIds \ {r.id} : artifacts'[a] = artifacts[a]
      BY <1>5, RegisterView
    <2>2. /\ Len(artifacts[r.id]) < MaxRevisions
          /\ \/ Registered(r.id)
             \/ Cardinality(RegisteredIds) < MaxArtifacts
      BY <1>5 DEF register_artifact, RegisteredIds
    <2>3. \A a \in ArtifactIds : Len(artifacts'[a]) <= MaxRevisions
      <3>1. Len(artifacts[r.id]) \in Nat
        BY <1>2, <2>1
      <3>2. Len(artifacts'[r.id]) <= MaxRevisions
        BY <1>1, <2>1, <2>2, <3>1
      <3>3. \A a \in ArtifactIds \ {r.id} : Len(artifacts'[a]) <= MaxRevisions
        BY <2>1
      <3> QED  BY <3>2, <3>3
    <2>4. RegisteredIds' = RegisteredIds \cup {r.id}
      <3>1. Registered(r.id)'
        BY <1>2, <1>3, <2>1
      <3>2. \A a \in ArtifactIds \ {r.id} : Registered(a)' <=> Registered(a)
        BY <2>1 DEF Registered
      <3> QED  BY <2>1, <3>1, <3>2 DEF RegisteredIds
    <2>5. CASE Registered(r.id)
      <3>1. RegisteredIds' = RegisteredIds
        BY <2>1, <2>4, <2>5 DEF RegisteredIds
      <3> QED  BY <2>3, <3>1
    <2>6. CASE Cardinality(RegisteredIds) < MaxArtifacts
      <3>1. IsFiniteSet(RegisteredIds)
        BY DEF Within
      <3>2. Within(RegisteredIds \cup {r.id}, MaxArtifacts)
        BY <1>1, <2>6, <3>1, WithinOneMore
      <3> QED  BY <2>3, <2>4, <3>2
    <2> QED  BY <2>2, <2>5, <2>6
  <1>6. CASE UNCHANGED artifacts
    BY <1>4, <1>6
  <1>7. CASE \E p \in plans : commit(p)
    BY <1>4, <1>7, CommitView
  <1>8. CASE TrustStep
    BY <1>4, <1>8, TrustView
  <1> QED  BY <1>5, <1>6, <1>7, <1>8, ArtifactSteps

\* Every collection stays within its bound, for every bound
\* (promotion.cpp 143-145, 194-205, 441-443, engine.cpp 254-258, 289-298).
THEOREM CountsAreSound == Spec => []CountInvariant
  <1>1. Init => CountInvariant
    <2> SUFFICES ASSUME Init PROVE CountInvariant
      OBVIOUS
    <2>1. /\ pending = {} /\ plans = {} /\ records = {} /\ record_count = 0
          /\ \A a \in ArtifactIds : artifacts[a] = <<>>
      BY DEF Init
    <2>2. RegisteredIds = {}
      BY <2>1 DEF RegisteredIds, Registered
    <2>3. \A bound \in Nat : Within({}, bound)
      BY FS_EmptySet DEF Within
    <2>4. \A a \in ArtifactIds : Len(artifacts[a]) = 0
      BY <2>1
    <2> QED  BY <2>1, <2>2, <2>3, <2>4, BoundsType, FS_EmptySet DEF CountInvariant
  <1>2. TypeOK /\ PlanInvariant /\ CountInvariant /\ [Next]_vars
           => CountInvariant'
    BY PendingBound, PlansBound, RecordsBound, ChainsBound
       DEF CountInvariant, PlanInvariant
  <1> QED  BY <1>1, <1>2, StateIsSound, PTL DEF Spec

\* No sequence of operations takes the reservations, plans, records, artifacts
\* or revisions beyond EngineConfig (promotion.cpp 143-145, 194-205, 441-443,
\* engine.cpp 254-258, 289-298).
THEOREM BoundsAlwaysHold == Spec => []BoundsHold
  <1>1. CountInvariant => BoundsHold
    BY DEF CountInvariant, Within, RegisteredIds, BoundsHold
  <1> QED  BY <1>1, CountsAreSound, PTL

-----------------------------------------------------------------------------
(* The records of a revision tell one story.                               *)

\* The record a step adds, and the one move it stands for.
MoveRecorded(new) ==
    /\ record_count' = record_count + 1
    /\ records' = Evict(records, MaxRecords) \cup {new}
    /\ new.id = record_count + 1
    /\ new.artifact \in ArtifactIds
    /\ HasRevision(new.artifact, new.artifact_revision)
    /\ new.from = artifacts[new.artifact][new.artifact_revision].stage
    /\ new.to = artifacts'[new.artifact][new.artifact_revision].stage
    /\ \A a \in ArtifactIds : \A v \in 1 .. Len(artifacts[a]) :
          \/ a = new.artifact /\ v = new.artifact_revision
          \/ artifacts'[a][v].stage = artifacts[a][v].stage

\* A move without a record ends in QUARANTINED or SUPERSEDED.
MovesUnrecorded ==
    /\ UNCHANGED <<records, record_count>>
    /\ \A a \in ArtifactIds : \A v \in 1 .. Len(artifacts[a]) :
          artifacts'[a][v].stage
             \in {artifacts[a][v].stage, "Quarantined", "Superseded"}

\* AddRecord(), field by field.
LEMMA AddRecordView ==
    ASSUME NEW id, NEW v, NEW to, NEW d, NEW plan, NEW request, NEW e, NEW g,
           AddRecord(id, v, to, d, plan, request, e, g)
    PROVE  \E new : /\ record_count' = record_count + 1
                    /\ records' = Evict(records, MaxRecords) \cup {new}
                    /\ new.id = record_count + 1
                    /\ new.artifact = id /\ new.artifact_revision = v
                    /\ new.from = artifacts[id][v].stage /\ new.to = to
                    /\ new.decision = d
  <1> DEFINE new == [id |-> record_count + 1, artifact |-> id,
                     artifact_revision |-> v, from |-> StageBefore(id, v),
                     to |-> to, decision |-> d, plan |-> plan,
                     request |-> request, epoch |-> e, policy_generation |-> g]
  <1>1. /\ new.id = record_count + 1
        /\ new.artifact = id /\ new.artifact_revision = v
        /\ new.from = artifacts[id][v].stage /\ new.to = to
        /\ new.decision = d
    BY DEF StageBefore
  <1>2. /\ record_count' = record_count + 1
        /\ records' = Evict(records, MaxRecords) \cup {new}
    BY DEF AddRecord
  <1> HIDE DEF new
  <1> QED  BY <1>1, <1>2

\* An operation that moves the current revision and records it.
LEMMA OperationRecorded ==
    ASSUME TypeOK, NEW id \in ArtifactIds, Registered(id),
           NEW changed \in ArtifactRecord, NEW to, NEW d, NEW request,
           MoveCurrent(id, changed, to), OperationRecord(id, to, d, request)
    PROVE  \E new : MoveRecorded(new)
  <1>1. HasRevision(id, Current(id))
    BY CurrentIsRevision
  <1>2. AddRecord(id, Current(id), to, d, 0, request, epoch, policy.generation)
    BY DEF OperationRecord
  <1>3. PICK new : /\ record_count' = record_count + 1
                   /\ records' = Evict(records, MaxRecords) \cup {new}
                   /\ new.id = record_count + 1
                   /\ new.artifact = id /\ new.artifact_revision = Current(id)
                   /\ new.from = artifacts[id][Current(id)].stage
                   /\ new.to = to
    BY <1>2, AddRecordView
  <1>4. \A a \in ArtifactIds : \A v \in 1 .. Len(artifacts[a]) :
           \/ a = id /\ v = Current(id)
           \/ artifacts'[a][v] = artifacts[a][v]
    BY MoveCurrentView
  <1>5. artifacts'[id][Current(id)].stage = to
    <2>1. artifacts' = [artifacts EXCEPT ![id] =
             [artifacts[id] EXCEPT ![Current(id)] =
                [changed EXCEPT !.stage = to, !.stage_generation = @ + 1]]]
      BY DEF MoveCurrent
    <2> DEFINE e == [changed EXCEPT !.stage = to, !.stage_generation = @ + 1]
    <2>2. e.stage = to
      BY DEF ArtifactRecord
    <2> HIDE DEF e
    <2>3. artifacts'[id][Current(id)] = e
      BY <1>1, <2>1, AtRevision DEF TypeOK, HasRevision, e
    <2> QED  BY <2>2, <2>3
  <1> QED  BY <1>1, <1>3, <1>4, <1>5 DEF MoveRecorded

\* Every step records the move it makes, but for a quarantine and for a newer
\* revision.
LEMMA MovesAreRecorded ==
    ASSUME TypeOK, PlansAreFresh, [Next]_vars
    PROVE  MovesUnrecorded \/ \E new : MoveRecorded(new)
  <1>1. CASE UNCHANGED <<artifacts, records, record_count>>
    BY <1>1 DEF MovesUnrecorded
  <1>2. ASSUME NEW r \in Registrations, register_artifact(r)
        PROVE  MovesUnrecorded
    <2>1. UNCHANGED <<records, record_count>>
      BY <1>2 DEF register_artifact
    <2>2. ASSUME NEW a \in ArtifactIds, NEW v \in 1 .. Len(artifacts[a])
          PROVE  artifacts'[a][v].stage
                    \in {artifacts[a][v].stage, "Quarantined", "Superseded"}
      <3>1. artifacts'[a][v] = artifacts[a][v] \/ DemotedBy(r, a, v)
        BY <1>2, RegisterView
      <3> QED  BY <3>1 DEF DemotedBy
    <2> QED  BY <2>1, <2>2 DEF MovesUnrecorded
  <1>3. ASSUME NEW p \in plans, commit(p)
        PROVE  MovesUnrecorded \/ \E new : MoveRecorded(new)
    <2>1. CASE ~CommitTransition(p)
      BY <1>1, <1>3, <2>1 DEF commit, CommitRefused, CommitPolicyStale,
         CommitExpired, CommitReservationLost, CommitEvidenceChanged,
         CommitGatesFailed
    <2>2. CASE CommitTransition(p)
      <3> DEFINE a == p.artifact
                 v == p.artifact_revision
      <3>1. a \in ArtifactIds /\ HasRevision(a, v)
        BY DEF TypeOK, PromotionPlan, PlansAreFresh
      <3>2. PICK new : /\ record_count' = record_count + 1
                       /\ records' = Evict(records, MaxRecords) \cup {new}
                       /\ new.id = record_count + 1
                       /\ new.artifact = a /\ new.artifact_revision = v
                       /\ new.from = artifacts[a][v].stage /\ new.to = p.to
        BY <2>2, AddRecordView DEF CommitTransition
      <3>3. \A b \in ArtifactIds : \A w \in 1 .. Len(artifacts[b]) :
               \/ b = a /\ w = v
               \/ artifacts'[b][w] = artifacts[b][w]
        BY <1>3, CommitView DEF TransitionedBy
      <3>4. artifacts'[a][v].stage = p.to
        <4> DEFINE e == Transitioned(artifacts[a][v], p)
        <4>1. artifacts[a][v] \in ArtifactRecord
          BY <3>1, RevisionType
        <4>2. ASSUME NEW x \in ArtifactRecord
              PROVE  Transitioned(x, p).stage = p.to
          BY DEF Transitioned, ArtifactRecord
        <4>3. e.stage = p.to
          BY <4>1, <4>2
        <4>4. artifacts' = [artifacts EXCEPT ![a] = [artifacts[a] EXCEPT ![v] = e]]
          BY <2>2 DEF CommitTransition
        <4> HIDE DEF e
        <4>5. artifacts'[a][v] = e
          BY <3>1, <4>4, AtRevision DEF TypeOK, HasRevision
        <4> QED  BY <4>3, <4>5
      <3> QED  BY <3>1, <3>2, <3>3, <3>4 DEF MoveRecorded
    <2> QED  BY <2>1, <2>2
  <1>4. QuarantineIds \subseteq ArtifactIds /\ WithdrawalIds \subseteq ArtifactIds
    BY InputsAssumption
  <1>5. ASSUME NEW id \in QuarantineIds, quarantine(id)
        PROVE  MovesUnrecorded
    <2>1. id \in ArtifactIds /\ Registered(id)
      BY <1>4, <1>5 DEF quarantine
    <2> DEFINE c == [CurrentArtifact(id) EXCEPT !.quarantined = TRUE]
    <2>2. c \in ArtifactRecord /\ MoveCurrent(id, c, "Quarantined")
      BY <1>5, <2>1, CurrentIsRevision, FlagsType DEF quarantine
    <2> HIDE DEF c
    <2>3. ASSUME NEW a \in ArtifactIds, NEW v \in 1 .. Len(artifacts[a])
          PROVE  artifacts'[a][v].stage \in {artifacts[a][v].stage, "Quarantined"}
      <3>1. \/ artifacts'[a][v] = artifacts[a][v]
            \/ Moved(c, artifacts'[a][v], "Quarantined", c.promoted,
                     c.promotion_decision, c.quarantined, c.revoked)
        BY <2>1, <2>2, MoveCurrentView
      <3> QED  BY <3>1 DEF Moved
    <2>4. UNCHANGED <<records, record_count>>
      BY <1>5 DEF quarantine
    <2> QED  BY <2>3, <2>4 DEF MovesUnrecorded
  <1>6. ASSUME NEW id \in QuarantineIds, release_quarantine(id)
        PROVE  MovesUnrecorded \/ \E new : MoveRecorded(new)
    <2>1. id \in ArtifactIds /\ Registered(id)
      BY <1>4, <1>6 DEF release_quarantine
    <2>2. CASE ReleaseRefused(id)
      BY <1>1, <2>2 DEF ReleaseRefused
    <2>3. CASE ReleaseGranted(id)
      <3> DEFINE c == [CurrentArtifact(id) EXCEPT !.quarantined = FALSE]
      <3>1. /\ c \in ArtifactRecord /\ MoveCurrent(id, c, "Candidate")
            /\ OperationRecord(id, "Candidate", NextDecision, InternalRequest)
        BY <2>1, <2>3, CurrentIsRevision, FlagsType DEF ReleaseGranted
      <3> HIDE DEF c
      <3> QED  BY <2>1, <3>1, OperationRecorded
    <2> QED  BY <1>6, <2>2, <2>3 DEF release_quarantine
  <1>7. ASSUME NEW id \in WithdrawalIds, NEW d \in RevocationTargets,
               revoke(id, d)
        PROVE  \E new : MoveRecorded(new)
    <2>1. id \in ArtifactIds /\ Registered(id)
      BY <1>4, <1>7 DEF revoke
    <2> DEFINE c == [CurrentArtifact(id) EXCEPT !.revoked = TRUE,
                                                !.promoted = FALSE]
    <2>2. c \in ArtifactRecord /\ MoveCurrent(id, c, "Revoked")
      BY <1>7, <2>1, CurrentIsRevision, FlagsType DEF revoke
    <2>3. \E x : OperationRecord(id, "Revoked", x, NoRequest)
      BY <1>7 DEF revoke
    <2> HIDE DEF c
    <2> QED  BY <2>1, <2>2, <2>3, OperationRecorded
  <1>8. ASSUME NEW id \in WithdrawalIds, NEW successor \in ArtifactIds,
               supersede(id, successor)
        PROVE  \E new : MoveRecorded(new)
    <2>1. id \in ArtifactIds /\ Registered(id)
      BY <1>4, <1>8 DEF supersede
    <2> DEFINE c == [CurrentArtifact(id) EXCEPT !.superseded = TRUE,
                                                !.promoted = FALSE]
    <2>2. c \in ArtifactRecord /\ MoveCurrent(id, c, "Superseded")
      BY <1>8, <2>1, CurrentIsRevision, FlagsType DEF supersede
    <2>3. \E x : OperationRecord(id, "Superseded", x, NoRequest)
      BY <1>8 DEF supersede
    <2> HIDE DEF c
    <2> QED  BY <2>1, <2>2, <2>3, OperationRecorded
  <1>9. ASSUME NEW id \in WithdrawalIds, retire(id)
        PROVE  \E new : MoveRecorded(new)
    <2>1. id \in ArtifactIds /\ Registered(id)
      BY <1>4, <1>9 DEF retire
    <2> DEFINE c == [CurrentArtifact(id) EXCEPT !.promoted = FALSE]
    <2>2. c \in ArtifactRecord /\ MoveCurrent(id, c, "Retired")
      BY <1>9, <2>1, CurrentIsRevision, FlagsType DEF retire
    <2>3. \E x : OperationRecord(id, "Retired", x, NoRequest)
      BY <1>9 DEF retire
    <2> HIDE DEF c
    <2> QED  BY <2>1, <2>2, <2>3, OperationRecorded
  <1>10. ASSUME NEW e, revoke_evidence(e)
         PROVE  MovesUnrecorded \/ \E new : MoveRecorded(new)
    BY <1>1, <1>10 DEF revoke_evidence
  <1>11. CASE TrustStep
    BY <1>5, <1>6, <1>7, <1>8, <1>9, <1>10, <1>11 DEF TrustStep
  <1>12. CASE /\ ~TrustStep /\ ~\E p \in plans : commit(p)
              /\ ~\E r \in Registrations : register_artifact(r)
    <2>1. UNCHANGED artifacts
      BY <1>12, ArtifactSteps
    <2>2. UNCHANGED <<records, record_count>>
      BY <1>12, RecordSteps DEF RecordAdded
    <2> QED  BY <1>1, <2>1, <2>2
  <1> QED  BY <1>2, <1>3, <1>11, <1>12

\* Two records of one revision.
SameRevision(r, s) ==
    r.artifact = s.artifact /\ r.artifact_revision = s.artifact_revision

\* No record of the same revision is newer.
NewestIn(S, r) == \A t \in S : ~(SameRevision(t, r) /\ r.id < t.id)

\* The inductive form of RecordsFormAPath: the newest record of a revision says
\* where the revision is, unless an operation without a record moved it since.
RecordsTellStage ==
    /\ \A r \in records : /\ r.id <= record_count
                          /\ HasRevision(r.artifact, r.artifact_revision)
    /\ \A r \in records :
          NewestIn(records, r) =>
             artifacts[r.artifact][r.artifact_revision].stage
                \in {r.to, "Quarantined", "Superseded"}
    /\ RecordsFormAPath

\* What eviction drops is older than all it keeps.
LEMMA EvictedIsOldest ==
    ASSUME NEW S, NEW bound, NEW t \in S, NEW r \in S, r.id < t.id
    PROVE  t \in Evict(S, bound)
  BY DEF Evict, DropOldest

\* One step keeps the path of the records of each revision.
LEMMA PathStep ==
    ASSUME TypeOK, PlansAreFresh, RecordsTellStage, [Next]_vars
    PROVE  RecordsTellStage'
  <1>1. /\ records \subseteq PromotionRecord
        /\ record_count \in Nat
        /\ \A r \in records : r.id \in Nat /\ r.artifact \in ArtifactIds
    BY DEF TypeOK, PromotionRecord
  <1>2. \A r \in records :
           /\ r.artifact_revision \in 1 .. Len(artifacts[r.artifact])
           /\ r.artifact_revision \in 1 .. Len(artifacts'[r.artifact])
    BY <1>1, RevisionStep DEF RecordsTellStage, HasRevision
  <1> DEFINE stage(r) == artifacts[r.artifact][r.artifact_revision].stage
             stageAfter(r) == artifacts'[r.artifact][r.artifact_revision].stage
  <1>3. CASE MovesUnrecorded
    <2>1. records' = records /\ record_count' = record_count
      BY <1>3 DEF MovesUnrecorded
    <2>2. \A r \in records :
             stageAfter(r) \in {stage(r), "Quarantined", "Superseded"}
      BY <1>1, <1>2, <1>3 DEF MovesUnrecorded
    <2>3. \A r \in records : NewestIn(records', r) =>
             stageAfter(r) \in {r.to, "Quarantined", "Superseded"}
      BY <2>1, <2>2 DEF RecordsTellStage
    <2>4. RecordsFormAPath'
      BY <2>1 DEF RecordsTellStage, RecordsFormAPath
    <2> QED  BY <1>2, <2>1, <2>3, <2>4 DEF RecordsTellStage, HasRevision
  <1>4. ASSUME NEW new, MoveRecorded(new)
        PROVE  RecordsTellStage'
    <2> DEFINE kept == Evict(records, MaxRecords)
    <2>1. /\ record_count' = record_count + 1
          /\ records' = kept \cup {new} /\ kept \subseteq records
          /\ new.id = record_count + 1
          /\ new.artifact \in ArtifactIds
          /\ new.artifact_revision \in 1 .. Len(artifacts[new.artifact])
          /\ new.from = stage(new) /\ new.to = stageAfter(new)
      BY <1>4, EvictSubset DEF MoveRecorded, HasRevision
    <2>2. \A r \in records : r.id < new.id /\ r.id <= record_count
      BY <1>1, <2>1 DEF RecordsTellStage
    <2>3. \A r \in records : SameRevision(r, new) \/ stageAfter(r) = stage(r)
      BY <1>2, <1>4, <1>1 DEF MoveRecorded, SameRevision
    <2>4. \A r, t \in records : r.id < t.id => t \in kept
      BY EvictedIsOldest
    <2> HIDE DEF kept
    <2>5. ASSUME NEW r \in records'
          PROVE  /\ r.id <= record_count'
                 /\ r.artifact_revision \in 1 .. Len(artifacts'[r.artifact])
      <3>1. new.artifact_revision \in 1 .. Len(artifacts'[new.artifact])
        BY <2>1, RevisionStep
      <3> QED  BY <1>1, <1>2, <2>1, <2>2, <3>1
    <2>6. ASSUME NEW r \in records', NewestIn(records', r)
          PROVE  stageAfter(r) \in {r.to, "Quarantined", "Superseded"}
      <3>1. CASE r = new
        BY <2>1, <3>1
      <3>2. CASE r # new
        <4>1. r \in records /\ r \in kept
          BY <2>1, <3>2
        <4>2. ~SameRevision(new, r)
          BY <2>1, <2>2, <2>6, <4>1 DEF NewestIn
        <4>3. stageAfter(r) = stage(r)
          BY <2>3, <4>1, <4>2 DEF SameRevision
        <4>4. NewestIn(records, r)
          BY <2>1, <2>4, <2>6, <4>1 DEF NewestIn
        <4> QED  BY <4>1, <4>3, <4>4 DEF RecordsTellStage
      <3> QED  BY <3>1, <3>2
    <2>7. ASSUME NEW r \in records', NEW s \in records',
                 SameRevision(r, s), r.id < s.id,
                 \A t \in records' : ~(/\ SameRevision(t, r)
                                       /\ r.id < t.id /\ t.id < s.id)
          PROVE  s.from \in {r.to, "Quarantined", "Superseded"}
      <3>1. r # new /\ r \in records
        <4>1. ASSUME r = new PROVE FALSE
          <5>1. s # new
            BY <1>1, <2>1, <2>7, <4>1
          <5> QED  BY <1>1, <2>1, <2>2, <2>7, <4>1, <5>1
        <4> QED  BY <2>1, <4>1
      <3>2. CASE s = new
        <4>1. NewestIn(records, r)
          BY <2>1, <2>2, <2>4, <2>7, <3>1, <3>2 DEF NewestIn
        <4>2. s.from = stage(r)
          BY <2>1, <2>7, <3>2 DEF SameRevision
        <4> QED  BY <3>1, <4>1, <4>2 DEF RecordsTellStage
      <3>3. CASE s # new
        <4>1. s \in records
          BY <2>1, <3>3
        <4>2. \A t \in records : ~(/\ t.artifact = r.artifact
                                   /\ t.artifact_revision = r.artifact_revision
                                   /\ r.id < t.id /\ t.id < s.id)
          BY <2>1, <2>4, <2>7, <3>1 DEF SameRevision
        <4>3. r.artifact = s.artifact /\ r.artifact_revision = s.artifact_revision
          BY <2>7 DEF SameRevision
        <4> QED  BY <2>7, <3>1, <4>1, <4>2, <4>3
                 DEF RecordsTellStage, RecordsFormAPath
      <3> QED  BY <3>2, <3>3
    <2>8. RecordsFormAPath'
      BY <2>7 DEF RecordsFormAPath, SameRevision
    <2> QED  BY <2>5, <2>6, <2>8 DEF RecordsTellStage, HasRevision
  <1> QED  BY <1>3, <1>4, MovesAreRecorded

\* The newest record of a revision tells its stage in every state.
LEMMA StageIsTold == Spec => []RecordsTellStage
  <1>1. Init => RecordsTellStage
    BY DEF Init, RecordsTellStage, RecordsFormAPath
  <1>2. TypeOK /\ PlanInvariant /\ RecordsTellStage /\ [Next]_vars
           => RecordsTellStage'
    BY PathStep DEF PlanInvariant
  <1> QED  BY <1>1, <1>2, StateIsSound, PTL DEF Spec

\* The records kept of a revision tell one story, for every policy: each starts
\* where the one before it ended, or where a quarantine or a newer revision put
\* it (promotion.cpp 398-444, trust.cpp 84-90, engine.cpp 306-317).
THEOREM RecordsAreAPath == Spec => []RecordsFormAPath
  <1>1. RecordsTellStage => RecordsFormAPath
    BY DEF RecordsTellStage
  <1> QED  BY <1>1, StageIsTold, PTL

-----------------------------------------------------------------------------
(* The records account for every promotion.                                *)

\* The inductive form of LatestRecordsAreKept: there are as many records as
\* were made, up to the bound, and no two have the same identity.
RecordsAreCounted ==
    /\ IsFiniteSet(records)
    /\ Cardinality(records)
          = IF record_count < MaxRecords THEN record_count ELSE MaxRecords
    /\ \A r, s \in records : r.id = s.id => r = s
    /\ LatestRecordsAreKept

\* The identities of the records kept, one by one.
LEMMA KeptIdentities ==
    ASSUME record_count \in Nat, LatestRecordsAreKept
    PROVE  /\ \A r \in records : /\ r.id \in 1 .. record_count
                                 /\ r.id + MaxRecords > record_count
           /\ \A n \in 1 .. record_count :
                 n + MaxRecords > record_count => \E r \in records : r.id = n
  <1> DEFINE ids == {r.id : r \in records}
             kept == {n \in 1 .. record_count : n + MaxRecords > record_count}
  <1>1. ids = kept
    BY DEF LatestRecordsAreKept
  <1>2. \A r \in records : r.id \in ids
    OBVIOUS
  <1>3. \A n \in ids : \E r \in records : r.id = n
    OBVIOUS
  <1> HIDE DEF ids
  <1> QED  BY <1>1, <1>2, <1>3

\* AddRecord() drops the oldest record, and only that one, when it must.
LEMMA NewRecordIsCounted ==
    ASSUME TypeOK, RecordsAreCounted, NEW new,
           record_count' = record_count + 1,
           records' = Evict(records, MaxRecords) \cup {new},
           new.id = record_count + 1
    PROVE  RecordsAreCounted'
  <1> DEFINE N == record_count
             M == MaxRecords
             kept == Evict(records, MaxRecords)
  <1>1. N \in Nat /\ M \in Nat \ {0} /\ \A r \in records : r.id \in Nat
    BY BoundsType DEF TypeOK, PromotionRecord
  <1>2. /\ \A r \in records : r.id \in 1 .. N /\ r.id + M > N
        /\ \A n \in 1 .. N : n + M > N => \E r \in records : r.id = n
    BY <1>1, KeptIdentities DEF RecordsAreCounted
  <1>3. IsFiniteSet(records) /\ \A r, s \in records : r.id = s.id => r = s
    BY DEF RecordsAreCounted
  <1>4. Cardinality(records) = IF N < M THEN N ELSE M
    BY DEF RecordsAreCounted
  <1>5. CASE N < M
    <2>1. kept = records
      BY <1>1, <1>3, <1>4, <1>5, NothingEvicted
    <2>2. new \notin records
      BY <1>1, <1>2
    <2>3. IsFiniteSet(records') /\ Cardinality(records') = N + 1
      BY <1>3, <1>4, <1>5, <2>1, <2>2, FS_AddElement
    <2>4. \A r, s \in records' : r.id = s.id => r = s
      BY <1>1, <1>2, <1>3, <2>1
    <2>5. {r.id : r \in records'} = {n \in 1 .. N + 1 : n + M > N + 1}
      <3>1. ASSUME NEW r \in records'
            PROVE  r.id \in 1 .. N + 1 /\ r.id + M > N + 1
        BY <1>1, <1>2, <1>5, <2>1
      <3>2. ASSUME NEW n \in 1 .. N + 1
            PROVE  \E r \in records' : r.id = n
        BY <1>1, <1>2, <1>5, <2>1
      <3> QED  BY <3>1, <3>2
    <2>6. Cardinality(records') = IF N + 1 < M THEN N + 1 ELSE M
      BY <1>1, <1>5, <2>3
    <2> QED  BY <2>3, <2>4, <2>5, <2>6 DEF RecordsAreCounted, LatestRecordsAreKept
  <1>6. CASE N >= M
    <2> DEFINE m == N - M + 1
    <2>1. m \in 1 .. N /\ m + M > N /\ m \in Nat
      BY <1>1, <1>6
    <2>2. PICK old \in records : old.id = m
      BY <1>2, <2>1
    <2>3. \A r \in records : r.id >= m
      BY <1>1, <1>2
    <2>4. kept = records \ {old}
      <3>1. kept = DropOldest(records)
        BY <1>1, <1>4, <1>6 DEF Evict
      <3>2. old \notin DropOldest(records)
        BY <1>1, <2>1, <2>2, <2>3 DEF DropOldest
      <3>3. ASSUME NEW r \in records, r # old
            PROVE  r \in DropOldest(records)
        <4>1. old.id < r.id
          BY <1>1, <1>3, <2>1, <2>2, <2>3, <3>3
        <4> QED  BY <4>1 DEF DropOldest
      <3> QED  BY <3>1, <3>2, <3>3 DEF DropOldest
    <2>5. IsFiniteSet(kept) /\ Cardinality(kept) = M - 1
      BY <1>1, <1>3, <1>4, <1>6, <2>4, FS_RemoveElement
    <2>6. new \notin kept
      BY <1>1, <1>2, <2>4
    <2> HIDE DEF kept
    <2>7. IsFiniteSet(records') /\ Cardinality(records') = M
      <3>1. Cardinality(kept \cup {new}) = M - 1 + 1 /\ IsFiniteSet(kept \cup {new})
        BY <2>5, <2>6, FS_AddElement
      <3> QED  BY <1>1, <3>1 DEF kept
    <2>8. records' = (records \ {old}) \cup {new}
      BY <2>4 DEF kept
    <2>9. \A r, s \in records' : r.id = s.id => r = s
      BY <1>1, <1>2, <1>3, <2>8
    <2>10. {r.id : r \in records'} = {n \in 1 .. N + 1 : n + M > N + 1}
      <3>1. ASSUME NEW r \in records'
            PROVE  r.id \in 1 .. N + 1 /\ r.id + M > N + 1
        <4>1. CASE r = new
          BY <1>1, <4>1
        <4>2. CASE r \in records /\ r # old
          BY <1>1, <1>2, <1>3, <2>1, <2>2, <2>3, <4>2
        <4> QED  BY <2>8, <4>1, <4>2
      <3>2. ASSUME NEW n \in 1 .. N + 1, n + M > N + 1
            PROVE  \E r \in records' : r.id = n
        <4>1. CASE n = N + 1
          BY <2>8, <4>1
        <4>2. CASE n \in 1 .. N
          <5>1. PICK r \in records : r.id = n
            BY <1>1, <1>2, <3>2, <4>2
          <5>2. r # old
            BY <1>1, <2>2, <3>2, <5>1
          <5> QED  BY <2>8, <5>1, <5>2
        <4> QED  BY <1>1, <3>2, <4>1, <4>2
      <3> QED  BY <3>1, <3>2
    <2>11. Cardinality(records') = IF N + 1 < M THEN N + 1 ELSE M
      BY <1>1, <1>6, <2>7
    <2> QED  BY <2>7, <2>9, <2>10, <2>11
             DEF RecordsAreCounted, LatestRecordsAreKept
  <1> QED  BY <1>1, <1>5, <1>6

\* A step adds one record or none.
LEMMA LatestAreKept == Spec => []RecordsAreCounted
  <1>1. Init => RecordsAreCounted
    <2> SUFFICES ASSUME Init PROVE RecordsAreCounted
      OBVIOUS
    <2>1. records = {} /\ record_count = 0
      BY DEF Init
    <2>2. 1 .. 0 = {}
      OBVIOUS
    <2>3. LatestRecordsAreKept
      BY <2>1, <2>2 DEF LatestRecordsAreKept
    <2> QED  BY <2>1, <2>3, BoundsType, FS_EmptySet DEF RecordsAreCounted
  <1>2. TypeOK /\ RecordsAreCounted /\ [Next]_vars => RecordsAreCounted'
    <2> SUFFICES ASSUME TypeOK, RecordsAreCounted, [Next]_vars
                 PROVE  RecordsAreCounted'
      OBVIOUS
    <2>1. CASE UNCHANGED <<records, record_count>>
      BY <2>1 DEF RecordsAreCounted, LatestRecordsAreKept
    <2>2. ASSUME NEW new, RecordAdded(new)
          PROVE  RecordsAreCounted'
      BY <2>2, NewRecordIsCounted DEF RecordAdded
    <2> QED  BY <2>1, <2>2, RecordSteps
  <1> QED  BY <1>1, <1>2, StateIsSound, PTL DEF Spec

-----------------------------------------------------------------------------
(* What becomes of a decision.                                             *)

\* A decision is never dropped, and a commit() that rewrites it keeps whose it
\* is.
LEMMA DecisionsStay ==
    ASSUME TypeOK, [Next]_vars, NEW d \in DOMAIN decisions
    PROVE  /\ d \in DOMAIN decisions'
           /\ decisions'[d].request = decisions[d].request
           /\ decisions'[d].plan = decisions[d].plan
  <1> DEFINE Goal == /\ d \in DOMAIN decisions'
                     /\ decisions'[d].request = decisions[d].request
                     /\ decisions'[d].plan = decisions[d].plan
  <1>1. decisions \in Seq(PromotionDecision)
    BY DEF TypeOK
  <1>2. ASSUME NEW request, NEW outcome, NEW plan, Decide(request, outcome, plan)
        PROVE  Goal
    <2> DEFINE x == [request |-> request, outcome |-> outcome, plan |-> plan]
    <2>1. decisions' = Append(decisions, x)
      BY <1>2 DEF Decide
    <2> HIDE DEF x
    <2>2. d \in DOMAIN decisions' /\ decisions'[d] = decisions[d]
      BY <1>1, <2>1
    <2> QED  BY <2>2
  <1>3. ASSUME NEW p, NEW outcome, Redecide(p, outcome)
        PROVE  Goal
    <2>1. decisions[d] \in PromotionDecision
      BY <1>1
    <2>2. DOMAIN decisions' = DOMAIN decisions
      BY <1>3 DEF Redecide
    <2>3. decisions'[d] \in {decisions[d], [decisions[d] EXCEPT !.outcome = outcome]}
      BY <1>3 DEF Redecide
    <2> QED  BY <2>1, <2>2, <2>3 DEF PromotionDecision
  <1>4. CASE decisions' = decisions
    BY <1>4
  <1>5. ASSUME NEW q \in Requests, evaluate(q)
        PROVE  Goal
    BY <1>2, <1>5 DEF evaluate, EvaluateUnknown, EvaluateRejected,
       EvaluatePlanned, EvaluateAtCapacity, Answer
  <1>6. ASSUME NEW p \in plans, commit(p)
        PROVE  Goal
    BY <1>3, <1>6 DEF commit, CommitRefused, CommitPolicyStale, CommitExpired,
       CommitReservationLost, CommitEvidenceChanged, CommitGatesFailed,
       CommitTransition
  <1>7. ASSUME NEW id \in QuarantineIds, release_quarantine(id)
        PROVE  Goal
    BY <1>2, <1>7 DEF release_quarantine
  <1>8. CASE /\ ~\E q \in Requests : evaluate(q)
             /\ ~\E p \in plans : commit(p)
             /\ ~\E id \in QuarantineIds : release_quarantine(id)
    <2>1. decisions' = decisions
      BY <1>8 DEF Next, OtherOperation, vars, register_artifact,
         submit_evidence, publish_policy, restart, recover_in_flight,
         set_compatibility_generation, set_admission, ClockStep,
         set_security_veto, set_dependency_veto, quarantine,
         revoke, supersede, retire, revoke_evidence
    <2> QED  BY <1>4, <2>1
  <1> QED  BY <1>5, <1>6, <1>7, <1>8

\* The decision evaluate() makes, and the answer and the plan that name it.
EvaluatedAs(q, outcome, plan) ==
    /\ decisions' = Append(decisions, [request |-> q.request,
                                       outcome |-> outcome, plan |-> plan])
    /\ outcome # "PromotionCommitted"
    /\ \/ idempotency' = idempotency
       \/ idempotency' = idempotency \cup
             {[request |-> q.request, decision |-> NextDecision,
               outcome |-> outcome, plan |-> plan]}
    /\ \/ plans' \subseteq plans
       \/ /\ plan = plan_count + 1
          /\ plans' \subseteq plans \cup {PlanFor(q)}

\* evaluate() never answers that a request is committed.
LEMMA AnswersAreNoCommits ==
    ASSUME TypeOK, ValidPolicy(policy), NEW q \in Requests, evaluate(q)
    PROVE  \E outcome, plan : EvaluatedAs(q, outcome, plan)
  <1>1. Verdict(q) # "PromotionCommitted"
    <2>1. EvaluateGates(q) # "PromotionCommitted"
      BY EligiblePassedGates DEF TypeOK
    <2> QED  BY <2>1 DEF Verdict
  <1>2. Evict(plans, MaxPlans) \subseteq plans
    BY EvictSubset
  <1>3. CASE EvaluateUnknown(q)
    <2> DEFINE o == IF HasRevision(q.artifact, q.artifact_revision)
                    THEN "DigestMismatch" ELSE "ArtifactNotFound"
    <2>1. EvaluatedAs(q, o, 0)
      BY <1>3 DEF EvaluateUnknown, Decide, EvaluatedAs
    <2> QED  BY <2>1
  <1>4. CASE EvaluateRejected(q)
    <2>1. EvaluatedAs(q, Verdict(q), 0)
      BY <1>1, <1>4 DEF EvaluateRejected, Answer, Decide, EvaluatedAs
    <2> QED  BY <2>1
  <1>5. CASE EvaluatePlanned(q)
    <2>1. EvaluatedAs(q, "PromotionEligible", plan_count + 1)
      BY <1>2, <1>5 DEF EvaluatePlanned, Answer, Decide, EvaluatedAs
    <2> QED  BY <2>1
  <1>6. CASE EvaluateAtCapacity(q)
    <2>1. EvaluatedAs(q, "AdmissionRejected", 0)
      BY <1>2, <1>6 DEF EvaluateAtCapacity, Answer, Decide, EvaluatedAs
    <2> QED  BY <2>1
  <1> QED  BY <1>3, <1>4, <1>5, <1>6 DEF evaluate

\* The decision of a plan is held, and is of that plan and its request.
PlansHaveDecisions ==
    \A p \in plans : /\ p.decision \in DOMAIN decisions
                     /\ decisions[p.decision].request = p.request
                     /\ decisions[p.decision].plan = p.id

\* What evaluate() appends.
LEMMA DecisionAdded ==
    ASSUME TypeOK, NEW q, NEW outcome, NEW plan, EvaluatedAs(q, outcome, plan)
    PROVE  /\ NextDecision \in DOMAIN decisions' /\ NextDecision \notin DOMAIN decisions
           /\ decisions'[NextDecision].request = q.request
           /\ decisions'[NextDecision].outcome = outcome
           /\ decisions'[NextDecision].plan = plan
           /\ \A d \in DOMAIN decisions :
                 d \in DOMAIN decisions' /\ decisions'[d] = decisions[d]
  <1> DEFINE x == [request |-> q.request, outcome |-> outcome, plan |-> plan]
  <1>1. decisions' = Append(decisions, x) /\ decisions \in Seq(PromotionDecision)
    BY DEF EvaluatedAs, TypeOK
  <1>2. x.request = q.request /\ x.outcome = outcome /\ x.plan = plan
    OBVIOUS
  <1> HIDE DEF x
  <1>3. /\ NextDecision \in DOMAIN decisions' /\ NextDecision \notin DOMAIN decisions
        /\ decisions'[NextDecision] = x
        /\ \A d \in DOMAIN decisions :
              d \in DOMAIN decisions' /\ decisions'[d] = decisions[d]
    BY <1>1 DEF NextDecision
  <1> QED  BY <1>2, <1>3

LEMMA PlansAreDecidedOn == Spec => []PlansHaveDecisions
  <1>1. Init => PlansHaveDecisions
    BY DEF Init, PlansHaveDecisions
  <1>2. TypeOK /\ ValidPolicy(policy) /\ PlansHaveDecisions /\ [Next]_vars
           => PlansHaveDecisions'
    <2> SUFFICES ASSUME TypeOK, ValidPolicy(policy), PlansHaveDecisions,
                        [Next]_vars, NEW p \in plans'
                 PROVE  /\ p.decision \in DOMAIN decisions'
                        /\ decisions'[p.decision].request = p.request
                        /\ decisions'[p.decision].plan = p.id
      BY DEF PlansHaveDecisions
    <2>1. CASE p \in plans
      BY <2>1, DecisionsStay DEF PlansHaveDecisions
    <2>2. ASSUME NEW q \in Requests, evaluate(q), p \notin plans
          PROVE  /\ p.decision \in DOMAIN decisions'
                 /\ decisions'[p.decision].request = p.request
                 /\ decisions'[p.decision].plan = p.id
      <3>1. PICK outcome, plan : EvaluatedAs(q, outcome, plan)
        BY <2>2, AnswersAreNoCommits
      <3>2. p = PlanFor(q) /\ plan = plan_count + 1
        BY <2>2, <3>1 DEF EvaluatedAs
      <3>3. p.decision = NextDecision /\ p.request = q.request
            /\ p.id = plan_count + 1
        BY <3>2 DEF PlanFor
      <3> QED  BY <3>1, <3>2, <3>3, DecisionAdded
    <2>3. CASE ~\E q \in Requests : evaluate(q)
      <3>1. plans' = plans
        BY <2>3 DEF Next, OtherOperation, vars, register_artifact,
           submit_evidence, publish_policy, restart, recover_in_flight,
           set_compatibility_generation, set_admission, ClockStep,
           commit, set_security_veto, set_dependency_veto, quarantine,
           release_quarantine, revoke, supersede, retire, revoke_evidence
      <3> QED  BY <2>1, <3>1
    <2> QED  BY <2>1, <2>2, <2>3
  <1> QED  BY <1>1, <1>2, StateIsSound, PolicyIsValid, PTL DEF Spec

-----------------------------------------------------------------------------
(* Every promotion is on record, or its record was evicted.                *)

\* What becomes of a record: it stays while fewer were made than are kept, and
\* no record goes before an older one.
LEMMA RecordsStay ==
    ASSUME TypeOK, RecordsAreCounted, [Next]_vars
    PROVE  /\ record_count' \in Nat /\ record_count <= record_count'
           /\ \A r, t \in records : t \in records' /\ t.id < r.id => r \in records'
           /\ record_count' <= MaxRecords => records \subseteq records'
  <1>1. record_count \in Nat /\ MaxRecords \in Nat
    BY BoundsType DEF TypeOK
  <1>2. CASE UNCHANGED <<records, record_count>>
    BY <1>1, <1>2
  <1>3. ASSUME NEW new, RecordAdded(new)
        PROVE  /\ record_count' \in Nat /\ record_count <= record_count'
               /\ \A r, t \in records :
                     t \in records' /\ t.id < r.id => r \in records'
               /\ record_count' <= MaxRecords => records \subseteq records'
    <2>1. /\ record_count' = record_count + 1
          /\ records' = Evict(records, MaxRecords) \cup {new}
      BY <1>3 DEF RecordAdded
    <2>2. \A r, t \in records : t.id < r.id => r \in Evict(records, MaxRecords)
      BY EvictedIsOldest
    <2>3. ASSUME record_count' <= MaxRecords
          PROVE  Evict(records, MaxRecords) = records
      <3>1. record_count < MaxRecords
        BY <1>1, <2>1, <2>3
      <3>2. IsFiniteSet(records) /\ Cardinality(records) < MaxRecords
        BY <3>1 DEF RecordsAreCounted
      <3> QED  BY <1>1, <3>2, NothingEvicted
    <2> QED  BY <1>1, <2>1, <2>2, <2>3
  <1> QED  BY <1>2, <1>3, RecordSteps

\* What PromotedHasRecord says of one revision.
PromotionAccounted(a, v, d) ==
    /\ d \in DOMAIN decisions
    /\ \/ PromotionIsOnRecord(a, v, d)
       \/ PromotionRecords(a, v) = {} /\ record_count > MaxRecords

\* A step that does not promote the revision leaves its promotion accounted
\* for: if the record goes, so have all older ones.
LEMMA AccountStays ==
    ASSUME TypeOK, RecordsAreCounted, [Next]_vars,
           NEW a, NEW v, NEW d,
           PromotionAccounted(a, v, d),
           \A new \in records' \ records :
               ~(/\ new.artifact = a /\ new.artifact_revision = v
                 /\ new.to = "Promoted")
    PROVE  PromotionAccounted(a, v, d)'
  <1>1. /\ record_count \in Nat /\ MaxRecords \in Nat
        /\ \A r \in records : r.id \in Nat
    BY BoundsType DEF TypeOK, PromotionRecord
  <1>2. /\ d \in DOMAIN decisions /\ d \in DOMAIN decisions'
        /\ decisions'[d].request = decisions[d].request
        /\ decisions'[d].plan = decisions[d].plan
    BY DecisionsStay DEF PromotionAccounted
  <1>3. PromotionRecords(a, v)' \subseteq PromotionRecords(a, v)
    BY DEF PromotionRecords
  <1>4. /\ record_count' \in Nat /\ record_count <= record_count'
        /\ \A r, t \in records : t \in records' /\ t.id < r.id => r \in records'
        /\ record_count' <= MaxRecords => records \subseteq records'
    BY RecordsStay
  <1>5. CASE PromotionRecords(a, v) = {} /\ record_count > MaxRecords
    <2>1. PromotionRecords(a, v)' = {} /\ record_count' > MaxRecords
      BY <1>1, <1>3, <1>4, <1>5
    <2> QED  BY <1>2, <2>1 DEF PromotionAccounted
  <1>6. CASE PromotionIsOnRecord(a, v, d)
    <2>1. PICK r \in PromotionRecords(a, v) :
             /\ \A s \in PromotionRecords(a, v) : s.id <= r.id
             /\ r.decision = d
             /\ r.plan = decisions[d].plan /\ r.request = decisions[d].request
      BY <1>6 DEF PromotionIsOnRecord
    <2>2. CASE r \in records'
      <3>1. r \in PromotionRecords(a, v)'
        BY <2>1, <2>2 DEF PromotionRecords
      <3>2. PromotionIsOnRecord(a, v, d)'
        BY <1>2, <1>3, <2>1, <3>1 DEF PromotionIsOnRecord
      <3> QED  BY <1>2, <3>2 DEF PromotionAccounted
    <2>3. CASE r \notin records'
      <3>1. r \in records /\ record_count' > MaxRecords
        BY <1>1, <1>4, <2>1, <2>3 DEF PromotionRecords
      <3>2. ASSUME NEW s \in PromotionRecords(a, v)'
            PROVE  FALSE
        <4>1. s \in PromotionRecords(a, v) /\ s \in records /\ s \in records'
          BY <1>3 DEF PromotionRecords
        <4>2. s.id <= r.id /\ s # r
          BY <2>1, <2>3, <4>1
        <4>3. s.id # r.id
          BY <3>1, <4>1, <4>2 DEF RecordsAreCounted
        <4>4. s.id < r.id
          BY <1>1, <3>1, <4>1, <4>2, <4>3
        <4> QED  BY <1>4, <2>3, <3>1, <4>1, <4>4
      <3>3. PromotionRecords(a, v)' = {}
        BY <3>2
      <3> QED  BY <1>2, <3>1, <3>3 DEF PromotionAccounted
    <2> QED  BY <2>2, <2>3
  <1> QED  BY <1>5, <1>6 DEF PromotionAccounted

\* commit() of a plan to PROMOTED makes the newest record.
LEMMA PromotionIsNewest ==
    ASSUME TypeOK, RecordsAreCounted, PlansHaveDecisions, [Next]_vars,
           NEW p \in plans, commit(p), CommitTransition(p), p.to = "Promoted"
    PROVE  PromotionAccounted(p.artifact, p.artifact_revision, p.decision)'
  <1> DEFINE new == [id |-> record_count + 1, artifact |-> p.artifact,
                     artifact_revision |-> p.artifact_revision,
                     from |-> StageBefore(p.artifact, p.artifact_revision),
                     to |-> p.to, decision |-> p.decision, plan |-> p.id,
                     request |-> p.request, epoch |-> p.epoch,
                     policy_generation |-> p.policy.generation]
  <1>1. records' = Evict(records, MaxRecords) \cup {new}
    BY DEF CommitTransition, AddRecord
  <1>2. /\ new.id = record_count + 1 /\ new.artifact = p.artifact
        /\ new.artifact_revision = p.artifact_revision /\ new.to = "Promoted"
        /\ new.decision = p.decision /\ new.plan = p.id
        /\ new.request = p.request
    OBVIOUS
  <1> HIDE DEF new
  <1>3. /\ p.decision \in DOMAIN decisions'
        /\ decisions'[p.decision].request = p.request
        /\ decisions'[p.decision].plan = p.id
    BY DecisionsStay DEF PlansHaveDecisions
  <1>4. record_count \in Nat /\ \A r \in records : r.id \in 1 .. record_count
    BY KeptIdentities DEF TypeOK, RecordsAreCounted
  <1>5. \A r \in records' : r.id <= new.id
    BY <1>1, <1>2, <1>4, EvictSubset
  <1>6. new \in PromotionRecords(p.artifact, p.artifact_revision)'
    BY <1>1, <1>2 DEF PromotionRecords
  <1>7. PromotionIsOnRecord(p.artifact, p.artifact_revision, p.decision)'
    BY <1>2, <1>3, <1>5, <1>6 DEF PromotionIsOnRecord, PromotionRecords
  <1> QED  BY <1>3, <1>7 DEF PromotionAccounted

\* One step keeps every promotion accounted for.
LEMMA PromotionRecordStep ==
    ASSUME TypeOK, PlansAreFresh, RecordsAreCounted, PlansHaveDecisions,
           PromotedHasRecord, [Next]_vars,
           NEW a \in ArtifactIds, NEW v \in DOMAIN artifacts'[a],
           artifacts'[a][v].promoted,
           NEW d, d = artifacts'[a][v].promotion_decision
    PROVE  PromotionAccounted(a, v, d)'
  <1>1. /\ artifacts \in [ArtifactIds -> Seq(ArtifactRecord)]
        /\ DOMAIN artifacts[a] = 1 .. Len(artifacts[a])
        /\ DOMAIN artifacts'[a] = 1 .. Len(artifacts'[a])
    <2>1. TypeOK'
      BY TypeStep
    <2> QED  BY <2>1 DEF TypeOK
  <1> DEFINE Promotes(p) == /\ commit(p) /\ CommitTransition(p)
                            /\ p.artifact = a /\ p.artifact_revision = v
                            /\ p.to = "Promoted"
  <1>2. ASSUME NEW p \in plans, Promotes(p)
        PROVE  PromotionAccounted(a, v, d)'
    <2>1. HasRevision(a, v)
      BY <1>2 DEF PlansAreFresh
    <2> DEFINE e == Transitioned(artifacts[a][v], p)
    <2>2. e.promotion_decision = p.decision
      <3>1. artifacts[a][v] \in ArtifactRecord
        BY <2>1, RevisionType
      <3>2. ASSUME NEW x \in ArtifactRecord
            PROVE  Transitioned(x, p).promotion_decision = p.decision
        BY <1>2 DEF Transitioned, ArtifactRecord
      <3> QED  BY <3>1, <3>2
    <2>3. artifacts' = [artifacts EXCEPT ![a] = [artifacts[a] EXCEPT ![v] = e]]
      BY <1>2 DEF CommitTransition
    <2> HIDE DEF e
    <2>4. artifacts'[a][v] = e
      BY <1>1, <2>1, <2>3, AtRevision DEF HasRevision
    <2> QED  BY <1>2, <2>2, <2>4, PromotionIsNewest
  <1>3. ASSUME ~\E p \in plans : Promotes(p)
        PROVE  PromotionAccounted(a, v, d)'
    <2>1. \A new \in records' \ records :
             ~(/\ new.artifact = a /\ new.artifact_revision = v
               /\ new.to = "Promoted")
      <3>1. ASSUME NEW new, RecordAdded(new)
            PROVE  ~(/\ new.artifact = a /\ new.artifact_revision = v
                     /\ new.to = "Promoted")
        BY <1>3, <3>1 DEF RecordAdded
      <3>2. ASSUME NEW new, RecordAdded(new)
            PROVE  records' \ records \subseteq {new}
        BY <3>2, EvictSubset DEF RecordAdded
      <3> QED  BY <3>1, <3>2, RecordSteps
    <2>2. v \in DOMAIN artifacts[a]
      <3>1. \A r \in Registrations : ~NewRevision(r).promoted
        BY DEF NewRevision
      <3> QED  BY <1>1, <3>1, NewRevisionStep
    <2>3. artifacts[a][v].promoted /\ artifacts[a][v].promotion_decision = d
      <3>1. Changed(a, v)
        BY <1>1, <2>2, RevisionStep
      <3>2. ASSUME NEW r, DemotedBy(r, a, v)
            PROVE  artifacts[a][v].promoted
                   /\ artifacts[a][v].promotion_decision = d
        BY <3>2 DEF DemotedBy
      <3>3. ASSUME NEW p \in plans, TransitionedBy(p, a, v)
            PROVE  artifacts[a][v].promoted
                   /\ artifacts[a][v].promotion_decision = d
        BY <1>3, <3>3 DEF TransitionedBy, Moved
      <3>4. ASSUME MovedByTrust(a, v)
            PROVE  artifacts[a][v].promoted
                   /\ artifacts[a][v].promotion_decision = d
        BY <3>4 DEF MovedByTrust, Moved
      <3> QED  BY <3>1, <3>2, <3>3, <3>4 DEF Changed
    <2>4. PromotionAccounted(a, v, d)
      BY <2>2, <2>3 DEF PromotedHasRecord, PromotionAccounted
    <2> QED  BY <2>1, <2>4, AccountStays
  <1> QED  BY <1>2, <1>3

\* A revision that holds the promotion flag names a decision that is held, and
\* the newest record of its promotion is of that decision, its plan and its
\* request; it has none only when more records were made than are kept, and
\* then the records kept are those of the last transitions
\* (engine.cpp 692-712, promotion.cpp 398-454).
THEOREM PromotionIsRecorded == Spec => []PromotedHasRecord
  <1>1. Init => PromotedHasRecord
    <2> SUFFICES ASSUME Init PROVE PromotedHasRecord
      OBVIOUS
    <2>1. /\ records = {} /\ record_count = 0
          /\ \A a \in ArtifactIds : DOMAIN artifacts[a] = {}
      BY DEF Init
    <2>2. 1 .. 0 = {}
      OBVIOUS
    <2> QED  BY <2>1, <2>2 DEF PromotedHasRecord, LatestRecordsAreKept
  <1>2. TypeOK /\ PlanInvariant /\ RecordsAreCounted /\ RecordsAreCounted'
           /\ PlansHaveDecisions /\ PromotedHasRecord /\ [Next]_vars
           => PromotedHasRecord'
    <2> SUFFICES ASSUME TypeOK, PlanInvariant, RecordsAreCounted,
                        RecordsAreCounted', PlansHaveDecisions,
                        PromotedHasRecord, [Next]_vars
                 PROVE  PromotedHasRecord'
      OBVIOUS
    <2>1. ASSUME NEW a \in ArtifactIds, NEW v \in DOMAIN artifacts'[a],
                 artifacts'[a][v].promoted,
                 NEW d, d = artifacts'[a][v].promotion_decision
          PROVE  PromotionAccounted(a, v, d)'
      BY <2>1, PromotionRecordStep DEF PlanInvariant
    <2> QED  BY <2>1 DEF PromotedHasRecord, PromotionAccounted,
                RecordsAreCounted
  <1> QED  BY <1>1, <1>2, StateIsSound, LatestAreKept, PlansAreDecidedOn, PTL
           DEF Spec

-----------------------------------------------------------------------------
(* The answer to a retry and the records.                                  *)

\* What IdempotencyAgreesWithRecords says of one idempotency record.
Agrees(i) ==
    /\ i.decision \in DOMAIN decisions
    /\ decisions[i.decision].request = i.request
    /\ decisions[i.decision].outcome = "PromotionCommitted"
          => i.outcome = "PromotionCommitted"
    /\ RequestRecorded(i.request) => i.outcome = "PromotionCommitted"
    /\ i.outcome = "PromotionCommitted"
          => RequestRecorded(i.request) \/ record_count > MaxRecords

\* A record that no step makes for the request leaves the agreement as it is.
LEMMA AgreementStays ==
    ASSUME TypeOK, RecordsAreCounted, [Next]_vars, NEW i, Agrees(i),
           \A r \in records' \ records : r.plan = 0 \/ r.request # i.request,
           i.decision \in DOMAIN decisions',
           decisions'[i.decision].request = decisions[i.decision].request,
           \/ decisions'[i.decision].outcome = decisions[i.decision].outcome
           \/ decisions'[i.decision].outcome # "PromotionCommitted"
    PROVE  Agrees(i)'
  <1>1. record_count \in Nat /\ MaxRecords \in Nat
    BY BoundsType DEF TypeOK
  <1>2. RequestRecorded(i.request)' => RequestRecorded(i.request)
    BY DEF RequestRecorded
  <1>3. /\ record_count' \in Nat /\ record_count <= record_count'
        /\ record_count' <= MaxRecords => records \subseteq records'
    BY RecordsStay
  <1>4. RequestRecorded(i.request) \/ record_count > MaxRecords
           => RequestRecorded(i.request)' \/ record_count' > MaxRecords
    <2>1. CASE record_count' > MaxRecords
      BY <2>1
    <2>2. CASE record_count' <= MaxRecords
      BY <1>1, <1>3, <2>2 DEF RequestRecorded
    <2> QED  BY <1>1, <1>3, <2>1, <2>2
  <1> QED  BY <1>2, <1>4 DEF Agrees

\* The committed plan's request, and no other, is recorded and marked.
LEMMA TransitionIsMarked ==
    ASSUME TypeOK, PlansAreFresh, RecordsAreCounted, PlansHaveDecisions,
           \A i \in idempotency : Agrees(i), [Next]_vars,
           NEW p \in plans, commit(p), CommitTransition(p)
    PROVE  \A i \in idempotency' : Agrees(i)'
  <1>1. p.id # 0
    BY DEF PlansAreFresh
  <1> DEFINE new == [id |-> record_count + 1, artifact |-> p.artifact,
                     artifact_revision |-> p.artifact_revision,
                     from |-> StageBefore(p.artifact, p.artifact_revision),
                     to |-> p.to, decision |-> p.decision, plan |-> p.id,
                     request |-> p.request, epoch |-> p.epoch,
                     policy_generation |-> p.policy.generation]
  <1>2. records' = Evict(records, MaxRecords) \cup {new}
    BY DEF CommitTransition, AddRecord
  <1>3. new.plan = p.id /\ new.request = p.request
    OBVIOUS
  <1> HIDE DEF new
  <1>4. /\ new \in records' /\ records' \ records \subseteq {new}
        /\ RequestRecorded(p.request)'
    BY <1>1, <1>2, <1>3, EvictSubset DEF RequestRecorded
  <1>5. /\ p.decision \in DOMAIN decisions'
        /\ decisions'[p.decision].request = p.request
        /\ decisions[p.decision].request = p.request
    BY DecisionsStay DEF PlansHaveDecisions
  <1>6. /\ DOMAIN decisions' = DOMAIN decisions
        /\ \A d \in DOMAIN decisions :
              d # p.decision => decisions'[d] = decisions[d]
    BY DEF CommitTransition, Redecide
  <1> DEFINE Mark(i) == IF i.request = p.request
                        THEN [i EXCEPT !.outcome = "PromotionCommitted",
                                       !.decision = p.decision]
                        ELSE i
  <1>7. idempotency' = {Mark(i) : i \in idempotency}
    BY DEF CommitTransition, MarkCommitted
  <1>8. ASSUME NEW i \in idempotency, i.request = p.request
        PROVE  /\ Mark(i).request = p.request
               /\ Mark(i).decision = p.decision
               /\ Mark(i).outcome = "PromotionCommitted"
    <2>1. i \in IdempotencyRecord
      BY DEF TypeOK
    <2> QED  BY <1>8, <2>1 DEF IdempotencyRecord
  <1>9. ASSUME NEW i \in idempotency, i.request # p.request
        PROVE  Mark(i) = i /\ Agrees(i)'
    <2>1. Agrees(i)
      OBVIOUS
    <2>2. i.decision \in DOMAIN decisions /\ i.decision # p.decision
      BY <1>5, <1>9, <2>1 DEF Agrees
    <2>3. \A r \in records' \ records : r.plan = 0 \/ r.request # i.request
      BY <1>3, <1>4, <1>9
    <2>4. i.decision \in DOMAIN decisions'
          /\ decisions'[i.decision] = decisions[i.decision]
      BY <1>6, <2>2
    <2> QED  BY <1>9, <2>1, <2>3, <2>4, AgreementStays
  <1> HIDE DEF Mark
  <1>10. ASSUME NEW j \in idempotency' PROVE Agrees(j)'
    <2>1. PICK i \in idempotency : j = Mark(i)
      BY <1>7
    <2>2. CASE i.request = p.request
      <3>1. /\ j.request = p.request /\ j.decision = p.decision
            /\ j.outcome = "PromotionCommitted"
        BY <1>8, <2>1, <2>2
      <3> QED  BY <1>4, <1>5, <3>1 DEF Agrees
    <2>3. CASE i.request # p.request
      BY <1>9, <2>1, <2>3
    <2> QED  BY <2>2, <2>3
  <1> QED  BY <1>10

\* A refused commit() leaves no success in the decision it rewrites.
LEMMA RefusalIsNoCommit ==
    ASSUME TypeOK, ValidPolicy(policy), NEW p \in plans, commit(p),
           ~CommitTransition(p)
    PROVE  /\ UNCHANGED <<idempotency, records, record_count>>
           /\ DOMAIN decisions' = DOMAIN decisions
           /\ \A d \in DOMAIN decisions :
                 \/ decisions'[d] = decisions[d]
                 \/ /\ decisions'[d].request = decisions[d].request
                    /\ decisions'[d].outcome # "PromotionCommitted"
  <1>1. PICK outcome : Redecide(p, outcome) /\ outcome # "PromotionCommitted"
    <2>1. EvaluateGates(RequestOf(p)) # "PromotionCommitted"
      BY EligiblePassedGates DEF TypeOK
    <2> QED  BY <2>1 DEF commit, CommitRefused, CommitPolicyStale, CommitExpired,
                CommitReservationLost, CommitEvidenceChanged, CommitGatesFailed
  <1>2. UNCHANGED <<idempotency, records, record_count>>
    BY DEF commit, CommitRefused, CommitPolicyStale, CommitExpired,
       CommitReservationLost, CommitEvidenceChanged, CommitGatesFailed
  <1>3. decisions \in Seq(PromotionDecision)
    BY DEF TypeOK
  <1>4. ASSUME NEW d \in DOMAIN decisions
        PROVE  \/ decisions'[d] = decisions[d]
               \/ /\ decisions'[d].request = decisions[d].request
                  /\ decisions'[d].outcome # "PromotionCommitted"
    <2>1. decisions[d] \in PromotionDecision
      BY <1>3
    <2>2. \/ decisions'[d] = decisions[d]
          \/ decisions'[d] = [decisions[d] EXCEPT !.outcome = outcome]
      BY <1>1 DEF Redecide
    <2> QED  BY <1>1, <2>1, <2>2 DEF PromotionDecision
  <1>5. DOMAIN decisions' = DOMAIN decisions
    BY <1>1 DEF Redecide
  <1> QED  BY <1>2, <1>4, <1>5

\* One step keeps the idempotency records, the decisions they name and the
\* records in agreement.
LEMMA AgreementStep ==
    ASSUME TypeOK, PlanInvariant, RecordsAreCounted, ValidPolicy(policy),
           PlansHaveDecisions, \A i \in idempotency : Agrees(i), [Next]_vars
    PROVE  \A i \in idempotency' : Agrees(i)'
  <1>1. CASE \E p \in plans : commit(p) /\ CommitTransition(p)
    BY <1>1, TransitionIsMarked DEF PlanInvariant
  <1>2. CASE ~\E p \in plans : commit(p) /\ CommitTransition(p)
    <2>1. \A r \in records' \ records : r.plan = 0
      <3>1. ASSUME NEW new, RecordAdded(new)
            PROVE  new.plan = 0 /\ records' \ records \subseteq {new}
        BY <1>2, <3>1, EvictSubset DEF RecordAdded
      <3> QED  BY <3>1, RecordSteps
    <2>2. ASSUME NEW i \in idempotency,
                 \/ decisions'[i.decision] = decisions[i.decision]
                 \/ /\ decisions'[i.decision].request
                           = decisions[i.decision].request
                    /\ decisions'[i.decision].outcome # "PromotionCommitted"
          PROVE  Agrees(i)'
      <3>1. Agrees(i) /\ i.decision \in DOMAIN decisions
        BY DEF Agrees
      <3>2. i.decision \in DOMAIN decisions'
        BY <3>1, DecisionsStay
      <3> QED  BY <2>1, <2>2, <3>1, <3>2, AgreementStays
    <2>3. \A i \in idempotency : i.decision \in DOMAIN decisions
      BY DEF Agrees
    <2>4. ASSUME NEW q \in Requests, evaluate(q), NEW i \in idempotency'
          PROVE  Agrees(i)'
      <3>1. PICK outcome, plan : EvaluatedAs(q, outcome, plan)
        BY <2>4, AnswersAreNoCommits
      <3>2. /\ NextDecision \in DOMAIN decisions'
            /\ decisions'[NextDecision].request = q.request
            /\ decisions'[NextDecision].outcome = outcome
            /\ \A d \in DOMAIN decisions : decisions'[d] = decisions[d]
        BY <3>1, DecisionAdded
      <3>3. CASE i \in idempotency
        BY <2>2, <2>3, <3>2, <3>3
      <3>4. CASE i \notin idempotency
        <4>1. /\ i.request = q.request /\ i.decision = NextDecision
              /\ i.outcome = outcome /\ outcome # "PromotionCommitted"
          BY <2>4, <3>1, <3>4 DEF EvaluatedAs
        <4>2. ~RequestRecorded(q.request)
          <5>1. \A j \in idempotency : j.request # q.request
            BY <2>4 DEF evaluate, Unanswered
          <5> QED  BY <5>1 DEF RequestRecorded, PlanInvariant, RequestsHaveOnePlan
        <4>3. ~RequestRecorded(q.request)'
          BY <2>4, <4>2 DEF evaluate, RequestRecorded
        <4> QED  BY <3>2, <4>1, <4>3 DEF Agrees
      <3> QED  BY <3>3, <3>4
    <2>5. ASSUME NEW p \in plans, commit(p), NEW i \in idempotency'
          PROVE  Agrees(i)'
      <3>1. ~CommitTransition(p)
        BY <1>2, <2>5
      <3>2. /\ idempotency' = idempotency
            /\ \A d \in DOMAIN decisions :
                  \/ decisions'[d] = decisions[d]
                  \/ /\ decisions'[d].request = decisions[d].request
                     /\ decisions'[d].outcome # "PromotionCommitted"
        BY <2>5, <3>1, RefusalIsNoCommit
      <3> QED  BY <2>2, <2>3, <2>5, <3>2
    <2>6. ASSUME ~\E q \in Requests : evaluate(q), ~\E p \in plans : commit(p),
                 NEW i \in idempotency'
          PROVE  Agrees(i)'
      <3>1. idempotency' = idempotency
        BY <2>6 DEF Next, OtherOperation, vars, register_artifact,
           submit_evidence, publish_policy, restart, recover_in_flight,
           set_compatibility_generation, set_admission, ClockStep,
           set_security_veto, set_dependency_veto, quarantine,
           release_quarantine, revoke, supersede, retire, revoke_evidence
      <3>2. \/ decisions' = decisions
            \/ \E x : decisions' = Append(decisions, x)
        BY <2>6 DEF Next, OtherOperation, vars, register_artifact,
           submit_evidence, publish_policy, restart, recover_in_flight,
           set_compatibility_generation, set_admission, ClockStep,
           set_security_veto, set_dependency_veto, quarantine,
           release_quarantine, ReleaseRefused, ReleaseGranted, Decide,
           revoke, supersede, retire, revoke_evidence
      <3>3. decisions \in Seq(PromotionDecision)
        BY DEF TypeOK
      <3>4. \A d \in DOMAIN decisions : decisions'[d] = decisions[d]
        BY <3>2, <3>3
      <3> QED  BY <2>2, <2>3, <2>6, <3>1, <3>4
    <2> QED  BY <2>4, <2>5, <2>6
  <1> QED  BY <1>1, <1>2

\* What a retry is answered from agrees with the records, evicted or not: the
\* decision that the idempotency record of a request names is held and is of
\* that request, and it says committed only if the idempotency record does,
\* which does so for every request with a recorded transition and, until
\* records were evicted, for no other (promotion.cpp 56-69, 343-354, 441-459).
THEOREM AnswersAgreeWithRecords == Spec => []IdempotencyAgreesWithRecords
  <1> DEFINE All == \A i \in idempotency : Agrees(i)
  <1>1. Init => All
    BY DEF Init
  <1>2. TypeOK /\ PlanInvariant /\ RecordsAreCounted /\ ValidPolicy(policy)
           /\ PlansHaveDecisions /\ All /\ [Next]_vars => All'
    BY AgreementStep
  <1>3. All => IdempotencyAgreesWithRecords
    BY DEF Agrees, IdempotencyAgreesWithRecords
  <1> QED  BY <1>1, <1>2, <1>3, StateIsSound, LatestAreKept, PolicyIsValid,
              PlansAreDecidedOn, PTL DEF Spec

-----------------------------------------------------------------------------
(* The evidence a gate can use.                                            *)

\* The evidence records that are not superseded, of all and of one revision.
LiveEvidence == {e \in DOMAIN evidence : ~evidence[e].superseded}
LiveEvidenceOf(a, v) == LiveEvidence \cap GatherEvidence(a, v)

\* The inductive form of LiveEvidenceIsBounded: it counts the evidence of every
\* revision, registered or not.
EvidenceCounts ==
    /\ Within(LiveEvidence, MaxEvidence)
    /\ \A a, v : Within(LiveEvidenceOf(a, v), MaxEvidencePerRevision)

\* The evidence stays, and at most a record of it is revoked.
EvidenceKept ==
    /\ DOMAIN evidence' = DOMAIN evidence
    /\ \A e \in DOMAIN evidence :
          /\ evidence'[e].submission = evidence[e].submission
          /\ evidence'[e].superseded <=> evidence[e].superseded

\* A submission came in: what it replaces is superseded, and it is live.
EvidenceAdded(s) ==
    LET n == Len(evidence) + 1
    IN  /\ EvidenceAdmitted(s)
        /\ HasRevision(s.subject, s.subject_revision)
        /\ artifacts[s.subject][s.subject_revision].registration.digest
              = s.subject_digest
        /\ DOMAIN evidence' = DOMAIN evidence \cup {n}
        /\ evidence'[n].submission = s /\ ~evidence'[n].superseded
        /\ n \notin DOMAIN evidence
        /\ \A e \in DOMAIN evidence :
              /\ evidence'[e].submission = evidence[e].submission
              /\ evidence'[e].superseded
                    <=> evidence[e].superseded \/ e \in Replaced(s)

\* submit_evidence(), record by record.
LEMMA SubmitView ==
    ASSUME TypeOK, NEW s \in Submissions, submit_evidence(s)
    PROVE  EvidenceAdded(s)
  <1> DEFINE old == Replaced(s)
             kept == [e \in DOMAIN evidence |->
                         IF e \in old
                         THEN [evidence[e] EXCEPT !.superseded = TRUE]
                         ELSE evidence[e]]
  <1>1. PICK new : /\ evidence' = Append(kept, new)
                   /\ new.submission = s /\ ~new.superseded
    <2> DEFINE record(g) == [submission |-> s, generation |-> g,
                             revoked |-> FALSE, superseded |-> FALSE]
    <2>1. \E g : evidence' = Append(kept, record(g))
      BY DEF submit_evidence, SupersedeEvidence
    <2>2. \A g : record(g).submission = s /\ ~record(g).superseded
      OBVIOUS
    <2> HIDE DEF record, kept
    <2> QED  BY <2>1, <2>2
  <1>2. /\ evidence \in Seq(EvidenceRecord)
        /\ DOMAIN evidence = 1 .. Len(evidence) /\ Len(evidence) \in Nat
    BY DEF TypeOK
  <1>3. \A e \in DOMAIN evidence :
           /\ kept[e].submission = evidence[e].submission
           /\ kept[e].superseded <=> evidence[e].superseded \/ e \in old
    <2>1. ASSUME NEW x \in EvidenceRecord
          PROVE  /\ [x EXCEPT !.superseded = TRUE].submission = x.submission
                 /\ [x EXCEPT !.superseded = TRUE].superseded
      BY DEF EvidenceRecord
    <2> QED  BY <1>2, <2>1
  <1>4. /\ DOMAIN evidence' = 1 .. Len(evidence) + 1
        /\ \A e \in 1 .. Len(evidence) : evidence'[e] = kept[e]
        /\ evidence'[Len(evidence) + 1] = new
    <2> DEFINE K == {kept[e] : e \in DOMAIN evidence}
    <2>1. kept \in [1 .. Len(evidence) -> K]
      BY <1>2
    <2> HIDE DEF kept, K
    <2>2. kept \in Seq(K) /\ Len(kept) = Len(evidence)
      BY <1>2, <2>1
    <2> QED  BY <1>1, <1>2, <2>2
  <1>5. /\ EvidenceAdmitted(s)
        /\ HasRevision(s.subject, s.subject_revision)
        /\ artifacts[s.subject][s.subject_revision].registration.digest
              = s.subject_digest
    BY DEF submit_evidence
  <1>6. /\ DOMAIN evidence' = DOMAIN evidence \cup {Len(evidence) + 1}
        /\ Len(evidence) + 1 \notin DOMAIN evidence
    BY <1>2, <1>4
  <1> HIDE DEF kept
  <1> QED  BY <1>1, <1>2, <1>3, <1>4, <1>5, <1>6 DEF EvidenceAdded

\* All a step can do to the evidence.
LEMMA EvidenceSteps ==
    ASSUME TypeOK, [Next]_vars
    PROVE  EvidenceKept \/ \E s \in Submissions : EvidenceAdded(s)
  <1>1. CASE UNCHANGED evidence
    BY <1>1 DEF EvidenceKept
  <1>2. ASSUME NEW d \in DOMAIN evidence, revoke_evidence(d)
        PROVE  EvidenceKept
    <2>1. evidence \in Seq(EvidenceRecord)
      BY DEF TypeOK
    <2>2. ASSUME NEW x \in EvidenceRecord
          PROVE  /\ [x EXCEPT !.revoked = TRUE].submission = x.submission
                 /\ [x EXCEPT !.revoked = TRUE].superseded = x.superseded
      BY DEF EvidenceRecord
    <2> QED  BY <1>2, <2>1, <2>2 DEF revoke_evidence, EvidenceKept
  <1> QED
    BY <1>1, <1>2, SubmitView
       DEF Next, OtherOperation, vars, register_artifact, publish_policy,
           restart, recover_in_flight, set_compatibility_generation,
           set_admission, ClockStep, evaluate, commit, quarantine,
           release_quarantine, revoke, supersede, retire, set_security_veto,
           set_dependency_veto

\* What replaces something, or comes in below the bound, keeps the bound.
LEMMA ReplacedOrRoom ==
    ASSUME NEW S, NEW R, NEW x, NEW bound \in Nat, Within(S, bound),
           R \subseteq S, R # {} \/ Cardinality(S) < bound
    PROVE  Within((S \ R) \cup {x}, bound)
  <1>1. IsFiniteSet(S) /\ Cardinality(S) <= bound
    BY DEF Within
  <1>2. /\ IsFiniteSet(S \ R)
        /\ Cardinality(S) \in Nat /\ Cardinality(S \ R) \in Nat
        /\ Cardinality(S \ R) <= Cardinality(S)
        /\ S \ R # S => Cardinality(S \ R) < Cardinality(S)
    BY <1>1, SmallerSet
  <1>3. R # {} => S \ R # S
    OBVIOUS
  <1>4. Cardinality(S \ R) < bound
    BY <1>1, <1>2, <1>3
  <1> QED  BY <1>2, <1>4, WithinOneMore

\* One step keeps the live evidence within its bounds.
LEMMA EvidenceCountStep ==
    ASSUME TypeOK, EvidenceCounts, [Next]_vars
    PROVE  EvidenceCounts'
  <1>1. CASE EvidenceKept
    <2>1. LiveEvidence' = LiveEvidence
      BY <1>1 DEF EvidenceKept, LiveEvidence
    <2>2. \A a, v : GatherEvidence(a, v)' = GatherEvidence(a, v)
      BY <1>1 DEF EvidenceKept, GatherEvidence
    <2> QED  BY <2>1, <2>2 DEF EvidenceCounts, LiveEvidenceOf
  <1>2. ASSUME NEW s \in Submissions, EvidenceAdded(s)
        PROVE  EvidenceCounts'
    <2> DEFINE n == Len(evidence) + 1
               R == Replaced(s)
    <2>1. /\ MaxEvidence \in Nat /\ MaxEvidencePerRevision \in Nat
          /\ Len(evidence) \in Nat /\ DOMAIN evidence = 1 .. Len(evidence)
      BY BoundsType DEF TypeOK
    <2>2. IsFiniteSet(DOMAIN evidence) /\ Cardinality(DOMAIN evidence) = Len(evidence)
      <3> DEFINE k == Len(evidence)
      <3>1. k \in Nat /\ DOMAIN evidence = 1 .. k
        BY <2>1
      <3> HIDE DEF k
      <3>2. /\ IsFiniteSet(1 .. k)
            /\ Cardinality(1 .. k) = IF 1 > k THEN 0 ELSE k - 1 + 1
        BY <3>1, FS_Interval
      <3>3. Cardinality(1 .. k) = k
        BY <3>1, <3>2
      <3>4. IsFiniteSet(DOMAIN evidence) /\ Cardinality(DOMAIN evidence) = k
        BY <3>1, <3>2, <3>3
      <3> QED  BY <3>4 DEF k
    <2>3. /\ DOMAIN evidence' = DOMAIN evidence \cup {n}
          /\ evidence'[n].submission = s /\ ~evidence'[n].superseded
          /\ n \notin DOMAIN evidence
          /\ \A e \in DOMAIN evidence :
                /\ evidence'[e].submission = evidence[e].submission
                /\ evidence'[e].superseded <=> evidence[e].superseded \/ e \in R
      BY <1>2 DEF EvidenceAdded
    <2>4. \/ R # {}
          \/ /\ Len(evidence) < MaxEvidence
             /\ Cardinality(GatherEvidence(s.subject, s.subject_revision))
                   < MaxEvidencePerRevision
      BY <1>2 DEF EvidenceAdded, EvidenceAdmitted
    <2>5. R \subseteq LiveEvidenceOf(s.subject, s.subject_revision)
      BY DEF Replaced, LiveEvidenceOf, LiveEvidence, GatherEvidence, EvidenceKey
    <2>6. LiveEvidence' = (LiveEvidence \ R) \cup {n}
      BY <2>3 DEF LiveEvidence
    <2>7. ASSUME NEW a, NEW v
          PROVE  GatherEvidence(a, v)' =
                    GatherEvidence(a, v) \cup
                       (IF a = s.subject /\ v = s.subject_revision
                        THEN {n} ELSE {})
      BY <2>3 DEF GatherEvidence
    <2> HIDE DEF R, n
    <2>8. Within(LiveEvidence, MaxEvidence)'
      <3>1. Within(LiveEvidence, MaxEvidence) /\ R \subseteq LiveEvidence
        BY <2>5 DEF EvidenceCounts, LiveEvidenceOf
      <3>2. /\ Cardinality(LiveEvidence) \in Nat
            /\ Cardinality(LiveEvidence) <= Len(evidence)
        BY <2>2, SmallerSet DEF LiveEvidence
      <3>3. R # {} \/ Cardinality(LiveEvidence) < MaxEvidence
        BY <2>1, <2>4, <3>2
      <3> QED  BY <2>1, <2>6, <3>1, <3>3, ReplacedOrRoom
    <2>9. ASSUME NEW a, NEW v
          PROVE  Within(LiveEvidenceOf(a, v), MaxEvidencePerRevision)'
      <3>1. Within(LiveEvidenceOf(a, v), MaxEvidencePerRevision)
        BY DEF EvidenceCounts
      <3>2. CASE a = s.subject /\ v = s.subject_revision
        <4>1. LiveEvidenceOf(a, v)' = (LiveEvidenceOf(a, v) \ R) \cup {n}
          <5>1. n \notin R
            BY <2>3 DEF R, Replaced
          <5>2. n \notin LiveEvidence /\ R \cap {n} = {}
            BY <2>3, <5>1 DEF LiveEvidence
          <5>3. GatherEvidence(a, v)' = GatherEvidence(a, v) \cup {n}
            BY <2>7, <3>2
          <5> QED  BY <2>6, <5>2, <5>3 DEF LiveEvidenceOf
        <4>2. R \subseteq LiveEvidenceOf(a, v)
          BY <2>5, <3>2
        <4>3. /\ IsFiniteSet(GatherEvidence(a, v))
              /\ LiveEvidenceOf(a, v) \subseteq GatherEvidence(a, v)
          BY <2>2, SmallerSet DEF GatherEvidence, LiveEvidenceOf
        <4>4. /\ Cardinality(LiveEvidenceOf(a, v)) \in Nat
              /\ Cardinality(GatherEvidence(a, v)) \in Nat
              /\ Cardinality(LiveEvidenceOf(a, v))
                    <= Cardinality(GatherEvidence(a, v))
          BY <4>3, SmallerSet
        <4>5. \/ R # {}
              \/ Cardinality(LiveEvidenceOf(a, v)) < MaxEvidencePerRevision
          BY <2>1, <2>4, <3>2, <4>4
        <4>6. Within((LiveEvidenceOf(a, v) \ R) \cup {n}, MaxEvidencePerRevision)
          BY <2>1, <3>1, <4>2, <4>5, ReplacedOrRoom
        <4> QED  BY <4>1, <4>6
      <3>3. CASE ~(a = s.subject /\ v = s.subject_revision)
        <4>1. GatherEvidence(a, v)' = GatherEvidence(a, v)
          BY <2>7, <3>3
        <4>2. n \notin GatherEvidence(a, v)
          BY <2>3 DEF GatherEvidence
        <4>3. LiveEvidenceOf(a, v)' \subseteq LiveEvidenceOf(a, v)
          BY <2>6, <4>1, <4>2 DEF LiveEvidenceOf
        <4> QED  BY <2>1, <3>1, <4>3, WithinSubset
      <3> QED  BY <3>2, <3>3
    <2> QED  BY <2>8, <2>9 DEF EvidenceCounts
  <1> QED  BY <1>1, <1>2, EvidenceSteps

\* The evidence a gate can still use stays within EngineConfig, in all and for
\* each revision, although a resubmission passes both bounds
\* (engine.cpp 388-422).
THEOREM LiveEvidenceBounded == Spec => []LiveEvidenceIsBounded
  <1>1. Init => EvidenceCounts
    <2> SUFFICES ASSUME Init PROVE EvidenceCounts
      OBVIOUS
    <2>1. DOMAIN evidence = {}
      BY DEF Init
    <2>2. LiveEvidence = {} /\ \A a, v : LiveEvidenceOf(a, v) = {}
      BY <2>1 DEF LiveEvidence, LiveEvidenceOf
    <2> QED  BY <2>2, BoundsType, FS_EmptySet DEF EvidenceCounts, Within
  <1>2. TypeOK /\ EvidenceCounts /\ [Next]_vars => EvidenceCounts'
    BY EvidenceCountStep
  <1>3. EvidenceCounts => LiveEvidenceIsBounded
    BY DEF EvidenceCounts, Within, LiveEvidence, LiveEvidenceOf,
           LiveEvidenceIsBounded
  <1> QED  BY <1>1, <1>2, <1>3, TypeCorrect, PTL DEF Spec

-----------------------------------------------------------------------------
(* A snapshot passes the checks of a restart.                              *)

\* The evidence names a revision that exists, by its digest.
EvidenceIsBound ==
    \A e \in DOMAIN evidence :
        LET s == evidence[e].submission
        IN  /\ s.subject \in ArtifactIds
            /\ HasRevision(s.subject, s.subject_revision)
            /\ artifacts[s.subject][s.subject_revision].registration.digest
                  = s.subject_digest

\* A revision has a stage generation, and its promotion a decision.
RevisionsAreDecided ==
    \A a \in ArtifactIds : \A v \in 1 .. Len(artifacts[a]) :
        /\ artifacts[a][v].stage_generation # 0
        /\ artifacts[a][v].promoted => artifacts[a][v].promotion_decision # 0

\* A plan was made under an authority, with a decision.
PlansAreDecided ==
    \A p \in plans : p.decision # 0 /\ p.epoch # 0 /\ p.stage_generation # 0

\* So was a record, and that of a promotion has its decision.
RecordsAreDecided ==
    \A r \in records : /\ r.to = "Promoted" => r.decision # 0
                       /\ r.epoch # 0 /\ r.policy_generation # 0

\* The inductive form of VerifyConsistency.
Consistent ==
    /\ epoch # 0
    /\ EvidenceIsBound /\ RevisionsAreDecided
    /\ PlansAreDecided /\ RecordsAreDecided

\* An epoch is followed by a greater one.
LEMMA EpochStep ==
    ASSUME TypeOK, epoch # 0, [Next]_vars
    PROVE  epoch' # 0
  <1>1. ASSUME NEW e \in Epochs, restart(e)
        PROVE  epoch' # 0
    BY <1>1, NumbersAssumption DEF restart, TypeOK
  <1>2. CASE ~\E e \in Epochs : restart(e)
    <2>1. epoch' = epoch
      BY <1>2 DEF Next, OtherOperation, vars, register_artifact,
         submit_evidence, publish_policy, recover_in_flight,
         set_compatibility_generation, set_admission, ClockStep, evaluate,
         commit, set_security_veto, set_dependency_veto, quarantine,
         release_quarantine, revoke, supersede, retire, revoke_evidence
    <2> QED  BY <2>1
  <1> QED  BY <1>1, <1>2

\* A revision that exists keeps its registration, and its stage generation does
\* not go back.
LEMMA RevisionStays ==
    ASSUME TypeOK, PlansAreFresh, [Next]_vars,
           NEW a \in ArtifactIds, NEW v \in 1 .. Len(artifacts[a])
    PROVE  /\ v \in 1 .. Len(artifacts'[a])
           /\ artifacts'[a][v].registration = artifacts[a][v].registration
           /\ artifacts'[a][v].stage_generation
                 \in {artifacts[a][v].stage_generation,
                      artifacts[a][v].stage_generation + 1}
  <1>1. v \in 1 .. Len(artifacts'[a]) /\ Changed(a, v)
    BY RevisionStep
  <1> QED  BY <1>1 DEF Changed, DemotedBy, TransitionedBy, MovedByTrust, Moved

\* The evidence stays bound, to revisions that stay.
LEMMA BoundStep ==
    ASSUME TypeOK, PlansAreFresh, EvidenceIsBound, [Next]_vars
    PROVE  EvidenceIsBound'
  <1>1. ASSUME NEW s, s.subject \in ArtifactIds,
               HasRevision(s.subject, s.subject_revision),
               artifacts[s.subject][s.subject_revision].registration.digest
                  = s.subject_digest
        PROVE  /\ HasRevision(s.subject, s.subject_revision)'
               /\ artifacts'[s.subject][s.subject_revision].registration.digest
                     = s.subject_digest
    BY <1>1, RevisionStays DEF HasRevision
  <1>2. CASE EvidenceKept
    BY <1>1, <1>2 DEF EvidenceKept, EvidenceIsBound
  <1>3. ASSUME NEW s \in Submissions, EvidenceAdded(s)
        PROVE  EvidenceIsBound'
    <2>1. s.subject \in ArtifactIds
      BY InputsAssumption
    <2> QED  BY <1>1, <1>3, <2>1 DEF EvidenceAdded, EvidenceIsBound
  <1> QED  BY <1>2, <1>3, EvidenceSteps

\* A promotion takes its decision from the plan.
LEMMA DecidedStep ==
    ASSUME TypeOK, PlansAreFresh, RevisionsAreDecided, PlansAreDecided,
           [Next]_vars
    PROVE  RevisionsAreDecided'
  <1> SUFFICES ASSUME NEW a \in ArtifactIds, NEW v \in 1 .. Len(artifacts'[a])
               PROVE  /\ artifacts'[a][v].stage_generation # 0
                      /\ artifacts'[a][v].promoted
                            => artifacts'[a][v].promotion_decision # 0
    BY DEF RevisionsAreDecided
  <1>1. CASE v \in 1 .. Len(artifacts[a])
    <2> DEFINE old == artifacts[a][v]
               new == artifacts'[a][v]
    <2>1. /\ old.stage_generation # 0 /\ old.stage_generation \in Nat
          /\ old.promoted => old.promotion_decision # 0
      BY <1>1, RevisionType DEF RevisionsAreDecided, HasRevision, ArtifactRecord
    <2>2. new.stage_generation # 0
      BY <1>1, <2>1, RevisionStays
    <2>3. new.promoted => new.promotion_decision # 0
      <3>1. Changed(a, v)
        BY <1>1, RevisionStep
      <3>2. ASSUME NEW p \in plans, TransitionedBy(p, a, v)
            PROVE  new.promoted => new.promotion_decision # 0
        BY <2>1, <3>2 DEF TransitionedBy, Moved, PlansAreDecided
      <3>3. ASSUME NEW r \in Registrations, DemotedBy(r, a, v)
            PROVE  new.promoted => new.promotion_decision # 0
        BY <2>1, <3>3 DEF DemotedBy
      <3>4. CASE MovedByTrust(a, v)
        BY <2>1, <3>4 DEF MovedByTrust, Moved
      <3> QED  BY <2>1, <3>1, <3>2, <3>3, <3>4 DEF Changed
    <2> QED  BY <2>2, <2>3
  <1>2. CASE v \notin 1 .. Len(artifacts[a])
    <2>1. PICK r \in Registrations : artifacts'[a][v] = NewRevision(r)
      BY <1>2, NewRevisionStep
    <2> QED  BY <2>1 DEF NewRevision
  <1> QED  BY <1>1, <1>2

\* A new plan is about a revision that exists.
LEMMA PlanMade ==
    ASSUME [Next]_vars
    PROVE  \/ plans' \subseteq plans
           \/ \E q \in Requests : /\ KnownRevision(q)
                                  /\ plans' \subseteq plans \cup {PlanFor(q)}
  <1>1. Evict(plans, MaxPlans) \subseteq plans
    BY EvictSubset
  <1>2. ASSUME NEW q \in Requests, evaluate(q)
        PROVE  \/ plans' \subseteq plans
               \/ KnownRevision(q) /\ plans' \subseteq plans \cup {PlanFor(q)}
    BY <1>1, <1>2 DEF evaluate, EvaluateUnknown, EvaluateRejected,
       EvaluatePlanned, EvaluateAtCapacity
  <1>3. CASE ~\E q \in Requests : evaluate(q)
    <2>1. plans' = plans
      BY <1>3 DEF Next, OtherOperation, vars, register_artifact,
         submit_evidence, publish_policy, restart, recover_in_flight,
         set_compatibility_generation, set_admission, ClockStep,
         commit, set_security_veto, set_dependency_veto, quarantine,
         release_quarantine, revoke, supersede, retire, revoke_evidence
    <2> QED  BY <2>1
  <1> QED  BY <1>2, <1>3

\* Plans are made under the epoch of the moment.
LEMMA PlannedStep ==
    ASSUME TypeOK, epoch # 0, RevisionsAreDecided, PlansAreDecided, [Next]_vars
    PROVE  PlansAreDecided'
  <1>1. ASSUME NEW q \in Requests, KnownRevision(q)
        PROVE  /\ PlanFor(q).decision # 0 /\ PlanFor(q).epoch # 0
               /\ PlanFor(q).stage_generation # 0
    <2>1. q.artifact \in ArtifactIds /\ Len(decisions) \in Nat
      BY InputsAssumption DEF TypeOK
    <2>2. artifacts[q.artifact][q.artifact_revision].stage_generation # 0
      BY <1>1, <2>1 DEF KnownRevision, HasRevision, RevisionsAreDecided
    <2> QED  BY <2>1, <2>2 DEF PlanFor, NextDecision
  <1>2. CASE plans' \subseteq plans
    BY <1>2 DEF PlansAreDecided
  <1>3. ASSUME NEW q \in Requests, KnownRevision(q),
               plans' \subseteq plans \cup {PlanFor(q)}
        PROVE  PlansAreDecided'
    BY <1>1, <1>3 DEF PlansAreDecided
  <1> QED  BY <1>2, <1>3, PlanMade

\* Records are made under the epoch and the policy of the moment, or of a plan.
LEMMA RecordedStep ==
    ASSUME TypeOK, ValidPolicy(policy), epoch # 0, PlansAreDecided,
           RecordsAreDecided, [Next]_vars
    PROVE  RecordsAreDecided'
  <1>1. CASE UNCHANGED <<records, record_count>>
    BY <1>1 DEF RecordsAreDecided
  <1>2. ASSUME NEW new, RecordAdded(new)
        PROVE  RecordsAreDecided'
    <2>1. policy.generation # 0
      BY PoliciesAssumption DEF ValidPolicy, TypeOK
    <2>2. ASSUME NEW p \in plans, CommitTransition(p)
          PROVE  /\ p.decision # 0 /\ p.epoch # 0
                 /\ p.policy.generation # 0
      BY <2>1, <2>2 DEF PlansAreDecided, CommitTransition, PolicyCurrent
    <2>3. /\ new.to = "Promoted" => new.decision # 0
          /\ new.epoch # 0 /\ new.policy_generation # 0
      BY <1>2, <2>1, <2>2 DEF RecordAdded
    <2>4. records' \subseteq records \cup {new}
      BY <1>2, EvictSubset DEF RecordAdded
    <2> QED  BY <2>3, <2>4 DEF RecordsAreDecided
  <1> QED  BY <1>1, <1>2, RecordSteps

\* No operation disturbs that (engine.cpp 240-460, promotion.cpp 38-509,
\* trust.cpp 30-500).
LEMMA StateStaysConsistent == Spec => []Consistent
  <1>1. Init => Consistent
    <2> SUFFICES ASSUME Init PROVE Consistent
      OBVIOUS
    <2>1. /\ epoch = 1 /\ DOMAIN evidence = {} /\ plans = {} /\ records = {}
          /\ \A a \in ArtifactIds : Len(artifacts[a]) = 0
      BY DEF Init
    <2> QED  BY <2>1 DEF Consistent, EvidenceIsBound, RevisionsAreDecided,
                PlansAreDecided, RecordsAreDecided
  <1>2. TypeOK /\ PlanInvariant /\ ValidPolicy(policy) /\ Consistent
           /\ [Next]_vars => Consistent'
    BY EpochStep, BoundStep, DecidedStep, PlannedStep, RecordedStep
       DEF Consistent, PlanInvariant
  <1> QED  BY <1>1, <1>2, StateIsSound, PolicyIsValid, PTL DEF Spec

\* Every state the engine reaches passes the checks that install_state() makes
\* of a snapshot, for every policy: nothing an operation leaves behind keeps a
\* coordinator from starting again (store.cpp 98-233, engine.cpp 641-651).
THEOREM StateIsConsistent == Spec => []VerifyConsistency
  <1>1. TypeOK /\ PlanInvariant /\ ValidPolicy(policy) /\ RecordsTellStage
           /\ Consistent => VerifyConsistency
    <2> SUFFICES ASSUME TypeOK, PlanInvariant, ValidPolicy(policy),
                        RecordsTellStage, Consistent
                 PROVE  VerifyConsistency
      OBVIOUS
    <2>1. \A a \in ArtifactIds : \A v \in DOMAIN artifacts[a] :
             artifacts[a][v].promoted => artifacts[a][v].promotion_decision # 0
      <3>1. \A a \in ArtifactIds : DOMAIN artifacts[a] = 1 .. Len(artifacts[a])
        BY DEF TypeOK
      <3> QED  BY <3>1 DEF Consistent, RevisionsAreDecided
    <2>2. \A p \in plans : p.id # 0 /\ p.decision # 0 /\ p.epoch # 0
                           /\ p.stage_generation # 0
      BY DEF Consistent, PlansAreDecided, PlanInvariant, PlansAreFresh, TypeOK
    <2>3. \A r \in records : /\ HasRevision(r.artifact, r.artifact_revision)
                             /\ r.to = "Promoted" => r.decision # 0
                             /\ r.epoch # 0 /\ r.policy_generation # 0
      BY DEF Consistent, RecordsAreDecided, RecordsTellStage
    <2> QED  BY <2>1, <2>2, <2>3
             DEF Consistent, EvidenceIsBound, VerifyConsistency
  <1> QED  BY <1>1, StateIsSound, PolicyIsValid, StageIsTold,
              StateStaysConsistent, PTL
=============================================================================
