-------------------------- MODULE GraphBuilderProofs --------------------------
(***************************************************************************)
(* Proofs about LifecycleGraph::validate(), for every graph over any of    *)
(* the stages.  The traversals of validate() iterate one step on a set as  *)
(* often as there are stages; a step that only adds has then nothing left  *)
(* to add.  Induction over the steps is on the set of those at which a     *)
(* claim holds.                                                            *)
(***************************************************************************)
EXTENDS GraphBuilder, FiniteSetTheorems, WellFoundedInduction, TLAPS

(* Iteration.                                                              *)

\* Induction up to a bound, on the set T of the numbers with a property.
LEMMA Climb ==
    ASSUME NEW N \in Nat, NEW T, 0 \in T,
           \A n \in 0 .. N : n \in T /\ n < N => n + 1 \in T
    PROVE  0 .. N \subseteq T
  <1> DEFINE Missing == {n \in 0 .. N : n \notin T}
             R == OpToRel(<, Nat)
  <1>1. SUFFICES ASSUME Missing # {} PROVE FALSE
    OBVIOUS
  <1>2. IsWellFoundedOn(R, Nat)
    BY NatLessThanWellFounded
  <1>3. Missing \subseteq Nat
    OBVIOUS
  <1> HIDE DEF Missing, R
  <1>4. PICK n \in Missing : \A m \in Missing : ~(<<m, n>> \in R)
    BY <1>1, <1>2, <1>3, WFMin
  <1>5. n \in 0 .. N /\ n \notin T
    BY <1>4 DEF Missing
  <1>6. n - 1 \in 0 .. N /\ n - 1 < N
    BY <1>5
  <1>7. n - 1 \in T
    <2>1. n - 1 \in Missing => <<n - 1, n>> \in R
      BY <1>5, <1>6 DEF R, OpToRel
    <2> QED  BY <1>4, <1>6, <2>1 DEF Missing
  <1> QED  BY <1>5, <1>6, <1>7

\* v holds what k rounds of F make of s.
Iterates(v, F, s, k) ==
    v[0] = s /\ \A n \in 0 .. k : n < k => v[n + 1] = F[v[n]]

\* There is a function that iterates F on s, as long as the bound.
LEMMA IterationExists ==
    ASSUME NEW N \in Nat, NEW F, NEW s
    PROVE  \E v : Iterates(v, F, s, N)
  <1> DEFINE T == {k \in Nat : \E v : Iterates(v, F, s, k)}
  <1>1. 0 \in T
    <2>1. Iterates([n \in 0 .. 0 |-> s], F, s, 0)
      BY DEF Iterates
    <2> QED  BY <2>1
  <1>2. ASSUME NEW k \in Nat, k \in T PROVE k + 1 \in T
    <2>1. PICK v : Iterates(v, F, s, k)
      BY <1>2
    <2> DEFINE w == [n \in 0 .. k + 1 |->
                        IF n = k + 1 THEN F[v[k]] ELSE v[n]]
    <2>2. Iterates(w, F, s, k + 1)
      <3>1. w[0] = s
        BY <2>1 DEF Iterates
      <3>2. ASSUME NEW n \in 0 .. k + 1, n < k + 1
            PROVE  w[n + 1] = F[w[n]]
        BY <2>1, <3>2 DEF Iterates
      <3> QED  BY <3>1, <3>2 DEF Iterates
    <2> HIDE DEF w
    <2>3. \E u : Iterates(u, F, s, k + 1)
      BY <2>2
    <2> QED  BY <2>3
  <1> HIDE DEF T
  <1>3. 0 .. N \subseteq T
    BY <1>1, <1>2, Climb
  <1>4. N \in T
    BY <1>3
  <1> QED  BY <1>4 DEF T

\* A step that only adds to a finite set has nothing left to add after as many
\* rounds as the set has elements.
LEMMA IterationSaturates ==
    ASSUME NEW S, IsFiniteSet(S), NEW F, NEW v,
           \A n \in 0 .. Cardinality(S) :
               v[n] \subseteq S /\ v[n] \subseteq F[v[n]] /\ F[v[n]] \subseteq S,
           \A n \in 0 .. Cardinality(S) :
               n < Cardinality(S) => v[n + 1] = F[v[n]]
    PROVE  F[v[Cardinality(S)]] = v[Cardinality(S)]
  <1> DEFINE N == Cardinality(S)
             T == {n \in 0 .. N : F[v[n]] = v[n] \/ Cardinality(v[n]) >= n}
  <1>1. N \in Nat
    BY FS_CardinalityType
  <1>2. \A n \in 0 .. N : IsFiniteSet(v[n]) /\ Cardinality(v[n]) \in Nat
    BY FS_Subset, FS_CardinalityType
  <1>3. 0 \in T
    BY <1>1, <1>2
  <1>4. ASSUME NEW n \in 0 .. N, n \in T, n < N PROVE n + 1 \in T
    <2>1. n + 1 \in 0 .. N /\ v[n + 1] = F[v[n]]
      BY <1>1, <1>4
    <2>2. CASE F[v[n]] = v[n]
      BY <2>1, <2>2
    <2>3. CASE F[v[n]] # v[n]
      <3>1. v[n] \in SUBSET v[n + 1] /\ v[n] # v[n + 1]
        BY <2>1, <2>3
      <3>2. Cardinality(v[n]) <= Cardinality(v[n + 1])
            /\ Cardinality(v[n + 1]) # Cardinality(v[n])
        BY <1>2, <2>1, <3>1, FS_Subset
      <3>3. Cardinality(v[n]) >= n
        BY <1>4, <2>3
      <3>4. Cardinality(v[n + 1]) >= n + 1
        BY <1>2, <2>1, <3>2, <3>3
      <3> QED  BY <2>1, <3>4
    <2> QED  BY <2>2, <2>3
  <1> HIDE DEF T
  <1>5. 0 .. N \subseteq T
    BY <1>1, <1>3, <1>4, Climb
  <1>6. N \in T
    BY <1>1, <1>5
  <1>7. CASE Cardinality(v[N]) >= N
    <2>1. v[N] \in SUBSET S /\ N \in 0 .. N
      BY <1>1
    <2>2. Cardinality(v[N]) <= N
      BY <2>1, FS_Subset
    <2>3. Cardinality(v[N]) = N
      BY <1>1, <1>2, <1>7, <2>2
    <2>4. v[N] = S
      BY <2>1, <2>3, FS_Subset
    <2> QED  BY <2>1, <2>4
  <1> QED  BY <1>6, <1>7 DEF T

-----------------------------------------------------------------------------
(* The traversals of validate().                                           *)

\* There are finitely many stages.
LEMMA StagesAreFinite == IsFiniteSet(Stage) /\ Cardinality(Stage) \in Nat
  <1>1. IsFiniteSet({}) /\ IsFiniteSet(Stage)
    <2> DEFINE A1 == {} \cup {"Candidate"}
               A2 == A1 \cup {"Verified"}
               A3 == A2 \cup {"Qualified"}
               A4 == A3 \cup {"Staged"}
               A5 == A4 \cup {"Approved"}
               A6 == A5 \cup {"Promoted"}
               A7 == A6 \cup {"Quarantined"}
               A8 == A7 \cup {"Revoked"}
               A9 == A8 \cup {"Superseded"}
               A10 == A9 \cup {"Retired"}
    <2>1. Stage = A10
      BY DEF Stage
    <2> HIDE DEF A1, A2, A3, A4, A5, A6, A7, A8, A9, A10
    <2>2. IsFiniteSet(A1) /\ IsFiniteSet(A2) /\ IsFiniteSet(A3)
          /\ IsFiniteSet(A4) /\ IsFiniteSet(A5)
      BY FS_EmptySet, FS_AddElement DEF A1, A2, A3, A4, A5
    <2>3. IsFiniteSet(A6) /\ IsFiniteSet(A7) /\ IsFiniteSet(A8)
          /\ IsFiniteSet(A9) /\ IsFiniteSet(A10)
      BY <2>2, FS_AddElement DEF A6, A7, A8, A9, A10
    <2> QED  BY <2>1, <2>3, FS_EmptySet
  <1> QED  BY <1>1, FS_CardinalityType

\* v holds what a traversal has visited after each round.
Traverses(v, g, S) ==
    /\ v[0] = S
    /\ \A n \in 0 .. Cardinality(Stage) :
          /\ v[n] \subseteq Stage
          /\ n < Cardinality(Stage) => v[n + 1] = v[n] \cup Image(g, v[n])
    /\ Traverse(g, S) = v[Cardinality(Stage)]

\* A traversal is an iteration of the step to the direct successors.
LEMMA TraverseIterates ==
    ASSUME NEW g, NEW S, S \subseteq Stage
    PROVE  \E v : Traverses(v, g, S)
  <1> DEFINE N == Cardinality(Stage)
             F == [X \in SUBSET Stage |-> X \cup Image(g, X)]
             Visits(v) == v = [n \in 0 .. N |->
                                  IF n = 0 THEN S
                                  ELSE v[n - 1] \cup Image(g, v[n - 1])]
  <1>1. N \in Nat
    BY StagesAreFinite
  <1>2. \A X \in SUBSET Stage : X \cup Image(g, X) \subseteq Stage
    BY DEF Image
  <1>3. \A X \in SUBSET Stage : F[X] = X \cup Image(g, X)
    OBVIOUS
  <1> HIDE DEF N, F
  <1>4. \E v : Visits(v)
    <2>1. PICK v : Iterates(v, F, S, N)
      BY <1>1, IterationExists
    <2> DEFINE T == {n \in 0 .. N : v[n] \subseteq Stage}
               w == [n \in 0 .. N |-> v[n]]
    <2>2. 0 \in T
      BY <1>1, <2>1 DEF Iterates
    <2>3. ASSUME NEW n \in 0 .. N, n \in T, n < N PROVE n + 1 \in T
      <3>1. n + 1 \in 0 .. N /\ v[n + 1] = F[v[n]]
        BY <1>1, <2>1, <2>3 DEF Iterates
      <3> QED  BY <1>2, <1>3, <2>3, <3>1
    <2>4. 0 .. N \subseteq T
      <3> HIDE DEF T
      <3> QED  BY <1>1, <2>2, <2>3, Climb
    <2>5. ASSUME NEW n \in 0 .. N, n # 0
          PROVE  v[n] = v[n - 1] \cup Image(g, v[n - 1])
      <3>1. n - 1 \in 0 .. N /\ n - 1 < N /\ (n - 1) + 1 = n
        BY <1>1, <2>5
      <3>2. v[n - 1] \in SUBSET Stage /\ v[n] = F[v[n - 1]]
        BY <2>1, <2>4, <3>1 DEF Iterates
      <3> QED  BY <1>3, <3>2
    <2>6. ASSUME NEW n \in 0 .. N
          PROVE  w[n] = IF n = 0 THEN S ELSE w[n - 1] \cup Image(g, w[n - 1])
      <3>1. CASE n = 0
        BY <2>1, <3>1 DEF Iterates
      <3>2. CASE n # 0
        <4>1. n - 1 \in 0 .. N
          BY <1>1, <3>2
        <4>2. w[n] = v[n] /\ w[n - 1] = v[n - 1]
          BY <4>1
        <4> QED  BY <2>5, <3>2, <4>2
      <3> QED  BY <3>1, <3>2
    <2>7. Visits(w)
      BY <2>6
    <2> HIDE DEF w, Visits
    <2> QED  BY <2>7
  <1> DEFINE u == CHOOSE v : Visits(v)
  <1>5. Visits(u)
    BY <1>4
  <1>6. Traverse(g, S) = u[N]
    BY DEF Traverse, N
  <1> HIDE DEF u
  <1>7. \A n \in 0 .. N :
           u[n] = IF n = 0 THEN S ELSE u[n - 1] \cup Image(g, u[n - 1])
    BY <1>5
  <1> HIDE DEF Visits
  <1>8. u[0] = S
    <2>1. 0 \in 0 .. N
      BY <1>1
    <2> QED  BY <1>7, <2>1
  <1>9. ASSUME NEW n \in 0 .. N, n < N
        PROVE  u[n + 1] = u[n] \cup Image(g, u[n])
    <2>1. n + 1 \in 0 .. N /\ n + 1 # 0 /\ (n + 1) - 1 = n
      BY <1>1, <1>9
    <2>2. u[n + 1] = u[(n + 1) - 1] \cup Image(g, u[(n + 1) - 1])
      BY <1>7, <2>1
    <2> QED  BY <2>1, <2>2
  <1>10. \A n \in 0 .. N : u[n] \subseteq Stage
    <2> DEFINE T == {n \in 0 .. N : u[n] \subseteq Stage}
    <2>1. 0 \in T
      BY <1>1, <1>8
    <2>2. ASSUME NEW n \in 0 .. N, n \in T, n < N PROVE n + 1 \in T
      <3>1. n + 1 \in 0 .. N
        BY <1>1, <2>2
      <3> QED  BY <1>2, <1>9, <2>2, <3>1
    <2> HIDE DEF T
    <2>3. 0 .. N \subseteq T
      BY <1>1, <2>1, <2>2, Climb
    <2> QED  BY <2>3 DEF T
  <1>11. Traverses(u, g, S)
    BY <1>6, <1>8, <1>9, <1>10 DEF N, Traverses
  <1> QED  BY <1>11

\* A traversal stays in every set that has its start and that no edge leaves.
LEMMA TraverseIsSound ==
    ASSUME NEW g, NEW S, S \subseteq Stage, NEW C, S \subseteq C,
           \A s \in C : \A t \in Stage : <<s, t>> \in g => t \in C
    PROVE  Traverse(g, S) \subseteq C
  <1> DEFINE N == Cardinality(Stage)
  <1>1. N \in Nat
    BY StagesAreFinite
  <1> PICK v : Traverses(v, g, S)
    BY TraverseIterates
  <1>2. /\ v[0] = S
        /\ \A n \in 0 .. N :
              /\ v[n] \subseteq Stage
              /\ n < N => v[n + 1] = v[n] \cup Image(g, v[n])
        /\ Traverse(g, S) = v[N]
    BY DEF Traverses
  <1> HIDE DEF N
  <1> DEFINE T == {n \in 0 .. N : v[n] \subseteq C}
  <1>3. 0 \in T
    BY <1>1, <1>2
  <1>4. ASSUME NEW n \in 0 .. N, n \in T, n < N PROVE n + 1 \in T
    <2>1. n + 1 \in 0 .. N /\ v[n + 1] = v[n] \cup Image(g, v[n])
      BY <1>1, <1>2, <1>4
    <2>2. v[n] \subseteq C
      BY <1>4
    <2>3. Image(g, v[n]) \subseteq C
      BY <2>2 DEF Image
    <2> QED  BY <2>1, <2>2, <2>3
  <1>5. 0 .. N \subseteq T
    <2> HIDE DEF T
    <2> QED  BY <1>1, <1>3, <1>4, Climb
  <1> QED  BY <1>1, <1>2, <1>5

\* A traversal has its start and loses nothing: no edge leaves what it visits.
LEMMA TraverseIsComplete ==
    ASSUME NEW g, NEW S, S \subseteq Stage
    PROVE  /\ S \subseteq Traverse(g, S)
           /\ Traverse(g, S) \subseteq Stage
           /\ \A s \in Traverse(g, S) : \A t \in Stage :
                 <<s, t>> \in g => t \in Traverse(g, S)
  <1> DEFINE N == Cardinality(Stage)
             F == [X \in SUBSET Stage |-> X \cup Image(g, X)]
  <1>1. N \in Nat
    BY StagesAreFinite
  <1> PICK v : Traverses(v, g, S)
    BY TraverseIterates
  <1>2. /\ v[0] = S
        /\ \A n \in 0 .. N :
              /\ v[n] \subseteq Stage
              /\ n < N => v[n + 1] = v[n] \cup Image(g, v[n])
        /\ Traverse(g, S) = v[N]
    BY DEF Traverses
  <1>3. \A X \in SUBSET Stage : F[X] = X \cup Image(g, X)
    OBVIOUS
  <1> HIDE DEF F
  <1>4. \A X \in SUBSET Stage : X \cup Image(g, X) \subseteq Stage
    BY DEF Image
  <1>5. \A n \in 0 .. N : /\ v[n] \subseteq Stage /\ v[n] \subseteq F[v[n]]
                          /\ F[v[n]] \subseteq Stage
    BY <1>2, <1>3, <1>4
  <1>6. \A n \in 0 .. N : n < N => v[n + 1] = F[v[n]]
    BY <1>2, <1>3
  <1>7. F[v[N]] = v[N]
    BY <1>5, <1>6, StagesAreFinite, IterationSaturates
  <1> HIDE DEF N
  <1>8. N \in 0 .. N /\ v[N] \subseteq Stage
    BY <1>1, <1>2
  <1>9. Image(g, v[N]) \subseteq v[N]
    BY <1>3, <1>7, <1>8
  <1>10. S \subseteq v[N]
    <2> DEFINE T == {n \in 0 .. N : S \subseteq v[n]}
    <2>1. 0 \in T
      BY <1>1, <1>2
    <2>2. ASSUME NEW n \in 0 .. N, n \in T, n < N PROVE n + 1 \in T
      <3>1. n + 1 \in 0 .. N /\ v[n + 1] = v[n] \cup Image(g, v[n])
        BY <1>1, <1>2, <2>2
      <3> QED  BY <2>2, <3>1
    <2>3. 0 .. N \subseteq T
      <3> HIDE DEF T
      <3> QED  BY <1>1, <2>1, <2>2, Climb
    <2> QED  BY <1>8, <2>3
  <1> QED  BY <1>2, <1>8, <1>9, <1>10 DEF Image

-----------------------------------------------------------------------------
(* What validate() accepts.                                                *)

\* The author connects stages that are used.
GraphIsOfUsedStages == graph \subseteq UsedStages \X UsedStages

\* add_edge() keeps it so.
LEMMA BuiltOfUsedStages == Spec => []GraphIsOfUsedStages
  <1>1. Init => GraphIsOfUsedStages
    BY DEF Init, GraphIsOfUsedStages
  <1>2. GraphIsOfUsedStages /\ [Next]_graph => GraphIsOfUsedStages'
    <2> SUFFICES ASSUME GraphIsOfUsedStages, [Next]_graph
                 PROVE  graph' \subseteq UsedStages \X UsedStages
      BY DEF GraphIsOfUsedStages
    <2>1. ASSUME NEW from \in UsedStages, NEW to \in UsedStages,
                 add_edge(from, to)
          PROVE  graph' \subseteq UsedStages \X UsedStages
      <3>1. {<<from, to>>} \subseteq UsedStages \X UsedStages
        OBVIOUS
      <3> QED  BY <2>1, <3>1 DEF add_edge, GraphIsOfUsedStages
    <2>2. CASE UNCHANGED graph
      BY <2>2 DEF GraphIsOfUsedStages
    <2> QED  BY <2>1, <2>2 DEF Next
  <1> QED  BY <1>1, <1>2, PTL DEF Spec

\* add_edge() keeps the graph within the bound that validate() tests again.
GraphFits == IsFiniteSet(graph) /\ Cardinality(graph) <= kMaxEdges

LEMMA BuiltWithinBound == Spec => []GraphFits
  <1>1. MaxEdges \in Nat /\ MaxEdges <= kMaxEdges /\ kMaxEdges \in Nat
    BY GraphBuilderAssumption DEF kMaxEdges
  <1>2. Init => GraphFits
    BY <1>1, FS_EmptySet DEF Init, GraphFits
  <1>3. GraphFits /\ [Next]_graph => GraphFits'
    <2> SUFFICES ASSUME GraphFits, [Next]_graph PROVE GraphFits'
      OBVIOUS
    <2>1. ASSUME NEW from \in UsedStages, NEW to \in UsedStages,
                 add_edge(from, to)
          PROVE  GraphFits'
      <3> DEFINE e == <<from, to>>
      <3>1. e \notin graph /\ graph' = graph \cup {e}
            /\ Cardinality(graph) < MaxEdges
        BY <2>1 DEF add_edge
      <3> HIDE DEF e
      <3>2. IsFiniteSet(graph) /\ Cardinality(graph) \in Nat
        BY FS_CardinalityType DEF GraphFits
      <3>3. /\ IsFiniteSet(graph \cup {e})
            /\ Cardinality(graph \cup {e}) = Cardinality(graph) + 1
        BY <3>1, <3>2, FS_AddElement
      <3>4. Cardinality(graph \cup {e}) <= kMaxEdges
        BY <1>1, <3>1, <3>2, <3>3
      <3> QED  BY <3>1, <3>3, <3>4 DEF GraphFits
    <2>2. CASE UNCHANGED graph
      BY <2>2 DEF GraphFits
    <2> QED  BY <2>1, <2>2 DEF Next
  <1> QED  BY <1>2, <1>3, PTL DEF Spec

\* The stages of an edge, and the graph turned round.
LEMMA Edges ==
    ASSUME NEW g, g \subseteq UsedStages \X UsedStages
    PROVE  /\ Appearing(g) \subseteq UsedStages
           /\ UsedStages \subseteq Stage
           /\ \A s, t : <<s, t>> \in g =>
                 /\ s \in Appearing(g) /\ t \in Appearing(g)
                 /\ s \in UsedStages /\ t \in UsedStages
           /\ \A s, t : <<s, t>> \in ReverseEdges(g) <=> <<t, s>> \in g
  <1>1. \A s, t : <<s, t>> \in g => s \in UsedStages /\ t \in UsedStages
    OBVIOUS
  <1>2. \A s, t : <<s, t>> \in g => s \in Appearing(g) /\ t \in Appearing(g)
    BY DEF Appearing
  <1>3. Appearing(g) \subseteq UsedStages
    BY DEF Appearing
  <1>4. \A s, t : <<s, t>> \in ReverseEdges(g) <=> <<t, s>> \in g
    BY DEF ReverseEdges
  <1> QED  BY <1>1, <1>2, <1>3, <1>4, GraphBuilderAssumption

\* Reachability without a traversal is closed under an edge in front.
LEMMA ReachesThrough ==
    ASSUME NEW g, NEW r, NEW s, NEW t, <<r, s>> \in g, Reaches(g, s, t)
    PROVE  Reaches(g, r, t)
  <1> SUFFICES ASSUME NEW S \in SUBSET UsedStages, r \in S,
                      \A e \in g : e[1] \in S => e[2] \in S
               PROVE  t \in S
    BY DEF Reaches
  <1>1. s \in S
    <2>1. <<r, s>>[1] \in S => <<r, s>>[2] \in S
      OBVIOUS
    <2> QED  BY <2>1
  <1> QED  BY <1>1 DEF Reaches

\* What the forward traversal visits is reachable from the entry.
LEMMA ForwardIsSound ==
    ASSUME NEW g, g \subseteq UsedStages \X UsedStages,
           NEW s \in Forward(g, Entry)
    PROVE  Reaches(g, Entry, s)
  <1> SUFFICES ASSUME NEW S \in SUBSET UsedStages, Entry \in S,
                      \A e \in g : e[1] \in S => e[2] \in S
               PROVE  s \in S
    BY DEF Reaches
  <1>1. \A x \in S : \A y \in Stage : <<x, y>> \in g => y \in S
    <2> SUFFICES ASSUME NEW x \in S, NEW y \in Stage, <<x, y>> \in g
                 PROVE  y \in S
      OBVIOUS
    <2>1. <<x, y>>[1] \in S => <<x, y>>[2] \in S
      OBVIOUS
    <2> QED  BY <2>1
  <1>2. {Entry} \subseteq Stage /\ {Entry} \subseteq S
    BY GraphBuilderAssumption
  <1>3. Traverse(g, {Entry}) \subseteq S
    BY <1>1, <1>2, TraverseIsSound
  <1> QED  BY <1>3 DEF Forward

\* What the backward traversal visits can reach a terminal stage.
LEMMA BackwardIsSound ==
    ASSUME NEW g, g \subseteq UsedStages \X UsedStages,
           NEW s \in Backward(g)
    PROVE  \E t \in TerminalStages \cap UsedStages : Reaches(g, s, t)
  <1> DEFINE C == {x \in Stage :
                     \E t \in TerminalStages \cap UsedStages : Reaches(g, x, t)}
  <1>1. HasExit(g) \subseteq C
    <2> SUFFICES ASSUME NEW x \in Stage, NEW t \in TerminalStages,
                        <<x, t>> \in g
                 PROVE  x \in C
      BY DEF HasExit
    <2>1. t \in UsedStages
      BY Edges
    <2>2. Reaches(g, t, t)
      BY DEF Reaches
    <2>3. Reaches(g, x, t)
      BY <2>2, ReachesThrough
    <2> QED  BY <2>1, <2>3
  <1>2. ASSUME NEW x \in C, NEW y \in Stage, <<x, y>> \in ReverseEdges(g)
        PROVE  y \in C
    <2>1. <<y, x>> \in g
      BY <1>2, Edges
    <2>2. PICK t \in TerminalStages \cap UsedStages : Reaches(g, x, t)
      OBVIOUS
    <2>3. Reaches(g, y, t)
      BY <2>1, <2>2, ReachesThrough
    <2> QED  BY <2>3
  <1>3. HasExit(g) \subseteq Stage
    BY DEF HasExit
  <1> HIDE DEF C
  <1>4. Traverse(ReverseEdges(g), HasExit(g)) \subseteq C
    BY <1>1, <1>2, <1>3, TraverseIsSound
  <1> QED  BY <1>4 DEF Backward, C

\* For every graph over any of the ten stages and every entry: one that
\* validate() accepts has no stage that cannot be occupied and none that
\* cannot be left for good (stage.cpp 199-201, 274-276).
THEOREM AcceptedIsSound == Spec => []AcceptedGraphIsSound
  <1>1. GraphIsOfUsedStages => AcceptedGraphIsSound
    <2> SUFFICES ASSUME graph \subseteq UsedStages \X UsedStages,
                        Validate(graph, Entry)
                 PROVE  Reachable(graph) /\ Exits(graph)
      BY DEF GraphIsOfUsedStages, AcceptedGraphIsSound
    <2>1. Reachable(graph)
      BY ForwardIsSound DEF Reachable, Validate
    <2>2. ASSUME NEW s \in Appearing(graph)
          PROVE  \E t \in TerminalStages \cap UsedStages : Reaches(graph, s, t)
      <3>1. CASE s \in Backward(graph)
        BY <3>1, BackwardIsSound
      <3>2. CASE s \in TerminalStages
        <4>1. s \in TerminalStages \cap UsedStages
          BY <3>2, Edges
        <4>2. Reaches(graph, s, s)
          BY DEF Reaches
        <4> QED  BY <4>1, <4>2
      <3> QED  BY <3>1, <3>2 DEF Validate
    <2> QED  BY <2>1, <2>2 DEF Exits
  <1> QED  BY <1>1, BuiltOfUsedStages, PTL

-----------------------------------------------------------------------------
(* What validate() must accept.                                            *)

\* Where every set of stages has a sink, every set has a source: a smallest
\* set without one would lose its sink and still have none.
LEMMA SinksGiveSources ==
    ASSUME NEW E, NEW U, U \subseteq Stage,
           \A S \in SUBSET U : S # {} => \E s \in S : \A t \in S : <<s, t>> \notin E,
           NEW R, R \subseteq U, R # {}
    PROVE  \E t \in R : \A s \in R : <<s, t>> \notin E
  <1> DEFINE SourceFree == {S \in SUBSET R :
                             /\ S # {}
                             /\ \A t \in S : \E s \in S : <<s, t>> \in E}
             Order == StrictSubsetOrdering(Stage)
  <1>1. SUFFICES ASSUME \A t \in R : \E s \in R : <<s, t>> \in E PROVE FALSE
    OBVIOUS
  <1>2. R \in SourceFree
    BY <1>1
  <1>3. SourceFree \subseteq FiniteSubsetsOf(Stage)
    BY StagesAreFinite, FS_Subset DEF FiniteSubsetsOf
  <1>4. IsWellFoundedOn(Order, FiniteSubsetsOf(Stage))
    BY FS_StrictSubsetOrderingWellFounded
  <1>5. PICK M \in SourceFree : \A S \in SourceFree : ~(<<S, M>> \in Order)
    <2> HIDE DEF SourceFree, Order
    <2> QED  BY <1>2, <1>3, <1>4, WFMin
  <1>6. PICK s \in M : \A t \in M : <<s, t>> \notin E
    <2>1. M \in SUBSET U /\ M # {}
      BY <1>5
    <2> QED  BY <2>1
  <1> DEFINE L == M \ {s}
  <1>7. L \in SourceFree
    <2>1. L # {}
      <3>1. PICK r \in M : <<r, s>> \in E
        BY <1>5
      <3>2. r # s
        BY <1>6, <3>1
      <3> QED  BY <3>2
    <2>2. ASSUME NEW t \in L PROVE \E r \in L : <<r, t>> \in E
      BY <1>5, <1>6
    <2>3. L \subseteq R
      BY <1>5
    <2> QED  BY <2>1, <2>2, <2>3
  <1>8. <<L, M>> \in Order
    <2>1. M \subseteq Stage /\ L \subseteq M /\ L # M
      BY <1>5
    <2> QED  BY <2>1 DEF StrictSubsetOrdering
  <1> QED  BY <1>5, <1>7, <1>8

\* Where promotion has no cycle, every set of stages has one that no promotion
\* leads to from the others.
LEMMA EverySetHasASource ==
    ASSUME NEW g, PromotionAcyclic(g), NEW R, R \subseteq UsedStages, R # {}
    PROVE  \E t \in R : \A s \in R \ HoldingStages : <<s, t>> \notin g
  <1> DEFINE E == {e \in Stage \X Stage :
                     e \in g /\ e[1] \notin HoldingStages}
  <1>1. UsedStages \subseteq Stage
    BY GraphBuilderAssumption
  <1>2. \A s, t \in Stage :
           <<s, t>> \in E <=> <<s, t>> \in g /\ s \notin HoldingStages
    OBVIOUS
  <1> HIDE DEF E
  <1>3. ASSUME NEW S \in SUBSET UsedStages, S # {}
        PROVE  \E s \in S : \A t \in S : <<s, t>> \notin E
    <2>1. PICK s \in S : s \in HoldingStages \/ \A t \in S : <<s, t>> \notin g
      BY <1>3 DEF PromotionAcyclic, PromotionCycle
    <2> QED  BY <1>1, <1>2, <2>1
  <1>4. \E t \in R : \A s \in R : <<s, t>> \notin E
    BY <1>1, <1>3, SinksGiveSources
  <1> QED  BY <1>1, <1>2, <1>4

\* The stages the topological sort has room for after it took those in X.
TakenAfter(g, X) ==
    {t \in Forward(g, Entry) :
        Cardinality({s \in X : <<s, t>> \in g})
            >= InDegree(g, Forward(g, Entry), t)}

\* v holds what the topological sort has taken after each round.
Sorts(v, g) ==
    /\ v[0] = {}
    /\ \A n \in 0 .. Cardinality(Stage) :
          /\ v[n] \subseteq Forward(g, Entry)
          /\ n < Cardinality(Stage) => v[n + 1] = TakenAfter(g, v[n])
    /\ TopologicallyOrdered(g, Entry) = v[Cardinality(Stage)]

\* The topological sort is an iteration.
LEMMA SortIterates ==
    ASSUME NEW g PROVE \E v : Sorts(v, g)
  <1> DEFINE N == Cardinality(Stage)
             reachable == Forward(g, Entry)
             degree == [t \in reachable |-> InDegree(g, reachable, t)]
             Taken(S) == {t \in reachable :
                             Cardinality({s \in S : <<s, t>> \in g})
                                 >= degree[t]}
             F == [X \in SUBSET reachable |-> TakenAfter(g, X)]
             Ordered(v) == v = [n \in 0 .. N |->
                                  IF n = 0 THEN {} ELSE Taken(v[n - 1])]
  <1>1. N \in Nat
    BY StagesAreFinite
  <1>2. ASSUME NEW X PROVE Taken(X) = TakenAfter(g, X)
    BY DEF TakenAfter
  <1>3. ASSUME NEW X PROVE TakenAfter(g, X) \subseteq reachable
    BY DEF TakenAfter
  <1>4. \A X \in SUBSET reachable : F[X] = TakenAfter(g, X)
    OBVIOUS
  <1>5. TopologicallyOrdered(g, Entry) = (CHOOSE v : Ordered(v))[N]
    BY DEF TopologicallyOrdered
  <1> HIDE DEF N, F, reachable, Taken
  <1>6. \E v : Ordered(v)
    <2>1. PICK v : Iterates(v, F, {}, N)
      BY <1>1, IterationExists
    <2> DEFINE T == {n \in 0 .. N : v[n] \subseteq reachable}
               w == [n \in 0 .. N |-> v[n]]
    <2>2. 0 \in T
      BY <1>1, <2>1 DEF Iterates
    <2>3. ASSUME NEW n \in 0 .. N, n \in T, n < N PROVE n + 1 \in T
      <3>1. n + 1 \in 0 .. N /\ v[n + 1] = F[v[n]]
        BY <1>1, <2>1, <2>3 DEF Iterates
      <3> QED  BY <1>3, <1>4, <2>3, <3>1
    <2>4. 0 .. N \subseteq T
      <3> HIDE DEF T
      <3> QED  BY <1>1, <2>2, <2>3, Climb
    <2>5. ASSUME NEW n \in 0 .. N, n # 0 PROVE v[n] = Taken(v[n - 1])
      <3>1. n - 1 \in 0 .. N /\ n - 1 < N /\ (n - 1) + 1 = n
        BY <1>1, <2>5
      <3>2. v[n - 1] \in SUBSET reachable /\ v[n] = F[v[n - 1]]
        BY <2>1, <2>4, <3>1 DEF Iterates
      <3> QED  BY <1>2, <1>4, <3>2
    <2>6. ASSUME NEW n \in 0 .. N
          PROVE  w[n] = IF n = 0 THEN {} ELSE Taken(w[n - 1])
      <3>1. CASE n = 0
        BY <2>1, <3>1 DEF Iterates
      <3>2. CASE n # 0
        <4>1. n - 1 \in 0 .. N
          BY <1>1, <3>2
        <4>2. w[n] = v[n] /\ w[n - 1] = v[n - 1]
          BY <4>1
        <4> QED  BY <2>5, <3>2, <4>2
      <3> QED  BY <3>1, <3>2
    <2>7. Ordered(w)
      BY <2>6
    <2> HIDE DEF w, Ordered
    <2> QED  BY <2>7
  <1> DEFINE u == CHOOSE v : Ordered(v)
  <1>7. Ordered(u)
    BY <1>6
  <1> HIDE DEF u
  <1>8. \A n \in 0 .. N : u[n] = IF n = 0 THEN {} ELSE Taken(u[n - 1])
    BY <1>7
  <1> HIDE DEF Ordered
  <1>9. u[0] = {}
    <2>1. 0 \in 0 .. N
      BY <1>1
    <2> QED  BY <1>8, <2>1
  <1>10. ASSUME NEW n \in 0 .. N, n < N
         PROVE  n + 1 \in 0 .. N /\ u[n + 1] = TakenAfter(g, u[n])
    <2>1. n + 1 \in 0 .. N /\ n + 1 # 0 /\ (n + 1) - 1 = n
      BY <1>1, <1>10
    <2>2. u[n + 1] = Taken(u[(n + 1) - 1])
      BY <1>8, <2>1
    <2> QED  BY <1>2, <2>1, <2>2
  <1>11. \A n \in 0 .. N : u[n] \subseteq reachable
    <2> DEFINE T == {n \in 0 .. N : u[n] \subseteq reachable}
    <2>1. 0 \in T
      BY <1>1, <1>9
    <2>2. ASSUME NEW n \in 0 .. N, n \in T, n < N PROVE n + 1 \in T
      BY <1>3, <1>10, <2>2
    <2> HIDE DEF T
    <2>3. 0 .. N \subseteq T
      BY <1>1, <2>1, <2>2, Climb
    <2> QED  BY <2>3 DEF T
  <1>12. Sorts(u, g)
    BY <1>5, <1>9, <1>10, <1>11 DEF N, reachable, Sorts, u
  <1> QED  BY <1>12

\* The sort never has less room after it took more.
LEMMA TakenIsMonotonic ==
    ASSUME NEW g, NEW Y, Y \subseteq Stage, NEW X, X \subseteq Y
    PROVE  TakenAfter(g, X) \subseteq TakenAfter(g, Y)
  <1> SUFFICES ASSUME NEW t \in TakenAfter(g, X) PROVE t \in TakenAfter(g, Y)
    OBVIOUS
  <1> DEFINE A == {s \in X : <<s, t>> \in g}
             B == {s \in Y : <<s, t>> \in g}
             C == {s \in Forward(g, Entry) \ HoldingStages : <<s, t>> \in g}
  <1>1. Forward(g, Entry) \subseteq Stage
    <2>1. {Entry} \subseteq Stage
      BY GraphBuilderAssumption
    <2> QED  BY <2>1, TraverseIsComplete DEF Forward
  <1>2. B \subseteq Stage /\ A \in SUBSET B /\ C \subseteq Stage
    BY <1>1
  <1> HIDE DEF A, B, C
  <1>3. IsFiniteSet(A) /\ IsFiniteSet(B) /\ IsFiniteSet(C)
        /\ Cardinality(A) <= Cardinality(B)
    BY <1>2, StagesAreFinite, FS_Subset
  <1>4. Cardinality(A) \in Nat /\ Cardinality(B) \in Nat /\ Cardinality(C) \in Nat
    BY <1>3, FS_CardinalityType
  <1>5. t \in Forward(g, Entry) /\ Cardinality(A) >= Cardinality(C)
    BY DEF TakenAfter, InDegree, A, C
  <1>6. Cardinality(B) >= Cardinality(C)
    BY <1>3, <1>4, <1>5
  <1> QED  BY <1>5, <1>6 DEF TakenAfter, InDegree, B, C

\* Where promotion has no cycle the sort takes every reachable stage: of those
\* it has not taken, one has no edge from another.
LEMMA SortIsComplete ==
    ASSUME NEW g, g \subseteq UsedStages \X UsedStages, PromotionAcyclic(g)
    PROVE  TopologicallyOrdered(g, Entry) = Forward(g, Entry)
  <1> DEFINE N == Cardinality(Stage)
             reachable == Forward(g, Entry)
             F == [X \in SUBSET Stage |-> TakenAfter(g, X)]
  <1>1. N \in Nat
    BY StagesAreFinite
  <1>2. reachable \subseteq UsedStages /\ reachable \subseteq Stage
    <2>1. {Entry} \subseteq UsedStages /\ {Entry} \subseteq Stage
      BY GraphBuilderAssumption
    <2>2. \A s \in UsedStages : \A t \in Stage : <<s, t>> \in g => t \in UsedStages
      BY Edges
    <2>3. Traverse(g, {Entry}) \subseteq UsedStages
      BY <2>1, <2>2, TraverseIsSound
    <2> QED  BY <2>3, GraphBuilderAssumption DEF Forward
  <1>3. \A X \in SUBSET Stage : F[X] = TakenAfter(g, X)
    OBVIOUS
  <1> HIDE DEF F
  <1> PICK v : Sorts(v, g)
    BY SortIterates
  <1>4. /\ v[0] = {}
        /\ \A n \in 0 .. N :
              /\ v[n] \subseteq reachable
              /\ n < N => v[n + 1] = TakenAfter(g, v[n])
        /\ TopologicallyOrdered(g, Entry) = v[N]
    BY DEF Sorts
  <1>5. \A n \in 0 .. N : v[n] \subseteq TakenAfter(g, v[n])
    <2> HIDE DEF N
    <2> DEFINE T == {n \in 0 .. N : v[n] \subseteq TakenAfter(g, v[n])}
    <2>1. 0 \in T
      BY <1>1, <1>4
    <2>2. ASSUME NEW n \in 0 .. N, n \in T, n < N PROVE n + 1 \in T
      <3>1. n + 1 \in 0 .. N /\ v[n + 1] = TakenAfter(g, v[n])
        BY <1>1, <1>4, <2>2
      <3>2. v[n] \subseteq v[n + 1] /\ v[n + 1] \subseteq Stage
        BY <1>2, <1>4, <2>2, <3>1
      <3>3. TakenAfter(g, v[n]) \subseteq TakenAfter(g, v[n + 1])
        BY <3>2, TakenIsMonotonic
      <3> QED  BY <3>1, <3>3
    <2>3. 0 .. N \subseteq T
      <3> HIDE DEF T
      <3> QED  BY <1>1, <2>1, <2>2, Climb
    <2> QED  BY <2>3
  <1>6. \A X : TakenAfter(g, X) \subseteq reachable
    BY DEF TakenAfter
  <1> HIDE DEF reachable
  <1>7. \A n \in 0 .. N : /\ v[n] \subseteq Stage /\ v[n] \subseteq F[v[n]]
                          /\ F[v[n]] \subseteq Stage
    BY <1>2, <1>3, <1>4, <1>5, <1>6
  <1>8. \A n \in 0 .. N : n < N => v[n + 1] = F[v[n]]
    BY <1>2, <1>3, <1>4
  <1>9. F[v[N]] = v[N]
    BY <1>7, <1>8, StagesAreFinite, IterationSaturates
  <1> HIDE DEF N
  <1>10. v[N] \subseteq reachable /\ TakenAfter(g, v[N]) = v[N]
    BY <1>1, <1>2, <1>3, <1>4, <1>9
  <1> DEFINE R == reachable \ v[N]
  <1>11. SUFFICES ASSUME R # {} PROVE FALSE
    BY <1>4, <1>10 DEF reachable
  <1>12. PICK t \in R : \A s \in R \ HoldingStages : <<s, t>> \notin g
    <2>1. R \subseteq UsedStages
      BY <1>2
    <2> HIDE DEF R
    <2> QED  BY <1>11, <2>1, EverySetHasASource
  <1> DEFINE A == {s \in v[N] : <<s, t>> \in g}
             C == {s \in reachable \ HoldingStages : <<s, t>> \in g}
  <1>13. C \in SUBSET A /\ A \subseteq Stage
    BY <1>2, <1>10, <1>12
  <1> HIDE DEF A, C
  <1>14. IsFiniteSet(A) /\ IsFiniteSet(C) /\ Cardinality(C) <= Cardinality(A)
    BY <1>13, StagesAreFinite, FS_Subset
  <1>15. Cardinality(A) \in Nat /\ Cardinality(C) \in Nat
    BY <1>14, FS_CardinalityType
  <1>16. Cardinality(A) >= Cardinality(C)
    BY <1>14, <1>15
  <1>17. t \in TakenAfter(g, v[N])
    BY <1>12, <1>16 DEF TakenAfter, InDegree, A, C, reachable
  <1> QED  BY <1>10, <1>12, <1>17

\* The forward traversal visits every stage that can be reached.
LEMMA ForwardIsComplete ==
    ASSUME NEW g, g \subseteq UsedStages \X UsedStages, NEW s,
           Reaches(g, Entry, s)
    PROVE  s \in Forward(g, Entry)
  <1> DEFINE S == Forward(g, Entry) \cap UsedStages
  <1>1. {Entry} \subseteq Stage /\ Entry \in UsedStages
    BY GraphBuilderAssumption
  <1>2. /\ Entry \in Forward(g, Entry)
        /\ \A x \in Forward(g, Entry) : \A y \in Stage :
              <<x, y>> \in g => y \in Forward(g, Entry)
    BY <1>1, TraverseIsComplete DEF Forward
  <1>3. ASSUME NEW e \in g, e[1] \in S PROVE e[2] \in S
    <2>1. e = <<e[1], e[2]>> /\ e[2] \in UsedStages /\ e[2] \in Stage
      BY GraphBuilderAssumption
    <2> QED  BY <1>2, <1>3, <2>1
  <1>4. S \in SUBSET UsedStages /\ Entry \in S
    BY <1>1, <1>2
  <1> HIDE DEF S
  <1>5. s \in S
    BY <1>3, <1>4 DEF Reaches
  <1> QED  BY <1>5 DEF S

\* The backward traversal visits every stage that has an exit, the terminal
\* ones aside.
LEMMA BackwardIsComplete ==
    ASSUME NEW g, g \subseteq UsedStages \X UsedStages,
           NEW s \in UsedStages, NEW t \in TerminalStages, Reaches(g, s, t)
    PROVE  s \in Backward(g) \cup TerminalStages
  <1> DEFINE S == UsedStages \ (Backward(g) \cup TerminalStages)
  <1>1. SUFFICES ASSUME s \in S PROVE FALSE
    OBVIOUS
  <1>2. HasExit(g) \subseteq Stage
    BY DEF HasExit
  <1>3. /\ HasExit(g) \subseteq Backward(g)
        /\ \A x \in Backward(g) : \A y \in Stage :
              <<x, y>> \in ReverseEdges(g) => y \in Backward(g)
    BY <1>2, TraverseIsComplete DEF Backward
  <1>4. ASSUME NEW e \in g, e[1] \in S PROVE e[2] \in S
    <2>1. /\ e = <<e[1], e[2]>> /\ e[1] \in UsedStages /\ e[2] \in UsedStages
          /\ e[1] \in Stage
      BY GraphBuilderAssumption
    <2>2. <<e[1], e[2]>> \in g
      BY <2>1
    <2>3. e[2] \notin TerminalStages
      BY <1>3, <1>4, <2>1, <2>2 DEF HasExit
    <2>4. <<e[2], e[1]>> \in ReverseEdges(g)
      BY <2>2, Edges
    <2>5. e[2] \notin Backward(g)
      BY <1>3, <1>4, <2>1, <2>4
    <2> QED  BY <2>1, <2>3, <2>5
  <1>5. S \in SUBSET UsedStages /\ t \notin S
    OBVIOUS
  <1> HIDE DEF S
  <1> QED  BY <1>1, <1>4, <1>5 DEF Reaches

\* For every graph over any of the ten stages and every entry: validate()
\* accepts a lifecycle all of whose stages can be reached and left and whose
\* promotions do not cycle.  As many rounds as there are stages lose none
\* (stage.cpp 204-208, 293-295).
THEOREM WellFormedIsAccepted == Spec => []WellFormedGraphIsAccepted
  <1>1. GraphIsOfUsedStages /\ GraphFits => WellFormedGraphIsAccepted
    <2> SUFFICES ASSUME graph \subseteq UsedStages \X UsedStages, graph # {},
                        Cardinality(graph) <= kMaxEdges,
                        Reachable(graph), Exits(graph), PromotionAcyclic(graph)
                 PROVE  Validate(graph, Entry)
      BY DEF GraphIsOfUsedStages, GraphFits, WellFormedGraphIsAccepted
    <2>1. Appearing(graph) \subseteq Forward(graph, Entry)
      BY ForwardIsComplete DEF Reachable
    <2>2. Appearing(graph) \subseteq Backward(graph) \cup TerminalStages
      BY Edges, BackwardIsComplete DEF Exits
    <2>3. TopologicallyOrdered(graph, Entry) = Forward(graph, Entry)
      BY SortIsComplete
    <2>4. HasExit(graph) # {}
      <3>1. SUFFICES ASSUME HasExit(graph) = {} PROVE FALSE
        OBVIOUS
      <3>2. Backward(graph) \subseteq {}
        BY <3>1, TraverseIsSound DEF Backward
      <3>3. PICK e \in graph : TRUE
        OBVIOUS
      <3>4. e = <<e[1], e[2]>> /\ e[1] \in Stage
        BY GraphBuilderAssumption
      <3>5. e[2] \in TerminalStages
        BY <2>2, <3>2, <3>3, <3>4, Edges
      <3> QED  BY <3>1, <3>3, <3>4, <3>5 DEF HasExit
    <2> QED  BY <2>1, <2>2, <2>3, <2>4 DEF Validate
  <1> QED  BY <1>1, BuiltOfUsedStages, BuiltWithinBound, PTL

\* A cycle of promotions, turned round: some of its stages have, each, a
\* promotion to it from another.
LEMMA CyclesHaveNoSource ==
    ASSUME NEW g, NEW S, S \subseteq Stage, PromotionCycle(g, S)
    PROVE  \E M \in SUBSET S :
              M # {} /\ \A t \in M : \E s \in M \ HoldingStages : <<s, t>> \in g
  <1> DEFINE E == {e \in Stage \X Stage : <<e[2], e[1]>> \in g}
  <1>1. \A s, t \in Stage : <<s, t>> \in E <=> <<t, s>> \in g
    OBVIOUS
  <1>2. S # {} /\ \A s \in S : s \notin HoldingStages /\ \E t \in S : <<s, t>> \in g
    BY DEF PromotionCycle
  <1> HIDE DEF E
  <1>3. SUFFICES ASSUME \A M \in SUBSET S : M # {} =>
                           \E t \in M : \A s \in M \ HoldingStages :
                               <<s, t>> \notin g
                 PROVE  FALSE
    OBVIOUS
  <1>4. ASSUME NEW M \in SUBSET S, M # {}
        PROVE  \E t \in M : \A s \in M : <<t, s>> \notin E
    <2>1. PICK t \in M : \A s \in M \ HoldingStages : <<s, t>> \notin g
      BY <1>3, <1>4
    <2> QED  BY <1>1, <1>2, <2>1
  <1>5. \E s \in S : \A t \in S : <<t, s>> \notin E
    BY <1>2, <1>4, SinksGiveSources
  <1> QED  BY <1>1, <1>2, <1>5

\* For every graph over any of the ten stages: validate() takes a promotion
\* cycle for acyclic only where a holding stage leads into it
\* (stage.cpp 284-295, 329-338).
THEOREM CyclesAreHeld == Spec => []AcceptedCyclesAreHeld
  <1>1. ASSUME graph \subseteq UsedStages \X UsedStages,
               Validate(graph, Entry),
               NEW S \in SUBSET UsedStages, PromotionCycle(graph, S),
               \A h \in HoldingStages : \A t \in S : <<h, t>> \notin graph
        PROVE  FALSE
    <2> DEFINE N == Cardinality(Stage)
               reachable == Forward(graph, Entry)
    <2>1. N \in Nat
      BY StagesAreFinite
    <2>2. S \subseteq Stage
      BY GraphBuilderAssumption
    <2>3. PICK M \in SUBSET S :
             /\ M # {}
             /\ \A t \in M : \E s \in M \ HoldingStages : <<s, t>> \in graph
      BY <1>1, <2>2, CyclesHaveNoSource
    <2>4. M \subseteq reachable
      <3>1. ASSUME NEW t \in M PROVE t \in Appearing(graph)
        <4>1. PICK s \in M : <<s, t>> \in graph
          BY <2>3
        <4> QED  BY <1>1, <4>1, Edges
      <3> QED  BY <1>1, <3>1 DEF Validate
    <2> PICK v : Sorts(v, graph)
      BY SortIterates
    <2>5. /\ v[0] = {}
          /\ \A n \in 0 .. N :
                /\ v[n] \subseteq reachable
                /\ n < N => v[n + 1] = TakenAfter(graph, v[n])
          /\ reachable = v[N]
      BY <1>1 DEF Sorts, Validate
    <2>6. reachable \subseteq Stage
      <3>1. {Entry} \subseteq Stage
        BY GraphBuilderAssumption
      <3> QED  BY <3>1, TraverseIsComplete DEF Forward
    <2> HIDE DEF N
    <2> DEFINE T == {n \in 0 .. N : v[n] \cap M = {}}
    <2>7. 0 \in T
      BY <2>1, <2>5
    <2>8. ASSUME NEW n \in 0 .. N, n \in T, n < N, n + 1 \notin T PROVE FALSE
      <3>1. n + 1 \in 0 .. N /\ v[n + 1] = TakenAfter(graph, v[n])
        BY <2>1, <2>5, <2>8
      <3>2. PICK t \in M : t \in TakenAfter(graph, v[n])
        BY <2>8, <3>1
      <3>3. PICK s \in M \ HoldingStages : <<s, t>> \in graph
        BY <2>3
      <3> DEFINE A == {r \in v[n] : <<r, t>> \in graph}
                 C == {r \in reachable \ HoldingStages : <<r, t>> \in graph}
      <3>4. s \in C /\ C \subseteq Stage
        BY <2>4, <2>6, <3>3
      <3>5. A \in SUBSET (C \ {s})
        <4> SUFFICES ASSUME NEW r \in v[n], <<r, t>> \in graph
                     PROVE  r \in C /\ r # s
          OBVIOUS
        <4>1. r \in reachable
          BY <2>5
        <4>2. r \notin HoldingStages
          BY <1>1
        <4>3. r # s
          BY <2>8, <3>3
        <4> QED  BY <4>1, <4>2, <4>3
      <3>6. Cardinality(A) >= Cardinality(C)
        BY <3>2 DEF TakenAfter, InDegree
      <3> HIDE DEF A, C
      <3>7. IsFiniteSet(C) /\ Cardinality(C) \in Nat
        BY <3>4, StagesAreFinite, FS_Subset, FS_CardinalityType
      <3>8. IsFiniteSet(C \ {s}) /\ Cardinality(C \ {s}) = Cardinality(C) - 1
        BY <3>4, <3>7, FS_RemoveElement
      <3>9. IsFiniteSet(A) /\ Cardinality(A) <= Cardinality(C \ {s})
        BY <3>5, <3>8, FS_Subset
      <3>10. Cardinality(A) \in Nat
        BY <3>9, FS_CardinalityType
      <3> QED  BY <3>6, <3>7, <3>8, <3>9, <3>10
    <2>9. 0 .. N \subseteq T
      <3> HIDE DEF T
      <3> QED  BY <2>1, <2>7, <2>8, Climb
    <2>10. v[N] \cap M = {}
      BY <2>1, <2>9
    <2> QED  BY <2>3, <2>4, <2>5, <2>10
  <1>2. GraphIsOfUsedStages => AcceptedCyclesAreHeld
    BY <1>1 DEF GraphIsOfUsedStages, AcceptedCyclesAreHeld
  <1> QED  BY <1>2, BuiltOfUsedStages, PTL
=============================================================================
