----------------------------- MODULE GraphBuilder -----------------------------
(***************************************************************************)
(* A policy author builds a lifecycle graph edge by edge with              *)
(* LifecycleGraph::add_edge() and asks validate() whether it is well       *)
(* formed.  Every graph over the stages UsedStages with at most MaxEdges   *)
(* edges is a state, and validate() is compared with what its comments     *)
(* promise, stated independently of the traversals it performs.            *)
(***************************************************************************)
EXTENDS LifecycleGraph

CONSTANTS UsedStages,   \* the stages the author uses
          Entry,        \* the entry stage
          MaxEdges      \* kMaxEdges in the code, small in an instance

ASSUME GraphBuilderAssumption ==
    /\ UsedStages \subseteq Stage
    /\ Entry \in UsedStages
    /\ MaxEdges \in 0 .. kMaxEdges

VARIABLE graph

Init == graph = {}

\* add_edge() refuses a self transition, a duplicate and a graph that is full.
add_edge(from, to) ==
    /\ from # to
    /\ <<from, to>> \notin graph
    /\ Cardinality(graph) < MaxEdges
    /\ graph' = graph \cup {<<from, to>>}

Next == \E from, to \in UsedStages : add_edge(from, to)

Spec == Init /\ [][Next]_graph

-----------------------------------------------------------------------------
(* What a well formed lifecycle is, without any traversal.                 *)

\* t can be reached from s: no set of stages closed under the graph holds s
\* and not t.
Reaches(g, s, t) ==
    \A S \in SUBSET UsedStages :
        s \in S /\ (\A e \in g : e[1] \in S => e[2] \in S) => t \in S

Reachable(g) == \A s \in Appearing(g) : Reaches(g, Entry, s)

Exits(g) ==
    \A s \in Appearing(g) :
        \E t \in TerminalStages \cap UsedStages : Reaches(g, s, t)

\* Stages on a cycle, the edges that leave a holding stage left aside: each one
\* has a successor in the set.
PromotionCycle(g, S) ==
    S # {} /\ \A s \in S : s \notin HoldingStages /\ \E t \in S : <<s, t>> \in g

PromotionAcyclic(g) == \A S \in SUBSET UsedStages : ~PromotionCycle(g, S)

-----------------------------------------------------------------------------
\* A graph validate() accepts has no stage that no artifact can occupy and no
\* stage an artifact can enter and never leave (stage.cpp 199-201, 274-276).
AcceptedGraphIsSound ==
    Validate(graph, Entry) => Reachable(graph) /\ Exits(graph)

\* The only promotion cycles that validate() accepts pass through a stage that
\* a holding stage leads to: its edge is not counted in the in-degree of the
\* stage but taken off it, in place of an edge of the cycle (stage.cpp 284-295,
\* 329-338).
AcceptedCyclesAreHeld ==
    Validate(graph, Entry) =>
        \A S \in SUBSET UsedStages :
            PromotionCycle(graph, S) =>
                \E h \in HoldingStages : \E t \in S : <<h, t>> \in graph

\* validate() accepts every well formed lifecycle: the bounded traversals and
\* the topological count lose no stage (stage.cpp 204-208, 293-295).
WellFormedGraphIsAccepted ==
    graph # {} /\ Reachable(graph) /\ Exits(graph) /\ PromotionAcyclic(graph)
        => Validate(graph, Entry)
=============================================================================
