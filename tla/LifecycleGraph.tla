---------------------------- MODULE LifecycleGraph ----------------------------
(***************************************************************************)
(* Lifecycle stages and the lifecycle graph of a promotion policy          *)
(* (src/domain/stage.cpp).  A graph is a set of pairs of stages: the code  *)
(* keeps a vector of edges that add_edge() keeps free of duplicates and    *)
(* canonicalize() sorts, so a graph is a set in canonical order.           *)
(*                                                                         *)
(* The breadth-first traversal and the topological count of validate() are *)
(* written as the sets they compute, by iterating one step at most         *)
(* Cardinality(Stage) times; the order in which the code's queues are      *)
(* emptied does not change these sets.                                     *)
(***************************************************************************)
EXTENDS Naturals, FiniteSets

Stage == {"Candidate", "Verified", "Qualified", "Staged", "Approved",
          "Promoted", "Quarantined", "Revoked", "Superseded", "Retired"}

TerminalStages == {"Revoked", "Retired", "Superseded"}

HoldingStages == {"Quarantined"}

\* LifecycleGraph::reference().
ReferenceEdges ==
    {<<"Candidate", "Verified">>, <<"Verified", "Qualified">>,
     <<"Qualified", "Staged">>, <<"Staged", "Approved">>,
     <<"Approved", "Promoted">>, <<"Quarantined", "Candidate">>}
    \cup ({"Candidate", "Verified", "Qualified", "Staged", "Approved",
           "Promoted"} \X {"Quarantined"})
    \cup ({"Promoted", "Staged", "Approved"} \X {"Revoked", "Superseded"})
    \cup ({"Promoted", "Superseded", "Revoked"} \X {"Retired"})

HasEdge(graph, from, to) == <<from, to>> \in graph

-----------------------------------------------------------------------------
(* LifecycleGraph::validate(entry).                                        *)

Image(graph, S) == {t \in Stage : \E s \in S : <<s, t>> \in graph}

ReverseEdges(graph) == {<<e[2], e[1]>> : e \in graph}

\* The stages a traversal of `graph' visits from the stages in S.
Traverse(graph, S) ==
    LET visited[n \in 0 .. Cardinality(Stage)] ==
            IF n = 0 THEN S
            ELSE LET seen == visited[n - 1] IN seen \cup Image(graph, seen)
    IN  visited[Cardinality(Stage)]

\* Mutant of Forward: only the direct successors of the entry are reachable.
ForwardOneStep(graph, entry) == {entry} \cup Image(graph, {entry})

Forward(graph, entry) == Traverse(graph, {entry})

HasExit(graph) == {s \in Stage : \E t \in TerminalStages : <<s, t>> \in graph}

\* Mutant of Backward: the exits are followed the wrong way.
BackwardUnreversed(graph) == Traverse(graph, HasExit(graph))

Backward(graph) == Traverse(ReverseEdges(graph), HasExit(graph))

Appearing(graph) == {e[1] : e \in graph} \cup {e[2] : e \in graph}

\* Mutant of InDegree: the in-degree of the entry stage is forced to zero.
InDegreeForcedAtEntry(graph, reachable, t) ==
    IF t = "Candidate" THEN 0
    ELSE Cardinality({s \in reachable \ HoldingStages : <<s, t>> \in graph})

\* Edges that leave a holding stage are not counted.
InDegree(graph, reachable, t) ==
    Cardinality({s \in reachable \ HoldingStages : <<s, t>> \in graph})

\* The stages the topological sort takes from its queue.  A stage enters the
\* queue when the edges from stages already taken, the edges that leave a
\* holding stage included, have used up its in-degree.
TopologicallyOrdered(graph, entry) ==
    LET reachable == Forward(graph, entry)
        degree == [t \in reachable |-> InDegree(graph, reachable, t)]
        Taken(S) == {t \in reachable :
                        Cardinality({s \in S : <<s, t>> \in graph})
                            >= degree[t]}
        ordered[n \in 0 .. Cardinality(Stage)] ==
            IF n = 0 THEN {} ELSE Taken(ordered[n - 1])
    IN  ordered[Cardinality(Stage)]

kMaxEdges == 64

Validate(graph, entry) ==
    /\ graph # {} /\ Cardinality(graph) <= kMaxEdges
    /\ Appearing(graph) \subseteq Forward(graph, entry)
    /\ Appearing(graph) \subseteq Backward(graph) \cup TerminalStages
    /\ TopologicallyOrdered(graph, entry) = Forward(graph, entry)
    /\ HasExit(graph) # {}
=============================================================================
