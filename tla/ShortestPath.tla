---------------------------- MODULE ShortestPath ----------------------------
(***************************************************************************)
(* What the loop of Track::find_path (src/src/trains/pathfind.cpp) is an   *)
(* implementation of: the search for a cheapest way from start to goal.    *)
(* Here the frontier is no heap with outdated entries but the set of the   *)
(* nodes that are reached and not yet expanded, and any of the nearest of  *)
(* them may be next.                                                       *)
(***************************************************************************)
EXTENDS Integers

CONSTANTS Node,     \* the nodes
          NoNode,   \* the predecessor of a node that has none
          Edge,     \* pairs of nodes
          Dist,     \* the length of every edge
          Penalty,  \* the factor for an edge to a node that is taken
          INF       \* the cost of a node that is not reached

\* What the search relies on; assumed by its users and by every theorem.
GraphAssumption ==
  /\ NoNode \notin Node
  /\ Edge \subseteq Node \X Node
  /\ Dist \in [Edge -> Nat]
  /\ Penalty \in Nat
  /\ INF \in Nat \ {0}

VARIABLES start, goal,  \* the query
          taken,        \* the nodes that another train has reserved
          best,         \* the least cost found for every node
          pred,         \* and the node it was reached from
          expanded,     \* the nodes whose edges have been followed
          phase            \* "idle", "search" or "done"

searchVars == <<start, goal, taken, best, pred, expanded, phase>>

\* What the edge e costs.
Cost(e) == IF e[2] \in taken THEN Penalty * Dist[e] ELSE Dist[e]

Query ==
  /\ start \in Node
  /\ goal \in Node
  /\ taken \in SUBSET Node

SearchInit ==
  /\ Query
  /\ best = [n \in Node |-> INF]
  /\ pred = [n \in Node |-> NoNode]
  /\ expanded = {}
  /\ phase = "idle"

Frontier == {n \in Node \ expanded : best[n] < INF}
Nearest  == {n \in Frontier : \A m \in Frontier : best[n] <= best[m]}

\* A search, also the next one, which forgets what the last one found.
Begin ==
  /\ phase # "search"
  /\ phase' = "search"
  /\ Query'
  /\ best' = [n \in Node |-> IF n = start' THEN 0 ELSE INF]
  /\ pred' = [n \in Node |-> NoNode]
  /\ expanded' = {}

\* Whether m is reached at less cost over u.
Better(u, m) == <<u, m>> \in Edge /\ best[u] + Cost(<<u, m>>) < best[m]

\* The edges of u are followed, one of the nearest.
Expand(u) ==
  /\ phase = "search"
  /\ u # goal
  /\ best' = [m \in Node |-> IF Better(u, m) THEN best[u] + Cost(<<u, m>>) ELSE best[m]]
  /\ pred' = [m \in Node |-> IF Better(u, m) THEN u ELSE pred[m]]
  /\ expanded' = expanded \cup {u}
  /\ UNCHANGED <<start, goal, taken, phase>>

\* The goal is among the nearest, or there is nothing left to expand.
Finish ==
  /\ phase = "search"
  /\ goal \in Nearest \/ Frontier = {}
  /\ phase' = "done"
  /\ UNCHANGED <<start, goal, taken, best, pred, expanded>>

SearchNext == Begin \/ (\E u \in Nearest : Expand(u)) \/ Finish

SearchSpec == SearchInit /\ [][SearchNext]_searchVars
-----------------------------------------------------------------------------
\* A lower bound for the cost of reaching every node: nothing at the start,
\* and no edge gains more than it costs.  The greatest bound is the distance.
Bound(f) ==
  /\ f \in [Node -> Nat]
  /\ f[start] = 0
  /\ \A e \in Edge : f[e[2]] <= f[e[1]] + Cost(e)

Found == phase = "done" /\ best[goal] < INF

\* find_path returns a cheapest way, part one: no bound allows more than the
\* cost that was found.
ReachesBound == Found => \A f \in [Node -> Nat] : Bound(f) => f[goal] <= best[goal]

\* Part two: no way to the goal costs less, because what the search found,
\* cut off at the cost of the goal where the loop breaks, is such a bound.
EndsAtABound ==
  Found => Bound([n \in Node |-> IF best[n] < best[goal] THEN best[n] ELSE best[goal]])
=============================================================================
