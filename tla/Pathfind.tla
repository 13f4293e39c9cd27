------------------------------ MODULE Pathfind ------------------------------
(***************************************************************************)
(* Track::find_path and find_loop (src/src/trains/pathfind.cpp): a search  *)
(* that takes the nearest entry from a heap, and what is done with the     *)
(* Path it returns.  One step is one turn of the loop; nothing else runs   *)
(* on the caller's copy of the track.                                      *)
(***************************************************************************)
EXTENDS Track

CONSTANTS Layout,        \* "A" or "B"
          AllowReverse,  \* the parameter; no caller passes true
          Queries,       \* [start, goal, id, held]: held are the reservations
          MaxOps         \* bound: operations on the path that is found

T   == IF Layout = "A" THEN TrackA ELSE TrackB
Sec == [n \in Nodes(T) |-> Section(T, n)]

INF          == 1073741823
REVERSE_COST == 500

VARIABLES query,  \* what was asked for
          res,    \* who has reserved each node
          legs,   \* the searches to make for it: pairs of start and goal
          got,    \* the paths that were found for the first of them
          best, pred, heap,  \* the search: best_dist, predecessor, frontier
          pc,     \* "idle", "search" or "path"
          path,   \* the result
          ops

vars == <<query, res, legs, got, best, pred, heap, pc, path, ops>>

-----------------------------------------------------------------------------
(* Heap of lib/heap.h: entry i has its children at 2i and 2i + 1.          *)
Less(a, b) == a[1] < b[1] \/ (a[1] = b[1] /\ a[2] < b[2])

Swap(h, i, j) == [h EXCEPT ![i] = h[j], ![j] = h[i]]

RECURSIVE BubbleUp(_, _)
BubbleUp(h, i) ==
  IF i > 1 /\ Less(h[i], h[i \div 2])
    THEN BubbleUp(Swap(h, i, i \div 2), i \div 2)
    ELSE h

HeapPush(h, v) ==
  IF Len(h) = TRACK_MAX THEN h ELSE BubbleUp(Append(h, v), Len(h) + 1)

RECURSIVE BubbleDown(_, _)
BubbleDown(h, i) ==
  LET below == {2 * i, 2 * i + 1} \cap DOMAIN h
      least == CHOOSE k \in below : \A j \in below : ~Less(h[j], h[k])
  IN  IF below # {} /\ Less(h[least], h[i])
        THEN BubbleDown(Swap(h, least, i), least)
        ELSE h

\* mutant: the last entry stays where the first was.
HeapPopUnsorted(h) == IF Len(h) <= 1 THEN <<>> ELSE [Front(h) EXCEPT ![1] = Last(h)]

HeapPop(h) ==
  IF Len(h) <= 1 THEN <<>> ELSE BubbleDown([Front(h) EXCEPT ![1] = Last(h)], 1)

-----------------------------------------------------------------------------
\* find_loop: one edge ahead, and from there back; from a branch over either
\* of its edges.
LoopLegs(n) ==
  LET d == [k \in DOMAIN At(T, n).edge |-> At(T, n).edge[k].dest]
  IN  FlattenSeq([k \in DOMAIN d |-> <<<<n, d[k]>>, <<d[k], n>>>>])

Legs(q) == IF q.start = q.goal THEN LoopLegs(q.start) ELSE <<<<q.start, q.goal>>>>

\* The train for which the reservations of others count; 0 for none of them.
Id == IF query.start = query.goal THEN 0 ELSE query.id

Init ==
  /\ query \in Queries
  /\ res = FoldSet(LAMBDA h, r : Reserve(Sec, r, h.node, h.id),
                   [n \in Nodes(T) |-> UNRESERVED], query.held)
  /\ legs = Legs(query)
  /\ got = <<>>
  /\ best = [n \in Nodes(T) |-> INF]
  /\ pred = [n \in Nodes(T) |-> -1]
  /\ heap = <<>>
  /\ pc = "idle"
  /\ path = EmptyPath
  /\ ops = 0

Leg   == legs[IF pc = "search" THEN Len(got) + 1 ELSE Max({1, Len(got)})]
Start == Leg[1]
Goal  == Leg[2]

Begin ==
  /\ pc = "idle" /\ Len(got) < Len(legs)
  /\ LET s == legs[Len(got) + 1][1]
     IN  /\ best' = [n \in Nodes(T) |-> IF n = s THEN 0 ELSE INF]
         /\ heap' = <<<<0, s>>>>
  /\ pred' = [n \in Nodes(T) |-> -1]
  /\ pc' = "search"
  /\ UNCHANGED <<query, res, legs, got, path, ops>>

Traversable(n) ==
  Id = 0 \/ n = Start \/ GetReservation(Sec, res, n) \in {UNRESERVED, Id}

\* One better way: s holds best, pred and heap.
Relax(s, u, m, dist) ==
  LET d == s.best[u] + (IF Traversable(m) THEN dist ELSE dist * 3)
  IN  IF d < s.best[m]
        THEN [best |-> [s.best EXCEPT ![m] = d], pred |-> [s.pred EXCEPT ![m] = u],
              heap |-> HeapPush(s.heap, <<d, m>>)]
        ELSE s

\* mutant: only the first edge of a branch is followed.
RelaxStraight(s, u) ==
  IF At(T, u).edge = <<>> THEN s
  ELSE Relax(s, u, At(T, u).edge[1].dest, At(T, u).edge[1].dist)

RelaxAll(s, u) ==
  LET ahead == FoldLeft(LAMBDA r, e : Relax(r, u, e.dest, e.dist), s, At(T, u).edge)
  IN  IF AllowReverse THEN Relax(ahead, u, Rev(T, u), REVERSE_COST) ELSE ahead

\* The entry is older than a better way to its node.
Outdated(e) == e[1] > best[e[2]]

Skip ==
  /\ pc = "search" /\ heap # <<>>
  /\ Outdated(heap[1])
  /\ heap' = HeapPop(heap)
  /\ UNCHANGED <<query, res, legs, got, best, pred, pc, path, ops>>

Expand ==
  /\ pc = "search" /\ heap # <<>>
  /\ ~Outdated(heap[1])
  /\ heap[1][2] # Goal
  /\ LET s == RelaxAll([best |-> best, pred |-> pred, heap |-> HeapPop(heap)], heap[1][2])
     IN  best' = s.best /\ pred' = s.pred /\ heap' = s.heap
  /\ UNCHANGED <<query, res, legs, got, pc, path, ops>>

RECURSIVE Trace(_)
Trace(n) == IF n = -1 THEN <<>> ELSE Append(Trace(pred[n]), n)

\* mutant: the node before the first is not -1 but the start itself.
BuildPathShort(n) ==
  IF best[n] >= INF THEN {} ELSE
    {LET s == Tail(Trace(n)) IN PushAll(T, EmptyPath, [i \in DOMAIN s |-> PathNode(s[i])])}

\* build_path: a step without an edge, the turn of a train, is left out.
BuildPath(n) ==
  IF best[n] >= INF THEN {} ELSE
    {LET s == Trace(n) IN PushAll(T, EmptyPath, [i \in DOMAIN s |-> PathNode(s[i])])}

\* The loop ends, at the goal or with an empty heap.
Finish ==
  /\ pc = "search"
  /\ heap # <<>> => ~Outdated(heap[1]) /\ heap[1][2] = Goal
  /\ got' = Append(got, BuildPath(Goal))
  /\ pc' = "idle"
  /\ UNCHANGED <<query, res, legs, best, pred, heap, path, ops>>

\* mutant: the way back alone.

\* The two legs over edge k of the node, if there is a way back.
LoopOver(k) ==
  IF 2 * k > Len(got) THEN {}
  ELSE {Concat(T, p, q) : p \in got[2 * k - 1], q \in got[2 * k]}

Result ==
  CASE query.start # query.goal -> got[1]
    [] query.start = query.goal /\ LoopOver(1) # {} -> LoopOver(1)
    [] OTHER -> LoopOver(2)

Return ==
  /\ pc = "idle" /\ Len(got) = Len(legs)
  /\ pc' = "path"
  /\ path' = IF Result = {} THEN EmptyPath ELSE CHOOSE p \in Result : TRUE
  /\ UNCHANGED <<query, res, legs, got, best, pred, heap, ops>>

\* What the trains' trees and the server do with a path.
Change ==
  /\ pc = "path" /\ path.items # <<>> /\ ops < MaxOps
  /\ ops' = ops + 1
  /\ \/ path' = Pop(path)
     \/ path' = PopBack(path)
     \/ path' = Reversed(T, path)
     \/ path' = Decode(T, Encode(path))
     \/ \E e \in Outgoing(T, Final(path).node) : path' = Push(T, path, PathNode(e.dest))
     \/ \E e \in Outgoing(T, Rev(T, First(path).node)) :
          path' = PushFront(T, path, PathNode(Rev(T, e.dest)))
  /\ UNCHANGED <<query, res, legs, got, best, pred, heap, pc>>

Next == Begin \/ Skip \/ Expand \/ Finish \/ Return \/ Change

Spec == Init /\ [][Next]_vars
-----------------------------------------------------------------------------
(* The search implements ShortestPath: a node is expanded when it has been  *)
(* reached and its entry is no longer in the heap.                          *)
Entries  == {heap[i] : i \in DOMAIN heap}
Expanded == {n \in Nodes(T) : best[n] < INF /\ <<best[n], n>> \notin Entries}

Edges ==
  {<<n, e.dest>> : <<n, e>> \in UNION {{<<n, e>> : e \in Outgoing(T, n)} : n \in Nodes(T)}}

Search == INSTANCE ShortestPath WITH
  Node     <- Nodes(T),
  NoNode   <- -1,
  Edge     <- Edges,
  Dist     <- [e \in Edges |-> GetEdge(T, e[1], e[2]).dist],
  Penalty  <- 3,
  start    <- IF legs = <<>> THEN query.start ELSE Start,
  goal     <- IF legs = <<>> THEN query.goal ELSE Goal,
  taken    <- IF legs = <<>> THEN {} ELSE {n \in Nodes(T) : ~Traversable(n)},
  expanded <- Expanded,
  phase    <- CASE pc = "search" -> "search"
                [] pc # "search" /\ got = <<>> -> "idle"
                [] OTHER -> "done"

\* What the search relies on holds on the tracks of TrackData.
ASSUME TrackIsGraph == Search!GraphAssumption

\* find_path with its heap and outdated entries is the search of the
\* textbook: every node it expands is a nearest one that was not expanded.
ImplementsSearch == Search!SearchSpec

\* The cost of the goal is that of a cheapest way: what the search found, cut
\* off there, is a lower bound (module ShortestPath has the argument).
EndsAtABound == Search!EndsAtABound

CostOf(p) ==
  FoldLeft(LAMBDA c, i : c + Search!Cost(<<p.items[i].node, p.items[i + 1].node>>),
           0, [i \in 1 .. (Len(p.items) - 1) |-> i])

\* build_path and find_loop: the path that is returned leads from start to
\* goal, it costs what the search says, and there is one whenever the goal was
\* reached; a loop starts and ends at its node and is as long as its legs.
LeadsToGoal ==
  /\ pc = "idle" /\ got # <<>> =>
       /\ best[Goal] < INF <=> Last(got) # {}
       /\ \A p \in Last(got) :
            /\ First(p).node = Start /\ Final(p).node = Goal
            /\ CostOf(p) = best[Goal]
  /\ pc = "path" /\ ops = 0 /\ query.start = query.goal /\ path.items # <<>> =>
       /\ First(path).node = query.start /\ Final(path).node = query.goal
       /\ Len(path.items) > 2
       /\ \E k \in 1 .. (Len(got) \div 2) : \E p \in got[2 * k - 1], q \in got[2 * k] :
            path.mm = p.mm + q.mm

\* assert_path_dist_consistent of test_pathfind, for every path that any
\* operations lead to: dist_mm is the sum of the distances, which are those of
\* the edges to the next nodes, and the last is 0.  Path::reverse gives a path
\* as long, over nodes of the same sections, and the path itself when it is
\* reversed again.
PathConsistent ==
  LET p == path
      r == Reversed(T, path)
      k == Len(path.items)
  IN  /\ p.mm = FoldLeft(LAMBDA c, x : c + x.dx, 0, p.items)
      /\ p.items # <<>> => Final(p).dx = 0
      /\ \A i \in 1 .. (k - 1) :
           /\ EdgesTo(T, p.items[i].node, p.items[i + 1].node) # {}
           /\ p.items[i].dx = GetEdge(T, p.items[i].node, p.items[i + 1].node).dist
           /\ p.items[i].curved = Curved(T, p.items[i].node, p.items[i + 1].node)
           /\ r.items[i].node \in Sec[p.items[k - i].node]
      /\ r.mm = p.mm /\ Len(r.items) = k
      /\ Encode(Reversed(T, r)) = Encode(p)
=============================================================================
