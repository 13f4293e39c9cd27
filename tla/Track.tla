------------------------------- MODULE Track -------------------------------
(***************************************************************************)
(* What src/src/trains/pathfind.cpp computes on a track t: the nodes that  *)
(* are reserved together, and the operations on a Path, the list of nodes  *)
(* a train is to run over with the distance of each to the next.           *)
(***************************************************************************)
EXTENDS TrackData, Integers, FiniteSets, FiniteSetsExt, SequencesExt

TRACK_MAX  == 144
UNRESERVED == 0
CONFLICT   == 155   \* the owner get_reservation reports when there are two

Nodes(t)      == 0 .. (Len(t) - 1)
At(t, n)      == t[n + 1]
Rev(t, n) == At(t, n).reverse

\* for_each_outgoing_edge: none from an exit, two from a branch.
Outgoing(t, n) == {At(t, n).edge[k] : k \in DOMAIN At(t, n).edge}

Ahead(t, n) == IF At(t, n).edge = <<>> THEN 0 ELSE At(t, n).edge[1].dist

(***************************************************************************)
(* Reservations.                                                           *)
(***************************************************************************)
\* The nodes one step of walk_reservation_nodes goes to from n: the other
\* direction when either side has no length ahead, and for every edge the
\* train that would come the other way.
Touching(t, n) ==
  LET r == Rev(t, n)
  IN  (IF Ahead(t, r) = 0 \/ Ahead(t, n) = 0 THEN {r} ELSE {})
        \cup {Rev(t, e.dest) : e \in Outgoing(t, n)}

\* The nodes that the walk from n visits.
Section(t, n) ==
  LET Grow[S \in SUBSET Nodes(t)] ==
        LET G == S \cup UNION {Touching(t, m) : m \in S}
        IN  IF G = S THEN S ELSE Grow[G]
  IN  Grow[{n}]

\* Nodes that are reserved together are so from whichever of them the walk
\* starts; sec is the section of every node.
Partition(sec) ==
  \A n \in DOMAIN sec :
    /\ n \in sec[n] /\ sec[n] \subseteq DOMAIN sec
    /\ \A m \in sec[n] : sec[m] = sec[n]

\* res is the field res_loco_id of every node.
\* mutant: only the node itself is reserved.
ReserveOne(sec, res, n, id) == [res EXCEPT ![n] = id]

Reserve(sec, res, n, id) ==
  [m \in DOMAIN res |-> IF m \in sec[n] THEN id ELSE res[m]]

Release(sec, res, n, id) ==
  [m \in DOMAIN res |->
     IF m \in sec[n] /\ res[m] = id THEN UNRESERVED ELSE res[m]]

Owners(sec, res, n) == {res[m] : m \in sec[n]} \ {UNRESERVED}

GetReservation(sec, res, n) ==
  CASE Owners(sec, res, n) = {}              -> UNRESERVED
    [] Cardinality(Owners(sec, res, n)) = 1  -> CHOOSE o \in Owners(sec, res, n) : TRUE
    [] OTHER                                 -> CONFLICT

(***************************************************************************)
(* Edges between two given nodes.                                          *)
(***************************************************************************)
EdgesTo(t, n, m) ==
  {k \in DOMAIN At(t, n).edge : m # Rev(t, n) /\ At(t, n).edge[k].dest = m}

GetEdge(t, n, m) ==
  At(t, n).edge[CHOOSE k \in EdgesTo(t, n, m) : \A j \in EdgesTo(t, n, m) : k <= j]

IsBranch(t, n) == At(t, n).type = "BRANCH"

\* How the tables of init_tracka and init_trackb hang together: every rail can
\* be run over both ways, its edges name each other, a merge is a branch that is
\* run over from behind, and a switch has a number of its own.
WellFormed(t) ==
  \A n \in Nodes(t) :
    /\ Rev(t, n) \in Nodes(t) /\ Rev(t, Rev(t, n)) = n
    /\ IsBranch(t, n) <=> At(t, Rev(t, n)).type = "MERGE"
    /\ IsBranch(t, n) =>
         /\ At(t, n).num \in Nat
         /\ \A m \in Nodes(t) : IsBranch(t, m) /\ At(t, m).num = At(t, n).num => m = n
    /\ DOMAIN At(t, n).edge = IF IsBranch(t, n) THEN {1, 2}
                              ELSE IF At(t, n).edge = <<>> THEN {} ELSE {1}
    /\ \A k \in DOMAIN At(t, n).edge :
         LET e == At(t, n).edge[k]
         IN  /\ e.dest \in Nodes(t) /\ e.dist \in Nat
             /\ e.rev[1] = Rev(t, e.dest)
             /\ e.rev[2] + 1 \in DOMAIN At(t, e.rev[1]).edge
             /\ At(t, e.rev[1]).edge[e.rev[2] + 1].dest = Rev(t, n)

\* Whether a train gets from branch n to m by the curved edge.
Curved(t, n, m) == IsBranch(t, n) /\ At(t, n).edge[2].dest = m

(***************************************************************************)
(* Paths: the nodes in order, and the distance dist_mm that every          *)
(* operation keeps up to date by itself.                                   *)
(***************************************************************************)
PathNode(n) == [node |-> n, dx |-> 0, curved |-> FALSE, has |-> FALSE]
EmptyPath   == [items |-> <<>>, mm |-> 0]

First(p) == Head(p.items)
Final(p) == Last(p.items)

\* x as the node before node m.
Before(t, x, m) ==
  [x EXCEPT !.dx = GetEdge(t, x.node, m).dist,
            !.curved = IF IsBranch(t, x.node) THEN Curved(t, x.node, m) ELSE @]

Push(t, p, x) ==
  LET z == Before(t, Final(p), x.node)
      y == [x EXCEPT !.dx = 0]
  IN  CASE p.items = <<>> -> [p EXCEPT !.items = <<y>>]
        [] p.items # <<>> /\ (EdgesTo(t, Final(p).node, x.node) = {}
                                \/ Len(p.items) = TRACK_MAX) -> p
        [] OTHER -> [items |-> Append(Front(p.items), z) \o <<y>>,
                     mm |-> p.mm - Final(p).dx + z.dx]

PushFront(t, p, x) ==
  LET z == Before(t, x, First(p).node)
  IN  CASE p.items = <<>> -> [p EXCEPT !.items = <<[x EXCEPT !.dx = 0]>>]
        [] p.items # <<>> /\ (EdgesTo(t, x.node, First(p).node) = {}
                                \/ Len(p.items) = TRACK_MAX) -> p
        [] OTHER -> [items |-> <<z>> \o p.items, mm |-> p.mm + z.dx]

Pop(p) ==
  IF p.items = <<>> THEN p ELSE [items |-> Tail(p.items), mm |-> p.mm - First(p).dx]

\* mutant: the node that is now the last keeps its distance to the next.
PopBackKeepsDx(p) ==
  IF p.items = <<>> THEN p ELSE [items |-> Front(p.items), mm |-> p.mm - Final(p).dx]

PopBack(p) ==
  LET q == Front(p.items)
      n == Len(q)
  IN  CASE p.items = <<>> -> p
        [] Len(p.items) = 1 -> [items |-> q, mm |-> p.mm - Final(p).dx]
        [] OTHER -> [items |-> [q EXCEPT ![n].dx = 0],
                     mm |-> p.mm - Final(p).dx - q[n].dx]

PushAll(t, p, xs) ==
  LET Pushed[k \in 0 .. Len(xs)] == IF k = 0 THEN p ELSE Push(t, Pushed[k - 1], xs[k])
  IN  Pushed[Len(xs)]

\* mutant: the node where they meet stays reserved.
ConcatHeld(t, p, q) ==
  CASE q.items = <<>> -> p
    [] q.items # <<>> /\ p.items = <<>> -> q
    [] OTHER -> IF Final(p).node # First(q).node
                  THEN p ELSE PushAll(t, PopBack(p), [q.items EXCEPT ![1].has = Final(p).has])

\* p + q: q must start where p ends.
Concat(t, p, q) ==
  CASE q.items = <<>> -> p
    [] q.items # <<>> /\ p.items = <<>> -> q
    [] OTHER -> IF Final(p).node # First(q).node
                     \/ Len(p.items) + Len(q.items) - 1 > TRACK_MAX
                  THEN p ELSE PushAll(t, PopBack(p), q.items)

\* mutant: a node takes over the flag of its own reverse.
ReversedOwnFlag(t, p) ==
  LET k == Len(p.items)
      Back(i) == [PathNode(Rev(t, p.items[k - i + 1].node)) EXCEPT !.has = p.items[k - i + 1].has]
  IN  PushAll(t, EmptyPath, [i \in 1 .. k |-> Back(i)])

\* The same rails in the other direction.  A node takes over the flag of the
\* node before it in p, whose section it shares.
Reversed(t, p) ==
  LET k == Len(p.items)
      Back(i) ==
        LET a == p.items[k - i]
            e == GetEdge(t, a.node, p.items[k - i + 1].node).rev
        IN  [node |-> e[1], dx |-> At(t, e[1]).edge[e[2] + 1].dist,
             curved |-> IsBranch(t, e[1]) /\ e[2] = 1, has |-> a.has]
  IN  IF p.items = <<>> THEN EmptyPath
      ELSE PushAll(t, EmptyPath, [i \in 1 .. (k - 1) |-> Back(i)]
                                   \o <<PathNode(Rev(t, First(p).node))>>)

\* A path travels as the list of its nodes: what it had reserved is lost.
Encode(p)    == [i \in DOMAIN p.items |-> p.items[i].node]

\* Decoding stops before a node that has no edge to the next.
Decode(t, s) ==
  LET bad  == {i \in 1 .. (Len(s) - 1) : EdgesTo(t, s[i], s[i + 1]) = {}}
      good == IF bad = {} THEN s ELSE SubSeq(s, 1, Min(bad) - 1)
  IN  PushAll(t, EmptyPath, [i \in DOMAIN good |-> PathNode(good[i])])
=============================================================================
