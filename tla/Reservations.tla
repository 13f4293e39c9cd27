---------------------------- MODULE Reservations ----------------------------
(***************************************************************************)
(* Trains that find their way over a track T and reserve it: the tree      *)
(* nodes LocalizerNode, PathReservationNode and PathToNode of              *)
(* src/src/trains/train_trees.cpp, which a train ticks in this order for   *)
(* every message, and the requests Reserve, ReleaseReserve and Switch they *)
(* make of the train control server.  A request is one step.               *)
(*                                                                         *)
(* How far a train sees and how long it takes to stop is left out: where   *)
(* the code compares distances or times, the model may go either way.      *)
(* find_path gives any way that visits no node twice (module Pathfind says *)
(* which one it is).                                                       *)
(***************************************************************************)
EXTENDS Track

CONSTANTS T,         \* the track
          Train,     \* the numbers of the trains
          Start,     \* for every train, <<n>> where Reg has put it, or <<>>
          Goals,     \* where the trains are sent
          MaxPlans,  \* bound: new paths and trees
          MaxTurns   \* bound: ways out of a deadlock

Sec == [n \in Nodes(T) |-> Section(T, n)]

\* A track as the code has them: a node is reserved with the nodes from which
\* another train comes the other way.
SoundTrack(t, sec) ==
  /\ t \in Seq(Range(t)) /\ WellFormed(t)
  /\ Partition(sec)
  /\ \A n \in Nodes(t) : \A e \in Outgoing(t, n) : Rev(t, e.dest) \in sec[n]

ASSUME ReservationAssumption ==
  /\ SoundTrack(T, Sec)
  /\ UNRESERVED \notin Train
  /\ Start \in [Train -> {<<>>} \cup {<<n>> : n \in Nodes(T)}]
  /\ Goals \subseteq Nodes(T)
  /\ MaxPlans \in Nat /\ MaxTurns \in Nat

VARIABLES res,       \* the server's res_loco_id of every node
          curved,    \* the switches that the last commands have set to curved
          path,      \* the path of every train
          stopped,   \* PathReservationNode::stopped
          pc,        \* "idle", "release", "reserve", "switch", "plan", "lost" or "drop"
          at,        \* the item of the path a loop is at, or 0
          plans, turns,
          twice,     \* history: the sections that a path has had twice
          left       \* history: the sections a turning train had and forgot

trains == <<path, stopped, pc, at, plans, turns>>
vars   == <<res, curved, trains, twice, left>>

Items(t)  == path[t].items
Held(t)   == {i \in DOMAIN Items(t) : Items(t)[i].has}
Free(t)   == DOMAIN Items(t) \ Held(t)
Next1(t)  == Min(Free(t))
SecOf(t, i) == Sec[Items(t)[i].node]

\* The ways from every node that visit none twice, but for the ends of a loop.
Ways ==
  [s \in Nodes(T) |->
     LET Further(w) == {Append(w, e.dest) : e \in Outgoing(T, Last(w))}
         New(w) == \A i \in 2 .. (Len(w) - 1) : w[i] # Last(w)
         W[k \in 1 .. (Len(T) + 1)] ==
           IF k = 1 THEN {<<s>>}
           ELSE {w \in UNION {Further(v) : v \in {u \in W[k - 1] : k = 2 \/ Last(u) # s}} : New(w)}
     IN  UNION {W[k] : k \in 2 .. (Len(T) + 1)}]

PathOf(w) == PushAll(T, EmptyPath, [i \in DOMAIN w |-> PathNode(w[i])])

FindPath(s, g) == {PathOf(w) : w \in {v \in Ways[s] : Last(v) = g}}

\* The second when there is none of the first.
OrElse(P, Q) == IF P # {} THEN P ELSE Q

Init ==
  /\ res = [n \in Nodes(T) |-> UNRESERVED]
  /\ curved \in SUBSET {At(T, n).num : n \in {m \in Nodes(T) : IsBranch(T, m)}}
  /\ path = [t \in Train |-> PathOf(Start[t])]
  /\ stopped = [t \in Train |-> FALSE]
  /\ pc = [t \in Train |-> "idle"]
  /\ at = [t \in Train |-> 0]
  /\ plans = 0 /\ turns = 0
  /\ twice = [t \in Train |-> {}] /\ left = [t \in Train |-> {}]
-----------------------------------------------------------------------------
(* The server. *)
AnyMayReserve(t, n) == n \in DOMAIN res  \* mutant: whoever has it
MayReserve(t, n) == n \in DOMAIN res /\ GetReservation(Sec, res, n) \in {UNRESERVED, t}

HandleReserve(t, n) ==
  res' = IF MayReserve(t, n) THEN Reserve(Sec, res, n, t) ELSE res

HandleRelease(t, n) ==
  res' = IF MayReserve(t, n) THEN Release(Sec, res, n, t) ELSE res
-----------------------------------------------------------------------------
Go(t, where) == pc' = [pc EXCEPT ![t] = where]

\* The path of t becomes p.
Has(t, p) ==
  LET again == {i \in DOMAIN p.items : \E j \in DOMAIN p.items \ {i} :
                  Sec[p.items[i].node] = Sec[p.items[j].node]}
  IN  /\ path' = [path EXCEPT ![t] = p]
      /\ twice' = [twice EXCEPT ![t] = @ \cup {Sec[p.items[i].node] : i \in again}]

\* A message without a sensor.
Tick(t) ==
  /\ pc[t] = "idle" /\ Items(t) # <<>>
  /\ Go(t, "reserve")
  /\ UNCHANGED <<res, curved, path, stopped, at, plans, turns, twice, left>>

\* A sensor on the path whose node the train holds.
SensorHit(t) ==
  /\ pc[t] = "idle"
  /\ \E i \in Held(t) :
       /\ At(T, Items(t)[i].node).type = "SENSOR"
       /\ at' = [at EXCEPT ![t] =
                   Min({j \in DOMAIN Items(t) : Items(t)[j].node = Items(t)[i].node})]
  /\ Go(t, "release")
  /\ UNCHANGED <<res, curved, path, stopped, plans, turns, twice, left>>

\* A train that does not know where it is takes the first sensor for its own.
Localize(t) ==
  /\ pc[t] = "idle" /\ Items(t) = <<>>
  /\ \E n \in {m \in Nodes(T) : At(T, m).type = "SENSOR"} : Has(t, PathOf(<<n>>))
  /\ Go(t, "reserve")
  /\ UNCHANGED <<res, curved, stopped, at, plans, turns, left>>

\* LocalizerNode gives back what lies before the sensor.
Passed(t) ==
  /\ pc[t] = "release"
  /\ IF at[t] = 1
       THEN /\ Go(t, "reserve")
            /\ at' = [at EXCEPT ![t] = 0]
            /\ UNCHANGED <<res, path, twice>>
       ELSE /\ IF First(path[t]).has THEN HandleRelease(t, First(path[t]).node)
                                     ELSE UNCHANGED res
            /\ Has(t, Pop(path[t]))
            /\ at' = [at EXCEPT ![t] = @ - 1]
            /\ UNCHANGED pc
  /\ UNCHANGED <<curved, stopped, plans, turns, left>>
-----------------------------------------------------------------------------
(* PathReservationNode. *)
SwitchAt(n) == IF IsBranch(T, n) THEN n ELSE Rev(T, n)

\* How item i of the path wants its switch: nothing, "straight" or "curved".
Wants(p, i) ==
  LET n == p.items[i].node
      c == IF IsBranch(T, n) THEN p.items[i].curved
           ELSE Curved(T, Rev(T, n), Rev(T, p.items[i - 1].node))
  IN  CASE At(T, n).type \notin {"BRANCH", "MERGE"} -> {}
        [] At(T, n).type = "MERGE" /\ i = 1 -> {}
        [] OTHER -> {IF c THEN "curved" ELSE "straight"}

ReserveNext(t) ==
  /\ pc[t] = "reserve" /\ Free(t) # {}
  /\ MayReserve(t, Items(t)[Next1(t)].node)
  /\ HandleReserve(t, Items(t)[Next1(t)].node)
  /\ path' = [path EXCEPT ![t].items[Next1(t)].has = TRUE]
  /\ IF Wants(path[t], Next1(t)) = {}
       THEN UNCHANGED <<pc, at>>
       ELSE Go(t, "switch") /\ at' = [at EXCEPT ![t] = Next1(t)]
  /\ UNCHANGED <<curved, stopped, plans, turns, twice, left>>

\* The switch is set once the node is reserved; of the switches over 100, only
\* to curved.
SetSwitch(t) ==
  /\ pc[t] = "switch"
  /\ LET num == At(T, SwitchAt(Items(t)[at[t]].node)).num
     IN  curved' = IF Wants(path[t], at[t]) = {"curved"} THEN curved \cup {num}
                   ELSE IF num > 100 THEN curved ELSE curved \ {num}
  /\ Go(t, "reserve")
  /\ at' = [at EXCEPT ![t] = 0]
  /\ UNCHANGED <<res, path, stopped, plans, turns, twice, left>>

Full(t) ==
  /\ pc[t] = "reserve" /\ Free(t) = {}
  /\ stopped' = [stopped EXCEPT ![t] = FALSE]
  /\ Go(t, "plan")
  /\ UNCHANGED <<res, curved, path, at, plans, turns, twice, left>>

\* The train has reserved as far as it looks ahead.
FarEnough(t) ==
  /\ pc[t] = "reserve" /\ Free(t) # {} /\ Held(t) # {}
  /\ ~stopped[t]
  /\ Go(t, "plan")
  /\ UNCHANGED <<res, curved, path, stopped, at, plans, turns, twice, left>>

\* A train that stands reserves one node more than it had, and may go on.
Improved(t) ==
  /\ pc[t] = "reserve" /\ Free(t) # {} /\ Held(t) # {}
  /\ stopped[t]
  /\ \E s \in BOOLEAN : stopped' = [stopped EXCEPT ![t] = s]
  /\ Go(t, "idle")
  /\ UNCHANGED <<res, curved, path, at, plans, turns, twice, left>>

\* The next node is another train's: the train goes on as far as it may, or
\* stops, or waits, or has waited long enough.
Refused(t) ==
  /\ pc[t] = "reserve" /\ Free(t) # {}
  /\ ~MayReserve(t, Items(t)[Next1(t)].node)
  /\ \/ ~stopped[t] /\ Held(t) # {} /\ Go(t, "plan") /\ UNCHANGED stopped
     \/ ~stopped[t] /\ stopped' = [stopped EXCEPT ![t] = TRUE] /\ Go(t, "idle")
     \/ stopped[t] /\ Held(t) # {} /\ stopped' = [stopped EXCEPT ![t] = FALSE] /\ Go(t, "idle")
     \/ stopped[t] /\ Go(t, "idle") /\ UNCHANGED stopped
     \/ stopped[t] /\ turns < MaxTurns /\ Go(t, "lost") /\ UNCHANGED stopped
  /\ UNCHANGED <<res, curved, path, at, plans, turns, twice, left>>


\* Out of a deadlock: back over what is reserved, and from there to the goal.
\* The front of the path is given back when the train has left it, which it
\* may also have when there is no way.
PopN(p, n) ==
  LET Popped[k \in 0 .. n] == IF k = 0 THEN p ELSE Pop(Popped[k - 1])
  IN  Popped[n]

HeldPart(p) ==
  LET h == {i \in DOMAIN p.items : p.items[i].has}
      k == IF h = {} THEN Len(p.items) ELSE Min(h) - 1
  IN  PopN(p, k)

\* What lies behind a section that the path has twice, and that was given back
\* when it was passed for the first time: another train may have taken it.
Overrun(t) ==
  IF SecOf(t, Next1(t)) \in twice[t]
    THEN {SecOf(t, i) : i \in {j \in DOMAIN Items(t) : j > Next1(t)}} ELSE {}

Deadlock(t) ==
  /\ pc[t] = "lost"
  /\ LET P == FindPath(Rev(T, First(path[t]).node), Final(path[t]).node)
     IN  \/ P = {} /\ UNCHANGED <<path, twice>>
         \/ \E p \in P : Has(t, Concat(T, HeldPart(Reversed(T, path[t])), p))
  /\ left' = [left EXCEPT ![t] = @ \cup Overrun(t)]
  /\ \E where \in {"idle", "drop"} : Go(t, where)
  /\ turns' = turns + 1
  /\ UNCHANGED <<res, curved, stopped, at, plans>>

\* mutant: the node is given back, and stays in the path.
DropKeeps(t) ==
  /\ pc[t] = "drop"
  /\ HandleRelease(t, First(path[t]).node)
  /\ Go(t, "idle")
  /\ UNCHANGED <<curved, path, stopped, at, plans, turns, twice, left>>

Drop(t) ==
  /\ pc[t] = "drop"
  /\ HandleRelease(t, First(path[t]).node)
  /\ Has(t, Pop(path[t]))
  /\ Go(t, "idle")
  /\ UNCHANGED <<curved, stopped, at, plans, turns, left>>
-----------------------------------------------------------------------------
(* PathToNode. *)
\* improve_node_idx: one node ahead, and one more from a branch, as the
\* switches were when the train last heard of them.
Ahead1(n) == {e.dest : e \in Outgoing(T, n)}
Improve(n) == UNION {IF IsBranch(T, m) THEN Ahead1(m) ELSE {m} : m \in Ahead1(n)}

\* From n to g or, when there is no way, to the other side of g.
ToGoal(n, g) == OrElse(FindPath(n, g), FindPath(n, Rev(T, g)))

Arrived(t) ==
  /\ pc[t] = "plan"
  /\ Go(t, "idle")
  /\ UNCHANGED <<res, curved, path, stopped, at, plans, turns, twice, left>>

Extend(t) ==
  /\ pc[t] = "plan" /\ plans < MaxPlans
  /\ LET l == Final(path[t]).node
     IN  \E g \in Goals, n \in Improve(l) :
           \E x \in FindPath(l, n), p \in ToGoal(n, g) :
             Has(t, Concat(T, path[t], Concat(T, x, p)))
  /\ plans' = plans + 1
  /\ Go(t, "idle")
  /\ UNCHANGED <<res, curved, stopped, at, turns, left>>

\* There is no way ahead: the train reverses, gives back the last node and
\* forgets about the others.
Turn(t) ==
  /\ pc[t] = "plan" /\ plans < MaxPlans
  /\ LET l == Final(path[t])
         back(n) == Rev(T, n)
     IN  /\ \E g \in Goals, n \in Improve(l.node) :
              /\ ToGoal(n, g) = {}
              /\ \E m \in Improve(back(n)) :
                   \E x \in FindPath(back(n), m), p \in ToGoal(m, g) : Has(t, Concat(T, x, p))
         /\ IF l.has THEN HandleRelease(t, l.node) ELSE UNCHANGED res
  /\ left' = [left EXCEPT ![t] = @ \cup {SecOf(t, i) : i \in DOMAIN Items(t)}]
  /\ plans' = plans + 1
  /\ Go(t, "idle")
  /\ UNCHANGED <<curved, stopped, at, turns>>

\* The tree has ended and another is started for the train: its path comes
\* back from the server without what it held.
Restart(t) ==
  /\ pc[t] = "idle" /\ Held(t) # {} /\ plans < MaxPlans
  /\ Has(t, Decode(T, Encode(path[t])))
  /\ plans' = plans + 1
  /\ stopped' = [stopped EXCEPT ![t] = FALSE]
  /\ UNCHANGED <<res, curved, pc, at, turns, left>>

Step(t) ==
  \/ Tick(t) \/ SensorHit(t) \/ Localize(t) \/ Passed(t)
  \/ ReserveNext(t) \/ SetSwitch(t) \/ Full(t) \/ FarEnough(t) \/ Improved(t) \/ Refused(t)
  \/ Deadlock(t) \/ Drop(t)
  \/ Arrived(t) \/ Extend(t) \/ Turn(t) \/ Restart(t)

Next == \E t \in Train : Step(t)

Spec == Init /\ [][Next]_vars
-----------------------------------------------------------------------------
OwnerOf(S) == res[CHOOSE n \in S : TRUE]

Locks == INSTANCE TrackLocks WITH
  Lock   <- {Sec[n] : n \in Nodes(T)}, Nobody <- UNRESERVED,
  owner  <- [S \in {Sec[n] : n \in Nodes(T)} |-> OwnerOf(S)]

\* The requests of all trains together take and give back whole sections,
\* each of which has one owner at most.
ImplementsLocks == Locks!Spec

\* get_reservation never meets two owners in a section (which it would report
\* as one with the number 155).
NoConflict == \A n \in Nodes(T) : \A m \in Sec[n] : res[m] = res[n]

\* What a train believes to hold it does hold, unless its path has had the
\* section twice: then it is given back when it is passed for the first time.
\* It holds the nodes of its path up to some point and none after it: the
\* distance it may run is summed up to there.
HeldIsOwned ==
  \A t \in Train : \A i \in Held(t) :
    /\ SecOf(t, i) \in twice[t] \/ OwnerOf(SecOf(t, i)) = t
    /\ \A j \in Free(t) : i < j

\* No train keeps a section that it does not mean to run over, but for those
\* that it had when it turned in PathToNode, and those behind a section that
\* its path has had twice when it turns out of a deadlock.
OwnedIsWanted ==
  \A t \in Train : \A n \in Nodes(T) :
    res[n] = t => Sec[n] \in left[t] \cup {SecOf(t, i) : i \in DOMAIN Items(t)}

\* The switches ahead of a train, on what it holds, are as its path wants them:
\* but for those over 100, which are never set to straight.
SwitchNum(p, i) == At(T, SwitchAt(p.items[i].node)).num
Exempt(t, i) ==
  \/ \E j \in {i - 1, i} : SecOf(t, j) \in twice[t]
  \/ Wants(path[t], i) = {"straight"} /\ SwitchNum(path[t], i) > 100

SwitchesSet ==
  \A t \in Train : \A i \in Held(t) \ {1} :
    \/ Wants(path[t], i) = {}
    \/ pc[t] = "switch" /\ at[t] = i
    \/ Exempt(t, i)
    \/ Wants(path[t], i) = {"curved"} <=> SwitchNum(path[t], i) \in curved
-----------------------------------------------------------------------------
Item == [node : Nodes(T), dx : Int, curved : BOOLEAN, has : BOOLEAN]
Path == [items : Seq(Item), mm : Int]

TypeOK ==
  /\ res \in [Nodes(T) -> Train \cup {UNRESERVED}]
  /\ curved \in SUBSET Nat
  /\ path \in [Train -> Path]
  /\ stopped \in [Train -> BOOLEAN]
  /\ pc \in [Train -> {"idle", "release", "reserve", "switch", "plan", "lost", "drop"}]
  /\ at \in [Train -> Nat]
  /\ plans \in Nat /\ turns \in Nat
  /\ twice \in [Train -> SUBSET SUBSET Nodes(T)]
  /\ left \in [Train -> SUBSET SUBSET Nodes(T)]

\* A path leads over edges, and says of every branch which way it goes on.
Linked(p) ==
  /\ Len(p.items) <= TRACK_MAX
  /\ \A i \in 1 .. (Len(p.items) - 1) :
       /\ EdgesTo(T, p.items[i].node, p.items[i + 1].node) # {}
       /\ IsBranch(T, p.items[i].node) =>
            p.items[i].curved = Curved(T, p.items[i].node, p.items[i + 1].node)

PathsLinked == \A t \in Train : Linked(path[t])

\* The history knows what is twice on a path.
TwiceKnown ==
  \A t \in Train : \A i, j \in DOMAIN Items(t) :
    i # j /\ SecOf(t, i) = SecOf(t, j) => SecOf(t, i) \in twice[t]

\* What a train knows of its path between two steps of a tick.
PcSound ==
  \A t \in Train :
    /\ pc[t] # "idle" => Items(t) # <<>>
    /\ pc[t] = "release" => at[t] \in Held(t)
    /\ pc[t] = "switch" =>
         /\ at[t] \in Held(t) /\ \A i \in Held(t) : i <= at[t]
         /\ Wants(path[t], at[t]) # {}
         /\ OwnerOf(SecOf(t, at[t])) = t
    /\ pc[t] = "lost" => Free(t) # {} /\ OwnerOf(SecOf(t, Next1(t))) # t

\* What a train has reserved, whether it knows it or not, comes on its path
\* before anything that another train can have.
OwnedAhead ==
  \A t \in Train : \A n \in Nodes(T) :
    res[n] = t =>
      \/ Sec[n] \in left[t]
      \/ \E i \in DOMAIN Items(t) :
           /\ SecOf(t, i) = Sec[n]
           /\ \A j \in 1 .. i : OwnerOf(SecOf(t, j)) = t \/ SecOf(t, j) \in twice[t]

IInv ==
  /\ TypeOK /\ NoConflict /\ PathsLinked /\ HeldIsOwned /\ TwiceKnown
  /\ PcSound /\ OwnedAhead /\ SwitchesSet
=============================================================================
