----------------------------- MODULE TrainTrees -----------------------------
(***************************************************************************)
(* A tree that drives one train (src/src/trains/train_trees.cpp), ticked   *)
(* for every update of the train control server, with the central station  *)
(* that executes its commands and answers them.  Commands and answers may  *)
(* be lost; the nodes SetSpeed and SetDirectionNode send theirs again when *)
(* two seconds have passed.                                                *)
(*                                                                         *)
(* Two of the trees: NavigateTree, which may have to reverse, and          *)
(* CalibrateTree on a loop with one sensor.  A Sequence in a Sequence is   *)
(* written as one list of leaves.  What the leaves see of the track (is    *)
(* enough of it reserved, is the end of the path near, does the train      *)
(* still roll) is chosen by the environment; modules Reservations and      *)
(* Pathfind are about that.                                                *)
(***************************************************************************)
EXTENDS Integers, SequencesExt

CONSTANTS CRAWL, MAX, TEST, GO,   \* speeds
          TOP_SPEED_LOOPS, DECEL_LOOPS, ACCEL_LOOPS,
          RETRY,                  \* updates in two seconds
          MaxLost,                \* bound: frames that are lost
          MaxShort,               \* bound: updates in which too little is reserved
          MaxWire                 \* bound: frames on their way for time to pass

ASSUME TreesAssumption ==
  /\ {CRAWL, MAX, TEST, GO} \subseteq Nat \ {0}
  /\ {TOP_SPEED_LOOPS, DECEL_LOOPS, ACCEL_LOOPS} \subseteq Nat \ {0}

TOTAL_LOOPS == TOP_SPEED_LOOPS + DECEL_LOOPS + ACCEL_LOOPS

\* The leaves of each tree, in the order in which they are ticked.
Leaves(tree) ==
  IF tree = "navigate"
    THEN <<"crawl", "reserve", "path", "max", "done">>
    ELSE <<"crawl", "reserve", "path", "test", "loop_speed", "slow", "loop_decel",
           "test_2", "loop_accel", "stop">>

\* How often a Repeat counts the sensor.
\* mutant: the hit that ends the first, ignored loop is forgotten.
TimesShort(n) ==
  CASE n = "loop_speed" -> TOP_SPEED_LOOPS
    [] n = "loop_decel" -> DECEL_LOOPS
    [] n = "loop_accel" -> ACCEL_LOOPS

Times(n) ==
  CASE n = "loop_speed" -> TOP_SPEED_LOOPS + 1
    [] n = "loop_decel" -> DECEL_LOOPS
    [] n = "loop_accel" -> ACCEL_LOOPS

Repeats == {"loop_speed", "loop_decel", "loop_accel"}

\* The nodes that send a command until it is confirmed.
Turning == {"turn_stop", "turn", "turn_go"}
Setters == {"crawl", "max", "done", "test", "slow", "test_2", "stop"} \cup Turning

SpeedOf(n) ==
  CASE n \in {"crawl", "slow"}             -> CRAWL
    [] n \in {"test", "test_2"}            -> TEST
    [] n = "max"                           -> MAX
    [] n \in {"done", "stop", "turn_stop"} -> 0

VARIABLES
  tree,      \* "navigate" or "calibrate"
  nodes,     \* the state of its nodes
  loco,      \* the train as the server has last reported it, and as the model
             \* estimates it: speed, back, rolls
  result,    \* of the last tick
  near,      \* the end of the path is in stopping distance
  real,      \* speed and direction as the station has set them
  wire, answers,  \* commands to the station and answers from it
  short, lost,
  laps,      \* for each of the last loops, the speeds the train had on it
  lapse,     \* and on the current one
  mixed,     \* history: a command of PathReservationNode was lost, or was sent
             \* while the train turned, or was under way when another was sent,
  missed     \* and a hit of the sensor was not counted after the first one

world == <<near, real, wire, answers, short, lost, laps, lapse>>
treeVars  == <<tree, nodes, loco, result, world, mixed, missed>>

HasOnce(commands) == \E c \in ToSet(commands) : c.once

\* How much of the path is reserved: too little, enough for now, all of it.  A
\* train is calibrated alone.
Reserved == IF tree = "calibrate" THEN {"all"} ELSE {"short", "some", "all"}

Fresh == [sent |-> FALSE, done |-> FALSE, age |-> 0]

TreeInit ==
  /\ tree \in {"navigate", "calibrate"}
  /\ \E turn \in {"none", "wanted"} :
       /\ nodes = [latch |-> [n \in Setters |-> Fresh], times |-> [n \in Repeats |-> Times(n)],
                   stopped |-> FALSE, go |-> GO, stopping |-> FALSE,
                   turn |-> turn, back |-> FALSE, again |-> 0]
  /\ loco = [speed |-> 0, back |-> FALSE, rolls |-> FALSE]
  /\ result = "Running" /\ near = FALSE
  /\ real = [speed |-> 0, back |-> FALSE]
  /\ wire = <<>> /\ answers = <<>> /\ short = 0 /\ lost = 0
  /\ laps = <<>> /\ lapse = {0}
  /\ mixed = FALSE /\ missed = FALSE
-----------------------------------------------------------------------------
(* Nodes.  A tick of a node takes and gives a record s: the result r, the   *)
(* nodes' state, the train, the commands sent (out) and what is seen.       *)
Returns(s, r) == [s EXCEPT !.r = r]

Sends(s, what, value, once) ==
  [s EXCEPT !.out = Append(@, [what |-> what, value |-> value, once |-> once])]

\* SetSpeed and SetDirectionNode: done once the state shows what was sent.
\* mutant: sent once, and waited for.
SetOnce(n, what, value, s) ==
  LET l == s.nodes.latch[n]
  IN  CASE l.done \/ (l.sent /\ s.loco[what] = value) ->
             [Returns(s, "Success") EXCEPT !.nodes.latch[n] = [sent |-> TRUE, done |-> TRUE, age |-> 0]]
        [] OTHER ->
             IF l.sent THEN Returns(s, "Running")
             ELSE Sends([Returns(s, "Running") EXCEPT !.nodes.latch[n] = [@ EXCEPT !.sent = TRUE, !.age = 0]],
                        what, value, FALSE)

Set(n, what, value, s) ==
  LET l == s.nodes.latch[n]
  IN  CASE l.done \/ (l.sent /\ s.loco[what] = value) ->
             [Returns(s, "Success") EXCEPT !.nodes.latch[n] = [sent |-> TRUE, done |-> TRUE, age |-> 0]]
        [] OTHER ->
             IF l.sent /\ l.age <= RETRY THEN Returns(s, "Running")
             ELSE Sends([Returns(s, "Running") EXCEPT !.nodes.latch[n] = [@ EXCEPT !.sent = TRUE, !.age = 0]],
                        what, value, FALSE)

\* Repeat over AwaitSensorNode.
RepeatTick(n, s) ==
  LET left == s.nodes.times[n] - 1
  IN  CASE s.nodes.times[n] = 0 -> Returns(s, "Success")
        [] s.nodes.times[n] > 0 /\ s.event = "sensor" ->
             [Returns(s, IF left > 0 THEN "Running" ELSE "Success")
                EXCEPT !.nodes.times[n] = left, !.counted = TRUE]
        [] OTHER -> Returns(s, "Running")

\* PathReservationNode: a train that has reserved too little is stopped, and
\* goes on as before when it has enough.  Its own SetSpeed nodes are ticked
\* once each.
Reserve(s) ==
  CASE s.reserved = "short" /\ ~s.nodes.stopped ->
         Sends([Returns(s, "Running") EXCEPT
                  !.nodes.stopped = TRUE,
                  !.nodes.go = IF s.loco.speed > 0 THEN s.loco.speed ELSE @],
               "speed", 0, TRUE)
    [] s.reserved = "short" /\ s.nodes.stopped -> Returns(s, "Running")
    [] s.reserved # "short" /\ s.nodes.stopped ->
         Sends([Returns(s, IF s.reserved = "all" THEN "Success" ELSE "Running")
                  EXCEPT !.nodes.stopped = FALSE], "speed", s.nodes.go, TRUE)
    [] OTHER -> Returns(s, "Success")

\* What comes next when a node succeeds.  (The set of one element is there for
\* TLC, which evaluates its element once.)
Then(s, Leaf(_)) == CHOOSE u \in {IF t.r = "Success" THEN Leaf(t) ELSE t : t \in {s}} : TRUE

Initialized(s) ==
  IF s.nodes.turn = "wanted"
    THEN [s EXCEPT !.nodes.turn = "turning", !.nodes.back = ~s.loco.back, !.nodes.again = s.loco.speed]
    ELSE s

\* ReverseTree: the train stops, changes its direction and goes on as before.
\* mutant: it goes on before the direction is confirmed.
ReverseHasty(s) ==
  Then(Initialized(s),
       LAMBDA i : IF i.loco.rolls THEN Returns(Set("turn_stop", "speed", 0, i), "Running")
                  ELSE LET d == Set("turn", "back", i.nodes.back, i)
                       IN  IF i.nodes.again > 0 THEN Set("turn_go", "speed", i.nodes.again, d) ELSE d)

ReverseTree(s) ==
  Then(Initialized(s),
       LAMBDA i : IF i.loco.rolls THEN Returns(Set("turn_stop", "speed", 0, i), "Running")
                  ELSE Then(Set("turn", "back", i.nodes.back, i),
                            LAMBDA d : IF i.nodes.again > 0 THEN Set("turn_go", "speed", i.nodes.again, d) ELSE d))

\* PathToNode: the path ends at the goal, or does so once the train has turned.
PathToNode(s) ==
  IF s.nodes.turn \in {"none", "done"} THEN Returns(s, "Success")
  ELSE Then(ReverseTree(s),
            LAMBDA t : [t EXCEPT !.nodes.turn = "done", !.nodes.again = 0,
                                 !.nodes.latch = [n \in Setters |-> IF n \in Turning THEN Fresh ELSE @[n]]])

\* StopAtDonePath.
\* mutant: it ends when the stop is sent.
StopAndLeave(s) ==
  IF ~s.near /\ ~s.nodes.stopping THEN Returns(s, "Running")
  ELSE Returns(Set("done", "speed", 0, [s EXCEPT !.nodes.stopping = TRUE]), "Success")

StopAtDone(s) ==
  IF ~s.near /\ ~s.nodes.stopping THEN Returns(s, "Running")
  ELSE Then(Set("done", "speed", 0, [s EXCEPT !.nodes.stopping = TRUE]),
            LAMBDA t : Returns(t, IF t.loco.rolls THEN "Running" ELSE "Success"))

TickLeaf(n, s) ==
  CASE n = "reserve"  -> Reserve(s)
    [] n = "path"     -> PathToNode(s)
    [] n = "done"     -> StopAtDone(s)
    [] n \in Repeats  -> RepeatTick(n, s)
    [] OTHER          -> Set(n, "speed", SpeedOf(n), s)

\* Sequence: the leaves up to the first that does not succeed.
NextLeaf(n, s) == Then(s, LAMBDA t : TickLeaf(n, t))
Sequence(leaves, s) ==
  LET upto[i \in 0 .. Len(leaves)] == IF i = 0 THEN s ELSE NextLeaf(leaves[i], upto[i - 1])
  IN  upto[Len(leaves)]

Tick(s) == Sequence(Leaves(tree), s)
-----------------------------------------------------------------------------
(* The station, and the train.                                              *)
Execute ==
  /\ wire # <<>>
  /\ real' = [real EXCEPT ![Head(wire).what] = Head(wire).value]
  /\ lapse' = IF tree = "calibrate" THEN lapse \cup {real'.speed} ELSE lapse
  /\ answers' = Append(answers, Head(wire)) /\ wire' = Tail(wire)
  /\ UNCHANGED <<tree, nodes, loco, result, near, short, lost, laps, mixed, missed>>

LoseCommand ==
  /\ wire # <<>> /\ lost < MaxLost
  /\ wire' = Tail(wire) /\ lost' = lost + 1
  /\ mixed' = (mixed \/ Head(wire).once)
  /\ UNCHANGED <<tree, nodes, loco, result, near, real, answers, short, laps, lapse, missed>>

\* Also an answer that the server has and the tree then overwrites.
LoseAnswer ==
  /\ answers # <<>> /\ lost < MaxLost
  /\ answers' = Tail(answers) /\ lost' = lost + 1
  /\ mixed' = (mixed \/ Head(answers).once)
  /\ UNCHANGED <<tree, nodes, loco, result, near, real, wire, short, laps, lapse, missed>>

ComeNear ==
  /\ tree = "navigate" /\ nodes.turn \in {"none", "done"} /\ real.speed > 0 /\ ~near
  /\ near' = TRUE
  /\ UNCHANGED <<tree, nodes, loco, result, real, wire, answers, short, lost, laps, lapse,
                 mixed, missed>>
-----------------------------------------------------------------------------
(* run_tree: the tree is ticked with the train of an update, after the      *)
(* model has estimated whether it rolls: the estimate follows the speed of  *)
(* the updates before, since a train needs more than one to start.  A train *)
(* for which the end of the path is near has enough reserved only when it   *)
(* has all of the path, and keeps that; one that stands is not near (its    *)
(* stopping distance is 0).                                                 *)
Update(event, train, aged, reserved) ==
  \E rolls \in (IF (loco.speed > 0) = loco.rolls THEN {loco.rolls} ELSE BOOLEAN) :
    /\ result = "Running"
    /\ reserved = "short" => short < MaxShort
    /\ nodes.stopping => reserved = "all"
    /\ near /\ rolls => reserved # "some"
    /\ short' = IF reserved = "short" THEN short + 1 ELSE short
    /\ \E t \in {Tick([r |-> "Success", nodes |-> aged, loco |-> [train EXCEPT !.rolls = rolls],
                       out |-> <<>>, event |-> event, counted |-> FALSE,
                       reserved |-> reserved, near |-> near /\ rolls])} :
         /\ result' = t.r /\ nodes' = t.nodes /\ loco' = t.loco
         /\ wire' = wire \o t.out
         /\ mixed' = \/ mixed
                     \/ nodes.turn = "turning" /\ HasOnce(t.out)
                     \/ t.out # <<>> /\ HasOnce(wire \o answers \o Front(t.out))
         /\ missed' = (missed \/ (event = "sensor" /\ ~t.counted /\ nodes.times["loop_speed"] <= TOP_SPEED_LOOPS))
    /\ IF event = "sensor"
         THEN /\ lapse' = {real.speed}
              /\ laps' = IF Len(laps) = TOTAL_LOOPS THEN Append(Tail(laps), lapse) ELSE Append(laps, lapse)
         ELSE UNCHANGED <<lapse, laps>>
    /\ UNCHANGED <<tree, near, real, lost>>

\* An answer: TrackState::update sets the field that it shows.
UpdateAnswer ==
  /\ answers # <<>>
  /\ \E reserved \in Reserved :
       Update("answer", [loco EXCEPT ![Head(answers).what] = Head(answers).value], nodes, reserved)
  /\ answers' = Tail(answers)

UpdateSensor ==
  /\ tree = "calibrate" /\ real.speed > 0
  /\ \E reserved \in Reserved : Update("sensor", loco, nodes, reserved)
  /\ UNCHANGED answers

\* Time passes.
Older(l) == [l EXCEPT !.age = IF l.sent /\ ~l.done /\ @ <= RETRY THEN @ + 1 ELSE @]

UpdateTick(reserved) ==
  /\ Len(wire) + Len(answers) < MaxWire
  /\ Update("tick", loco, [nodes EXCEPT !.latch = [n \in Setters |-> Older(@[n])]], reserved)
  /\ UNCHANGED answers

TreeNext == \/ Execute \/ LoseCommand \/ LoseAnswer \/ ComeNear
        \/ UpdateAnswer \/ UpdateSensor
        \/ \E reserved \in Reserved : UpdateTick(reserved)

(* The station answers; the server sends updates as time passes, and in     *)
(* time the estimate follows the speed and other trains free the track; a   *)
(* train that runs gets somewhere.                                          *)
Settle == UpdateTick("all") /\ loco'.rolls = (loco.speed > 0)

Fairness ==
  /\ WF_treeVars(Execute) /\ SF_treeVars(UpdateAnswer) /\ SF_treeVars(Settle)
  /\ WF_treeVars(ComeNear) /\ SF_treeVars(UpdateSensor)

TreeSpec == TreeInit /\ [][TreeNext]_treeVars /\ Fairness
-----------------------------------------------------------------------------
\* Every tree ends, whatever is lost: a command whose answer does not come is
\* sent again.  The commands of PathReservationNode are not: when one of them
\* is lost the train may stand, or run, for good.  So it may when a command
\* sent while one of those was under way is lost: its answer is taken for the
\* other's.  And ReverseTree waits for good when PathReservationNode starts the
\* train that it has stopped.
TreeEnds == <>(result = "Success" \/ mixed)

\* When NavigateTree ends the train stands; unless the stop was sent while a
\* command of PathReservationNode was under way: then the state still shows
\* the speed 0 from before, and the stop is taken for confirmed, and not sent
\* again, before it has arrived.
StandsAtEnd ==
  tree = "navigate" /\ result = "Success" /\ ~mixed => real.speed = 0

\* A train that has turned runs in the new direction, and goes on doing so:
\* the command is repeated until it is answered, and once executed a repeated
\* one does not turn it back.
TurnedForGood == nodes.turn = "done" => real.back = nodes.back

\* What CalibrateTree computes with: of the last loops the first were run at
\* the speed that is measured, the next after the drop to the crawl speed and
\* the last after the rise from it; unless the train has hit the sensor when
\* no node counted it.
Window(i, n) == UNION {laps[j] : j \in i .. (i + n - 1)}
CalibrationData ==
  tree = "calibrate" /\ result = "Success" /\ ~missed =>
    /\ Len(laps) = TOTAL_LOOPS
    /\ Window(1, TOP_SPEED_LOOPS) = {TEST}
    /\ Window(1 + TOP_SPEED_LOOPS, DECEL_LOOPS) = {TEST, CRAWL}
    /\ Window(1 + TOP_SPEED_LOOPS + DECEL_LOOPS, ACCEL_LOOPS) = {CRAWL, TEST}
-----------------------------------------------------------------------------
(* The inductive invariant. *)
Latch   == [sent : BOOLEAN, done : BOOLEAN, age : Nat]
Command == [what : {"speed"}, value : Nat, once : BOOLEAN]
             \cup [what : {"back"}, value : BOOLEAN, once : {FALSE}]
NodesState ==
  [latch : [Setters -> Latch], times : [Repeats -> Nat], stopped : BOOLEAN, go : Nat,
   stopping : BOOLEAN, turn : {"none", "wanted", "turning", "done"}, back : BOOLEAN, again : Nat]
TreeTypeOK ==
  /\ tree \in {"navigate", "calibrate"} /\ nodes \in NodesState
  /\ loco \in [speed : Nat, back : BOOLEAN, rolls : BOOLEAN]
  /\ result \in {"Success", "Running"}
  /\ near \in BOOLEAN /\ real \in [speed : Nat, back : BOOLEAN]
  /\ wire \in Seq(Command) /\ answers \in Seq(Command)
  /\ mixed \in BOOLEAN

IsStop(c) == c.what = "speed" /\ c.value = 0
IsGo(c)   == c.what = "speed" /\ c.value > 0
IsTurn(c) == c.what = "back"

(* The turn: only one direction is ever sent, and once it is seen in an     *)
(* answer or in the train's state the train has it.  nd are the nodes, q    *)
(* the commands that are not answered yet or whose answers are not read.    *)
TurnFits(nd, lc, q) ==
  /\ nd.turn # "turning" => \A n \in Turning : ~nd.latch[n].sent /\ ~nd.latch[n].done
  /\ nd.turn \in {"none", "wanted"} => lc.back = real.back /\ \A c \in q : ~IsTurn(c)
  /\ nd.turn \in {"turning", "done"} =>
       /\ \A c \in q : IsTurn(c) => c.value = nd.back
       /\ lc.back = nd.back \/ nd.latch["turn"].done \/ nd.turn = "done" => real.back = nd.back
TurnSeen ==
  nodes.turn \in {"turning", "done"} /\ (\E c \in ToSet(answers) : IsTurn(c)) => real.back = nodes.back

(* The speed of NavigateTree, while no command of PathReservationNode has   *)
(* met another.  In each phase: which commands can be under way, in which   *)
(* order, and what the train's state then says.                             *)
StopsLast(q) == \A i, j \in DOMAIN q : i < j /\ IsStop(q[i]) => ~IsGo(q[j])
GoesLast(q)  == \A i, j \in DOMAIN q : i < j /\ IsGo(q[i]) => ~IsStop(q[j])
NoStop(q)    == \A i \in DOMAIN q : ~IsStop(q[i])
NoGo(q)      == \A i \in DOMAIN q : ~IsGo(q[i])

Crawls(nd, lc, q) ==    \* before the crawl is confirmed
  /\ nd.turn \in {"none", "wanted"} /\ ~nd.stopped
  /\ ~HasOnce(q) /\ NoStop(q)
Runs(nd, lc, q) ==      \* PathReservationNode lets it run, or has stopped it
  \/ ~nd.stopped /\ lc.speed > 0 /\ ~HasOnce(q) /\ NoStop(q)
  \/ ~nd.stopped /\ Len(q) = 1 /\ q[1].once /\ IsGo(q[1])
  \/ nd.stopped /\ (q = <<>> \/ q[Len(q)].once)
Turns(nd, lc, q) ==     \* ReverseTree stops it, turns it and lets it go
  /\ nd.again > 0 /\ ~nd.stopped /\ ~nd.latch["turn_go"].done /\ ~HasOnce(q)
  /\ ~nd.latch["turn_stop"].sent => lc.speed > 0 /\ NoStop(q)
  /\ nd.latch["turn_stop"].sent /\ lc.rolls => StopsLast(q) /\ (lc.speed = 0 => NoGo(q))
  /\ nd.latch["turn_stop"].sent /\ ~lc.rolls => GoesLast(q) /\ (lc.speed > 0 => NoStop(q))
Stops(nd, lc, q) ==     \* StopAtDonePath has stopped it
  /\ nd.turn \in {"none", "done"} /\ ~nd.stopped /\ nd.stopping
  /\ nd.latch["max"].done /\ ~HasOnce(q)
  /\ StopsLast(q) /\ (lc.speed = 0 => NoGo(q))
  /\ nd.latch["done"].done => lc.speed = 0

SpeedFits(nd, lc, q) ==
  /\ nd.go > 0
  /\ ~nd.latch["crawl"].done => Crawls(nd, lc, q) /\ ~nd.latch["done"].sent /\ ~nd.latch["done"].done
  /\ nd.latch["crawl"].done /\ ~nd.latch["done"].sent =>
       IF nd.turn = "turning" THEN Turns(nd, lc, q) ELSE Runs(nd, lc, q)
  /\ nd.latch["crawl"].done /\ nd.latch["done"].sent => Stops(nd, lc, q)
  /\ nd.latch["done"].done => nd.latch["done"].sent
StopSeen ==
  nodes.latch["done"].sent /\ (loco.speed = 0 \/ \E c \in ToSet(answers) : IsStop(c)) => real.speed = 0

TreeIInv ==
  /\ TreeTypeOK
  /\ TurnFits(nodes, loco, ToSet(answers \o wire)) /\ TurnSeen
  /\ tree = "navigate" /\ ~mixed => SpeedFits(nodes, loco, answers \o wire) /\ StopSeen
  /\ tree = "navigate" /\ result = "Success" => nodes.latch["done"].done
-----------------------------------------------------------------------------
(* The inductive invariant of CalibrateTree.  While the speed changes from  *)
(* v to w, the commands under way (q) set v first and then w, and once w is *)
(* seen, in an answer (in a) or in the train's state, the train has it.     *)
Sets(c, v) == c.what = "speed" /\ c.value = v
Changes(v, w, lc, q, a, speed) ==
  /\ \A i \in DOMAIN q : q[i].what = "speed" => q[i].value \in {v, w}
  /\ lc.speed \in {v, w} /\ speed \in {v, w}
  /\ v # w => /\ \A i, j \in DOMAIN q : i < j /\ Sets(q[i], w) => ~Sets(q[j], v)
              /\ lc.speed = w => \A i \in DOMAIN q : ~Sets(q[i], v)
  /\ lc.speed = w \/ (\E c \in a : Sets(c, w)) => speed = w
Keeps(v, lc, q, a, speed) == Changes(v, v, lc, q, a, speed)

\* Each node is done before the next begins.
InOrder(nd) ==
  /\ ~nd.stopped
  /\ \A n \in {"test", "slow", "test_2", "stop"} : nd.latch[n].done => nd.latch[n].sent
  /\ ~nd.latch["crawl"].done => nd.turn \in {"none", "wanted"} /\ ~nd.latch["test"].sent
  /\ nd.turn = "turning" =>
       nd.again = CRAWL /\ ~nd.latch["turn_go"].done /\ ~nd.latch["test"].sent
  /\ nd.latch["test"].sent => nd.turn \in {"none", "done"}
  /\ ~nd.latch["test"].done => nd.times["loop_speed"] = TOP_SPEED_LOOPS + 1
  /\ nd.latch["slow"].sent => nd.latch["test"].done /\ nd.times["loop_speed"] = 0
  /\ ~nd.latch["slow"].done => nd.times["loop_decel"] = DECEL_LOOPS
  /\ nd.latch["test_2"].sent => nd.latch["slow"].done /\ nd.times["loop_decel"] = 0
  /\ ~nd.latch["test_2"].done => nd.times["loop_accel"] = ACCEL_LOOPS
  /\ nd.latch["stop"].sent => nd.latch["test_2"].done /\ nd.times["loop_accel"] = 0
  /\ nd.times["loop_decel"] <= DECEL_LOOPS /\ nd.times["loop_accel"] <= ACCEL_LOOPS

\* The change of speed that each node waits for.
StopSent(nd) == nd.turn = "turning" /\ nd.latch["turn_stop"].sent
Drives(nd, lc, q, a, speed) ==
  /\ ~nd.latch["crawl"].done => Changes(0, CRAWL, lc, q, a, speed)
  /\ nd.latch["crawl"].done /\ ~nd.latch["test"].sent =>
       IF StopSent(nd) THEN IF lc.rolls THEN Changes(CRAWL, 0, lc, q, a, speed)
                                        ELSE Changes(0, CRAWL, lc, q, a, speed)
       ELSE Keeps(CRAWL, lc, q, a, speed)
  /\ nd.latch["test"].sent /\ ~nd.latch["test"].done => Changes(CRAWL, TEST, lc, q, a, speed)
  /\ nd.latch["test"].done /\ ~nd.latch["slow"].sent => Keeps(TEST, lc, q, a, speed)
  /\ nd.latch["slow"].sent /\ ~nd.latch["slow"].done => Changes(TEST, CRAWL, lc, q, a, speed)
  /\ nd.latch["slow"].done /\ ~nd.latch["test_2"].sent => Keeps(CRAWL, lc, q, a, speed)
  /\ nd.latch["test_2"].sent /\ ~nd.latch["test_2"].done => Changes(CRAWL, TEST, lc, q, a, speed)
  /\ nd.latch["test_2"].done /\ ~nd.latch["stop"].sent => Keeps(TEST, lc, q, a, speed)

\* What is known of the speeds lp of the current loop, and of the loops that
\* were counted after the first: they are the last of the laps.
Lap(i) ==
  CASE i \in {TOP_SPEED_LOOPS + 1, TOP_SPEED_LOOPS + DECEL_LOOPS + 1} -> {TEST, CRAWL}
    [] i \in TOP_SPEED_LOOPS + 2 .. TOP_SPEED_LOOPS + DECEL_LOOPS -> {CRAWL}
    [] OTHER -> {TEST}
LapseFits(nd, lp) ==
  /\ ~nd.latch["slow"].sent => lp = {TEST}
  /\ nd.latch["slow"].sent /\ ~nd.latch["slow"].done => TEST \in lp /\ lp \subseteq {TEST, CRAWL}
  /\ nd.latch["slow"].done /\ ~nd.latch["test_2"].sent =>
       lp = IF nd.times["loop_decel"] = DECEL_LOOPS THEN {TEST, CRAWL} ELSE {CRAWL}
  /\ nd.latch["test_2"].sent /\ ~nd.latch["test_2"].done => CRAWL \in lp /\ lp \subseteq {TEST, CRAWL}
  /\ nd.latch["test_2"].done /\ ~nd.latch["stop"].sent =>
       lp = IF nd.times["loop_accel"] = ACCEL_LOOPS THEN {TEST, CRAWL} ELSE {TEST}
Counted(times) == TOTAL_LOOPS - (times["loop_speed"] + times["loop_decel"] + times["loop_accel"])
LapsFit(times, h) ==
  /\ Counted(times) <= Len(h)
  /\ \A i \in 1 .. Counted(times) : h[Len(h) - Counted(times) + i] = Lap(i)

CalibrationIInv ==
  tree = "calibrate" =>
    /\ InOrder(nodes) /\ Drives(nodes, loco, answers \o wire, ToSet(answers), real.speed)
    /\ laps \in Seq(SUBSET Nat) /\ Len(laps) <= TOTAL_LOOPS
    /\ lapse \in SUBSET Nat /\ real.speed \in lapse
    /\ ~missed /\ nodes.times["loop_speed"] <= TOP_SPEED_LOOPS =>
         LapsFit(nodes.times, laps) /\ LapseFits(nodes, lapse)
    /\ result = "Success" => nodes.latch["stop"].sent
=============================================================================
