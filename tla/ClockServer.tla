---------------------------- MODULE ClockServer ----------------------------
(***************************************************************************)
(* The clock server, its notifier clock_tick_task and its clients.  A      *)
(* handler of the server is one step: it is a single task and the clients  *)
(* it replies to can at most queue a message meanwhile.  Ticks are W bits  *)
(* wide, 32 in the code.                                                   *)
(*                                                                         *)
(* "owed" is history, kept outside the program's arithmetic: how many more *)
(* ticks a client is owed, whether it has seen one since it asked, and     *)
(* whether the tick that ends its delay fits the counter.                  *)
(***************************************************************************)
EXTENDS Integers, Sequences, FiniteSets, Functions

CONSTANTS
  Clients,      \* their tids: numbers, which order deadlines that are equal
  Notifier,
  W,
  MAX_WAITING   \* capacity of waiting_heap

Word == 2 ^ W
Tick == 0..(Word - 1)
Msg == [op : {"time", "delay", "until"}, ticks : Tick]

ASSUME ClockAssumption ==
  /\ W \in Nat /\ Word \in Nat \ {0}
  /\ Clients \subseteq Nat /\ Notifier \in Nat \ Clients
  /\ MAX_WAITING \in Nat

VARIABLES
  curr_tick, waiting_heap,  \* ClockServer
  inbox,                    \* its sender queue
  notifier,                 \* awaiting the event, ready, sent, or replied
  status,                   \* of each client: ready, queued, or waiting (received)
  msg,                      \* the last message of each client
  owed
vars == <<curr_tick, waiting_heap, inbox, notifier, status, msg, owed>>

Nothing == [left |-> 0, fresh |-> FALSE, exact |-> TRUE]

Init ==
  /\ curr_tick = 0 /\ waiting_heap = {}
  /\ inbox = <<>>
  /\ notifier = "replied"
  /\ status = [t \in Clients |-> "ready"]
  /\ msg \in [Clients -> {[op |-> "time", ticks |-> 0]}]
  /\ owed = [t \in Clients |-> Nothing]

(* Time, Delay and DelayUntil.  Any uint32_t is a legal argument. *)
Call(t) ==
  /\ status[t] = "ready"
  /\ \E m \in Msg : (m.op = "time" => m.ticks = 0) /\ msg' = [msg EXCEPT ![t] = m]
  /\ status' = [status EXCEPT ![t] = "queued"]
  /\ inbox' = Append(inbox, t)
  /\ UNCHANGED <<curr_tick, waiting_heap, notifier, owed>>

(* The timer's interrupt raises CLOCK_TICK: handle_event wakes the notifier *)
(* if it waits; otherwise the tick is lost.                                 *)
ClockTick ==
  /\ notifier = "awaiting"
  /\ notifier' = "ready"
  /\ UNCHANGED <<curr_tick, waiting_heap, inbox, status, msg, owed>>

(* clock_tick_task: after each event, send a TickMsg and wait for its reply.*)
AwaitTick ==
  /\ notifier = "replied"
  /\ notifier' = "awaiting"
  /\ UNCHANGED <<curr_tick, waiting_heap, inbox, status, msg, owed>>

SendTick ==
  /\ notifier = "ready"
  /\ notifier' = "sent"
  /\ inbox' = Append(inbox, Notifier)
  /\ UNCHANGED <<curr_tick, waiting_heap, status, msg, owed>>

Received(t) == inbox # <<>> /\ Head(inbox) = t /\ inbox' = Tail(inbox)

(* Answered at once, as is a message of any other type. *)
HandleTime(t) ==
  /\ Received(t) /\ msg[t].op = "time"
  /\ status' = [status EXCEPT ![t] = "ready"]
  /\ UNCHANGED <<curr_tick, waiting_heap, notifier, msg, owed>>

(* Heap::push: nothing happens when it is full. *)
Room == Cardinality(waiting_heap) < MAX_WAITING
Hold(t, wake) ==
  /\ waiting_heap' = IF Room THEN waiting_heap \cup {<<wake, t>>} ELSE waiting_heap
  /\ status' = [status EXCEPT ![t] = "waiting"]

(* ticks is unsigned, so the test for a negative delay is never true.       *)
DelayWakeShort(t) == (msg[t].ticks + curr_tick + Word - 1) % Word  \* mutant: off by one
DelayWake(t) == (msg[t].ticks + curr_tick) % Word
HandleDelay(t) ==
  /\ Received(t) /\ msg[t].op = "delay"
  /\ Hold(t, DelayWake(t))
  /\ owed' = [owed EXCEPT ![t] =
                [left |-> msg[t].ticks, fresh |-> TRUE,
                 exact |-> (IF msg[t].ticks = 0 THEN 1 ELSE msg[t].ticks) + curr_tick < Word]]
  /\ UNCHANGED <<curr_tick, notifier, msg>>

Passed(t) == msg[t].ticks <= curr_tick
HandleDelayUntil(t) ==
  /\ Received(t) /\ msg[t].op = "until"
  /\ \/ /\ Passed(t)
        /\ status' = [status EXCEPT ![t] = "ready"]
        /\ UNCHANGED <<waiting_heap, owed>>
     \/ /\ ~Passed(t)
        /\ Hold(t, msg[t].ticks)
        /\ owed' = [owed EXCEPT ![t] = [left |-> msg[t].ticks - curr_tick,
                                        fresh |-> TRUE, exact |-> TRUE]]
  /\ UNCHANGED <<curr_tick, notifier, msg>>

(* The heap is popped while its least wake time is not in the future.       *)
DueStrict(now) == {w \in waiting_heap : w[1] < now}  \* mutant: >= for >
DueFirstOnly(now) ==  \* mutant: "if" for "while"
  {w \in waiting_heap : /\ w[1] <= now
                        /\ \A v \in waiting_heap : w[1] < v[1] \/ (w[1] = v[1] /\ w[2] <= v[2])}
Due(now) == {w \in waiting_heap : w[1] <= now}
HandleTick ==
  /\ Received(Notifier)
  /\ curr_tick' = (curr_tick + 1) % Word
  /\ notifier' = "replied"
  /\ waiting_heap' = waiting_heap \ Due(curr_tick')
  /\ status' = [t \in Clients |->
                  IF \E w \in Due(curr_tick') : w[2] = t THEN "ready" ELSE status[t]]
  /\ owed' = [t \in Clients |->
                IF status[t] # "waiting" THEN Nothing
                ELSE [owed[t] EXCEPT !.left = IF @ = 0 THEN 0 ELSE @ - 1, !.fresh = FALSE]]
  /\ UNCHANGED msg

Serve == HandleTick \/ \E t \in Clients : HandleTime(t) \/ HandleDelay(t) \/ HandleDelayUntil(t)

Next == Serve \/ ClockTick \/ AwaitTick \/ SendTick \/ \E t \in Clients : Call(t)

Spec == Init /\ [][Next]_vars

(* The notifier and the server have the two highest priorities and always   *)
(* block again; the timer keeps firing.                                     *)
FairSpec == Spec /\ WF_vars(Serve) /\ WF_vars(ClockTick) /\ WF_vars(AwaitTick) /\ WF_vars(SendTick)
-----------------------------------------------------------------------------
(* Type invariant. *)
TypeOK ==
  /\ curr_tick \in Tick /\ waiting_heap \subseteq Tick \X Clients
  /\ inbox \in Seq(Clients \cup {Notifier})
  /\ notifier \in {"awaiting", "ready", "sent", "replied"}
  /\ status \in [Clients -> {"ready", "queued", "waiting"}]
  /\ msg \in [Clients -> Msg]
  /\ owed \in [Clients -> [left : Nat, fresh : BOOLEAN, exact : BOOLEAN]]

(* No client wakes early: when a held client goes on, the ticks it asked    *)
(* for have been counted, unless its deadline wrapped around.               *)
NoEarlyWake ==
  [][\A t \in Clients :
       status[t] = "waiting" /\ status'[t] = "ready" /\ owed[t].exact => owed'[t].left = 0]_vars

(* No client wakes late: it goes on at the tick its deadline falls on, or,  *)
(* for Delay(0), at the next.  (A Delay(0) at the last tick before the wrap *)
(* is the exception: it sleeps through a whole period of the counter.)      *)
NoLateWake ==
  \A t \in Clients :
    status[t] = "waiting" /\ owed[t].exact => owed[t].left > 0 \/ owed[t].fresh

(* The inductive invariant behind the two above: a client sleeps at most    *)
(* once, and its deadline, if it fits the counter, is the number of ticks   *)
(* that it is owed away.                                                    *)
QueueSound ==
  /\ IsInjective(inbox)
  /\ \A t \in Clients : status[t] = "queued" <=> t \in Range(inbox)
  /\ notifier = "sent" <=> Notifier \in Range(inbox)

SleepersWait ==
  /\ \A w \in waiting_heap : status[w[2]] = "waiting"
  /\ \A v, w \in waiting_heap : v[2] = w[2] => v = w

DeadlinesKept ==
  \A w \in waiting_heap : owed[w[2]].exact =>
    /\ w[1] = curr_tick + owed[w[2]].left
    /\ owed[w[2]].left > 0 \/ (owed[w[2]].fresh /\ curr_tick + 1 < Word)

IInv == TypeOK /\ QueueSound /\ SleepersWait /\ DeadlinesKept

(* The heap, which has a place for every task, refuses none.                *)
NoneRefused == \A t \in Clients : status[t] = "waiting" => \E w \in waiting_heap : w[2] = t

(* Every call returns, the clients that ask again and again notwithstanding.*)
CallsReturn == \A t \in Clients : (status[t] # "ready") ~> (status[t] = "ready")
=============================================================================
