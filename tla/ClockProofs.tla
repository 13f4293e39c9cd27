----------------------------- MODULE ClockProofs -----------------------------
(***************************************************************************)
(* Theorems about the clock server, its notifier and its clients, for any  *)
(* clients and width of the counter: no client wakes early, whatever the   *)
(* capacity of the heap, and none late, if the heap has a place for each.  *)
(* And about what drives it, the system timer and its tick, for any width  *)
(* of its counter and any period: ticks come, without drift, and the time  *)
(* that was slept is accounted exactly.                                    *)
(***************************************************************************)
EXTENDS ClockServer, SystemTimer, QueueLemmas, FiniteSetTheorems

Task == Clients \cup {Notifier}
Owed == [left : Nat, fresh : BOOLEAN, exact : BOOLEAN]

(* Arithmetic of the counter. *)
LEMMA WordArithmetic ==
  /\ Word \in Nat \ {0} /\ 0 \in Tick /\ Tick \subseteq Nat
  /\ \A n \in Nat : n % Word \in Tick
  /\ \A n \in Nat : n < Word => n % Word = n
<1> DEFINE m == Word
<1>1. m \in Nat \ {0}
  BY ClockAssumption
<1>2. Tick = 0..(m - 1)
  BY DEF Tick
<1> HIDE DEF m
<1>3. \A n \in Nat : n % m \in 0..(m - 1)
  BY <1>1
<1>4. \A n \in Nat : n < m => n % m = n
  BY <1>1
<1>5. 0 \in 0..(m - 1) /\ 0..(m - 1) \subseteq Nat
  BY <1>1
<1> QED BY <1>1, <1>2, <1>3, <1>4, <1>5 DEF m

(* The sender queue when a task joins it, and when its first is received.   *)
LEMMA Joined ==
  ASSUME TypeOK, QueueSound, NEW t \in Task, t \notin Range(inbox)
  PROVE  /\ Append(inbox, t) \in Seq(Task) /\ IsInjective(Append(inbox, t))
         /\ Range(Append(inbox, t)) = Range(inbox) \cup {t}
<1>1. inbox \in Seq(Task) /\ IsInjective(inbox)
  BY DEF TypeOK, QueueSound, Task
<1>2. Append(inbox, t) \in Seq(Task)
  BY <1>1, AppendProperties
<1> QED BY <1>1, <1>2, QueueAppend

LEMMA Taken ==
  ASSUME TypeOK, QueueSound, NEW t \in Task, Received(t)
  PROVE  /\ inbox' \in Seq(Task) /\ IsInjective(inbox') /\ t \in Range(inbox)
         /\ Range(inbox') = Range(inbox) \ {t}
<1>1. inbox \in Seq(Task) /\ IsInjective(inbox)
  BY DEF TypeOK, QueueSound, Task
<1>2. inbox # <<>> /\ Head(inbox) = t /\ inbox' = Tail(inbox)
  BY DEF Received
<1>3. Tail(inbox) \in Seq(Task)
  BY <1>1, <1>2, HeadTailProperties
<1> QED BY <1>1, <1>2, <1>3, QueueTail

LEMMA InitIInv == Init => IInv /\ NoneRefused
<1> SUFFICES ASSUME Init PROVE IInv /\ NoneRefused
  OBVIOUS
<1> USE DEF Init
<1>1. msg \in [Clients -> Msg]
  BY WordArithmetic DEF Msg
<1>2. owed \in [Clients -> [left : Nat, fresh : BOOLEAN, exact : BOOLEAN]]
  BY DEF Nothing
<1>3. inbox \in Seq(Clients \cup {Notifier}) /\ status \in [Clients -> {"ready", "queued", "waiting"}]
  OBVIOUS
<1>4. TypeOK
  BY <1>1, <1>2, <1>3, WordArithmetic DEF TypeOK
<1>5. QueueSound /\ SleepersWait /\ DeadlinesKept /\ NoneRefused
  BY QueueEmpty DEF QueueSound, SleepersWait, DeadlinesKept, NoneRefused
<1> QED BY <1>4, <1>5 DEF IInv

LEMMA CallInv == ASSUME IInv, NEW t \in Clients, Call(t) PROVE IInv' /\ (NoneRefused => NoneRefused')
<1>1. TypeOK /\ QueueSound /\ SleepersWait /\ DeadlinesKept
  BY DEF IInv
<1>2. /\ status[t] = "ready" /\ status' = [status EXCEPT ![t] = "queued"]
      /\ inbox' = Append(inbox, t)
      /\ UNCHANGED <<curr_tick, waiting_heap, notifier, owed>>
  BY DEF Call
<1>3. t \notin Range(inbox) /\ t \in Task /\ t # Notifier
  BY <1>1, <1>2, ClockAssumption DEF QueueSound, Task
<1>4. inbox' \in Seq(Task) /\ IsInjective(inbox') /\ Range(inbox') = Range(inbox) \cup {t}
  BY <1>1, <1>2, <1>3, Joined
<1>5. /\ status' \in [Clients -> {"ready", "queued", "waiting"}]
      /\ \A u \in Clients : status'[u] = IF u = t THEN "queued" ELSE status[u]
  BY <1>1, <1>2 DEF TypeOK
<1>6. msg' \in [Clients -> Msg]
  BY <1>1 DEF Call, TypeOK
<1>7. TypeOK'
  BY <1>1, <1>2, <1>4, <1>5, <1>6 DEF TypeOK, Task
<1>8. QueueSound'
  BY <1>1, <1>2, <1>3, <1>4, <1>5 DEF QueueSound
<1>9. SleepersWait'
  <2>1. \A w \in waiting_heap : w[2] \in Clients /\ w[2] # t
    BY <1>1, <1>2 DEF TypeOK, SleepersWait
  <2> QED BY <1>1, <1>2, <1>5, <2>1 DEF SleepersWait
<1>10. DeadlinesKept' /\ (NoneRefused => NoneRefused')
  BY <1>1, <1>2, <1>5 DEF DeadlinesKept, NoneRefused
<1> QED BY <1>7, <1>8, <1>9, <1>10 DEF IInv

LEMMA NotifierInv ==
  ASSUME IInv, ClockTick \/ AwaitTick \/ SendTick
  PROVE  IInv' /\ (NoneRefused => NoneRefused')
<1>1. TypeOK /\ QueueSound /\ SleepersWait /\ DeadlinesKept
  BY DEF IInv
<1>2. UNCHANGED <<curr_tick, waiting_heap, status, msg, owed>>
  BY DEF ClockTick, AwaitTick, SendTick
<1>3. SleepersWait' /\ DeadlinesKept' /\ (NoneRefused => NoneRefused')
  BY <1>1, <1>2 DEF SleepersWait, DeadlinesKept, NoneRefused
<1>4. CASE ClockTick \/ AwaitTick
  BY <1>1, <1>2, <1>3, <1>4 DEF ClockTick, AwaitTick, IInv, TypeOK, QueueSound
<1>5. CASE SendTick
  <2>1. inbox' = Append(inbox, Notifier) /\ notifier' = "sent" /\ Notifier \notin Range(inbox)
        /\ Notifier \in Task /\ Notifier \notin Clients
    BY <1>1, <1>5, ClockAssumption DEF SendTick, QueueSound, Task
  <2>2. /\ inbox' \in Seq(Task) /\ IsInjective(inbox')
        /\ Range(inbox') = Range(inbox) \cup {Notifier}
    BY <1>1, <2>1, Joined
  <2>3. TypeOK'
    BY <1>1, <1>2, <2>1, <2>2 DEF TypeOK, Task
  <2>4. QueueSound'
    BY <1>1, <1>2, <2>1, <2>2 DEF QueueSound
  <2> QED BY <1>3, <2>3, <2>4 DEF IInv
<1> QED BY <1>4, <1>5

(* The server answers a client at once. *)
LEMMA AnswerInv ==
  ASSUME IInv, NEW t \in Clients, Received(t),
         status' = [status EXCEPT ![t] = "ready"],
         UNCHANGED <<curr_tick, waiting_heap, notifier, msg, owed>>
  PROVE  IInv' /\ (NoneRefused => NoneRefused')
<1>1. TypeOK /\ QueueSound /\ SleepersWait /\ DeadlinesKept
  BY DEF IInv
<1>2. t \in Task /\ t # Notifier
  BY ClockAssumption DEF Task
<1>3. /\ inbox' \in Seq(Task) /\ IsInjective(inbox') /\ t \in Range(inbox)
      /\ Range(inbox') = Range(inbox) \ {t}
  BY <1>1, <1>2, Taken
<1>4. status[t] = "queued"
  BY <1>1, <1>3 DEF QueueSound
<1>5. /\ status' \in [Clients -> {"ready", "queued", "waiting"}]
      /\ \A u \in Clients : status'[u] = IF u = t THEN "ready" ELSE status[u]
  BY <1>1 DEF TypeOK
<1>6. TypeOK'
  BY <1>1, <1>3, <1>5 DEF TypeOK, Task
<1>7. QueueSound'
  BY <1>1, <1>2, <1>3, <1>5 DEF QueueSound
<1>8. SleepersWait'
  <2>1. \A w \in waiting_heap : w[2] \in Clients /\ w[2] # t
    BY <1>1, <1>4 DEF TypeOK, SleepersWait
  <2> QED BY <1>1, <1>5, <2>1 DEF SleepersWait
<1>9. DeadlinesKept' /\ (NoneRefused => NoneRefused')
  BY <1>1, <1>5 DEF DeadlinesKept, NoneRefused
<1> QED BY <1>6, <1>7, <1>8, <1>9 DEF IInv
-----------------------------------------------------------------------------
(* The heap has a place for every task. *)
EnoughRoom == IsFiniteSet(Clients) /\ Cardinality(Clients) <= MAX_WAITING

LEMMA RoomForAll ==
  ASSUME EnoughRoom, TypeOK, SleepersWait, NEW t \in Clients, status[t] # "waiting"
  PROVE  Room
<1> DEFINE rest == Clients \ {t}
           f == [w \in waiting_heap |-> w[2]]
<1>1. IsFiniteSet(rest) /\ Cardinality(rest) = Cardinality(Clients) - 1
      /\ Cardinality(Clients) \in Nat
  BY FS_RemoveElement, FS_CardinalityType DEF EnoughRoom
<1>2. \A w \in waiting_heap : w[2] \in rest
  BY DEF TypeOK, SleepersWait
<1> HIDE DEF rest
<1>3. f \in Injection(waiting_heap, rest)
  <2>1. f \in [waiting_heap -> rest] /\ \A w \in waiting_heap : f[w] = w[2]
    BY <1>2
  <2>2. \A v, w \in waiting_heap : f[v] = f[w] => v = w
    BY <2>1 DEF SleepersWait
  <2> HIDE DEF f
  <2> QED BY <2>1, <2>2 DEF Injection, IsInjective
<1>4. Cardinality(waiting_heap) <= Cardinality(rest) /\ IsFiniteSet(waiting_heap)
  BY <1>1, <1>3, FS_Injection
<1>5. Cardinality(waiting_heap) \in Nat
  BY <1>4, FS_CardinalityType
<1> QED BY <1>1, <1>4, <1>5, ClockAssumption DEF EnoughRoom, Room

(* A client is put to sleep, or forgotten by a full heap.                   *)
LEMMA Held ==
  ASSUME TypeOK, SleepersWait, NEW t \in Clients, status[t] = "queued",
         NEW wake \in Tick, Hold(t, wake)
  PROVE  /\ waiting_heap' \subseteq Tick \X Clients
         /\ \A w \in waiting_heap' : (w \in waiting_heap /\ w[2] # t) \/ w = <<wake, t>>
         /\ status' \in [Clients -> {"ready", "queued", "waiting"}]
         /\ \A u \in Clients : status'[u] = IF u = t THEN "waiting" ELSE status[u]
         /\ SleepersWait'
<1>1. /\ waiting_heap' \subseteq waiting_heap \cup {<<wake, t>>}
      /\ status' = [status EXCEPT ![t] = "waiting"]
  BY DEF Hold
<1>2. \A w \in waiting_heap : w \in Tick \X Clients /\ w[2] \in Clients /\ w[2] # t
  BY DEF TypeOK, SleepersWait
<1>3. <<wake, t>> \in Tick \X Clients /\ <<wake, t>>[2] = t
  OBVIOUS
<1>4. /\ status' \in [Clients -> {"ready", "queued", "waiting"}]
      /\ \A u \in Clients : status'[u] = IF u = t THEN "waiting" ELSE status[u]
  BY <1>1 DEF TypeOK
<1>5. \A w \in waiting_heap' : (w \in waiting_heap /\ w[2] # t) \/ w = <<wake, t>>
  BY <1>1, <1>2
<1>6. waiting_heap' \subseteq Tick \X Clients
  BY <1>1, <1>2, <1>3
<1>7. SleepersWait'
  <2>1. \A w \in waiting_heap' : status'[w[2]] = "waiting"
    BY <1>2, <1>3, <1>4, <1>5 DEF SleepersWait
  <2>2. \A v, w \in waiting_heap' : v[2] = w[2] => v = w
    BY <1>3, <1>5 DEF SleepersWait
  <2> QED BY <2>1, <2>2 DEF SleepersWait
<1> QED BY <1>4, <1>5, <1>6, <1>7

(* What is left of both handlers that put a client to sleep.                *)
LEMMA HoldInv ==
  ASSUME IInv, NEW t \in Clients, Received(t), NEW wake \in Tick, Hold(t, wake),
         NEW o \in Owed, owed' = [owed EXCEPT ![t] = o],
         o.exact => wake = curr_tick + o.left /\ (o.left > 0 \/ (o.fresh /\ curr_tick + 1 < Word)),
         UNCHANGED <<curr_tick, notifier, msg>>
  PROVE  IInv' /\ (EnoughRoom /\ NoneRefused => NoneRefused')
<1>1. TypeOK /\ QueueSound /\ SleepersWait /\ DeadlinesKept
  BY DEF IInv
<1>2. t \in Task /\ t # Notifier
  BY ClockAssumption DEF Task
<1>3. /\ inbox' \in Seq(Task) /\ IsInjective(inbox') /\ t \in Range(inbox)
      /\ Range(inbox') = Range(inbox) \ {t}
  BY <1>1, <1>2, Taken
<1>4. status[t] = "queued"
  BY <1>1, <1>3 DEF QueueSound
<1>5. /\ waiting_heap' \subseteq Tick \X Clients
      /\ \A w \in waiting_heap' : (w \in waiting_heap /\ w[2] # t) \/ w = <<wake, t>>
      /\ status' \in [Clients -> {"ready", "queued", "waiting"}]
      /\ \A u \in Clients : status'[u] = IF u = t THEN "waiting" ELSE status[u]
      /\ SleepersWait'
  BY <1>1, <1>4, Held
<1>6. /\ owed' \in [Clients -> [left : Nat, fresh : BOOLEAN, exact : BOOLEAN]]
      /\ \A u \in Clients : owed'[u] = IF u = t THEN o ELSE owed[u]
  BY <1>1 DEF TypeOK, Owed
<1>7. TypeOK'
  BY <1>1, <1>3, <1>5, <1>6 DEF TypeOK, Task
<1>8. QueueSound'
  BY <1>1, <1>2, <1>3, <1>5 DEF QueueSound
<1>9. DeadlinesKept'
  <2> SUFFICES ASSUME NEW w \in waiting_heap', owed'[w[2]].exact
               PROVE  /\ w[1] = curr_tick + owed'[w[2]].left
                      /\ owed'[w[2]].left > 0 \/ (owed'[w[2]].fresh /\ curr_tick + 1 < Word)
    BY DEF DeadlinesKept
  <2>1. CASE w \in waiting_heap /\ w[2] # t
    <3>1. owed'[w[2]] = owed[w[2]]
      BY <1>1, <1>6, <2>1 DEF TypeOK
    <3> QED BY <1>1, <2>1, <3>1 DEF DeadlinesKept
  <2>2. CASE w = <<wake, t>>
    <3>1. w[1] = wake /\ owed'[w[2]] = o
      BY <1>6, <2>2
    <3> QED BY <3>1
  <2> QED BY <1>5, <2>1, <2>2
<1>10. ASSUME EnoughRoom, NoneRefused PROVE NoneRefused'
  <2>1. waiting_heap' = waiting_heap \cup {<<wake, t>>}
    BY <1>1, <1>4, <1>10, RoomForAll DEF Hold
  <2>2. <<wake, t>>[2] = t
    OBVIOUS
  <2> QED BY <1>5, <1>10, <2>1, <2>2 DEF NoneRefused
<1> QED BY <1>5, <1>7, <1>8, <1>9, <1>10 DEF IInv

LEMMA HandleDelayInv ==
  ASSUME IInv, NEW t \in Clients, HandleDelay(t)
  PROVE  IInv' /\ (EnoughRoom /\ NoneRefused => NoneRefused')
<1> DEFINE n == msg[t].ticks
           ends == (IF n = 0 THEN 1 ELSE n) + curr_tick < Word
           o == [left |-> n, fresh |-> TRUE, exact |-> ends]
           wake == DelayWake(t)
<1>1. n \in Nat /\ curr_tick \in Nat /\ Word \in Nat
  BY WordArithmetic DEF IInv, TypeOK, Msg
<1>2. wake = (n + curr_tick) % Word
  BY DEF DelayWake
<1>3. /\ Received(t) /\ Hold(t, wake) /\ owed' = [owed EXCEPT ![t] = o]
      /\ UNCHANGED <<curr_tick, notifier, msg>>
  BY DEF HandleDelay
<1> HIDE DEF n, wake
<1>4. wake \in Tick /\ (n + curr_tick < Word => wake = n + curr_tick)
  BY <1>1, <1>2, WordArithmetic
<1>5. o \in Owed
  BY <1>1 DEF Owed
<1>6. o.exact => wake = curr_tick + o.left /\ (o.left > 0 \/ (o.fresh /\ curr_tick + 1 < Word))
  <2>1. o.left = n /\ o.fresh = TRUE /\ o.exact = ends
    OBVIOUS
  <2>2. ends => n + curr_tick < Word /\ (n > 0 \/ curr_tick + 1 < Word)
    <3> DEFINE size == Word
    <3>1. size \in Nat
      BY <1>1
    <3> HIDE DEF size
    <3>2. (IF n = 0 THEN 1 ELSE n) + curr_tick < size
            => n + curr_tick < size /\ (n > 0 \/ curr_tick + 1 < size)
      BY <1>1, <3>1
    <3> QED BY <3>2 DEF size
  <2> HIDE DEF o, ends
  <2> QED BY <1>1, <1>4, <2>1, <2>2
<1> HIDE DEF o
<1> QED BY <1>3, <1>4, <1>5, <1>6, HoldInv

LEMMA HandleDelayUntilInv ==
  ASSUME IInv, NEW t \in Clients, HandleDelayUntil(t)
  PROVE  IInv' /\ (EnoughRoom /\ NoneRefused => NoneRefused')
<1>1. CASE Passed(t)
  <2>1. /\ Received(t) /\ status' = [status EXCEPT ![t] = "ready"]
        /\ UNCHANGED <<curr_tick, waiting_heap, notifier, msg, owed>>
    BY <1>1 DEF HandleDelayUntil
  <2> QED BY <2>1, AnswerInv
<1>2. CASE ~Passed(t)
  <2> DEFINE wake == msg[t].ticks
             o == [left |-> wake - curr_tick, fresh |-> TRUE, exact |-> TRUE]
  <2>1. wake \in Tick /\ wake \in Nat /\ curr_tick \in Nat /\ wake > curr_tick
    <3>1. msg[t] \in Msg /\ curr_tick \in Tick
      BY DEF IInv, TypeOK
    <3>2. msg[t].ticks \in Tick
      BY <3>1 DEF Msg
    <3>3. ~(msg[t].ticks <= curr_tick)
      BY <1>2 DEF Passed
    <3>4. msg[t].ticks \in Nat /\ curr_tick \in Nat
      BY <3>1, <3>2, WordArithmetic
    <3>5. msg[t].ticks > curr_tick
      BY <3>3, <3>4
    <3> QED BY <3>2, <3>4, <3>5
  <2>2. /\ Received(t) /\ Hold(t, wake) /\ owed' = [owed EXCEPT ![t] = o]
        /\ UNCHANGED <<curr_tick, notifier, msg>>
    BY <1>2 DEF HandleDelayUntil
  <2> HIDE DEF wake
  <2>3. o \in Owed /\ wake = curr_tick + o.left /\ o.left > 0
    BY <2>1 DEF Owed
  <2> HIDE DEF o
  <2> QED BY <2>1, <2>2, <2>3, HoldInv
<1> QED BY <1>1, <1>2
-----------------------------------------------------------------------------
(* What a tick does to a client that sleeps.                                *)
LEMMA TickCounts ==
  ASSUME IInv, HandleTick, NEW w \in waiting_heap
  PROVE  /\ w[1] \in Tick /\ w[2] \in Clients /\ status[w[2]] = "waiting"
         /\ owed'[w[2]].left = IF owed[w[2]].left = 0 THEN 0 ELSE owed[w[2]].left - 1
         /\ owed'[w[2]].exact = owed[w[2]].exact
         /\ owed[w[2]].exact => curr_tick' = curr_tick + 1
<1>1. TypeOK /\ SleepersWait /\ DeadlinesKept
  BY DEF IInv
<1>2. w[1] \in Tick /\ w[2] \in Clients /\ status[w[2]] = "waiting"
  BY <1>1 DEF TypeOK, SleepersWait
<1> DEFINE t == w[2]
           n == owed[t].left
<1>3. owed[t] \in [left : Nat, fresh : BOOLEAN, exact : BOOLEAN]
  BY <1>1, <1>2 DEF TypeOK
<1>4. owed'[t] = [owed[t] EXCEPT !.left = IF @ = 0 THEN 0 ELSE @ - 1, !.fresh = FALSE]
  BY <1>2 DEF HandleTick
<1>5. owed'[t].left = IF n = 0 THEN 0 ELSE n - 1
  BY <1>3, <1>4
<1>6. owed'[t].exact = owed[t].exact
  BY <1>3, <1>4
<1>7. ASSUME owed[t].exact PROVE curr_tick' = curr_tick + 1
  <2>1. w[1] = curr_tick + n /\ (n > 0 \/ curr_tick + 1 < Word)
    BY <1>1, <1>7 DEF DeadlinesKept
  <2>2. w[1] \in Nat /\ w[1] < Word /\ curr_tick \in Nat /\ n \in Nat /\ Word \in Nat
    <3>1. w[1] \in 0..(Word - 1) /\ curr_tick \in Nat
      BY <1>1, <1>2, WordArithmetic DEF TypeOK, Tick
    <3>2. Word \in Nat
      BY WordArithmetic
    <3> HIDE DEF Word
    <3> QED BY <1>3, <3>1, <3>2
  <2> HIDE DEF n, t
  <2>3. curr_tick + 1 < Word
    BY <2>1, <2>2
  <2>4. (curr_tick + 1) % Word = curr_tick + 1
    BY <2>2, <2>3, WordArithmetic
  <2> QED BY <2>4 DEF HandleTick
<1> QED BY <1>2, <1>5, <1>6, <1>7

LEMMA HandleTickInv ==
  ASSUME IInv, HandleTick
  PROVE  IInv' /\ (NoneRefused => NoneRefused')
<1>1. TypeOK /\ QueueSound /\ SleepersWait /\ DeadlinesKept
  BY DEF IInv
<1>2. Received(Notifier) /\ Notifier \in Task /\ Notifier \notin Clients
  BY ClockAssumption DEF HandleTick, Task
<1>3. /\ inbox' \in Seq(Task) /\ IsInjective(inbox') /\ Notifier \in Range(inbox)
      /\ Range(inbox') = Range(inbox) \ {Notifier}
  BY <1>1, <1>2, Taken
<1>4. /\ curr_tick' = (curr_tick + 1) % Word /\ notifier' = "replied" /\ msg' = msg
      /\ waiting_heap' = {w \in waiting_heap : ~(w[1] <= curr_tick')}
  BY DEF HandleTick, Due
<1>5. /\ status' \in [Clients -> {"ready", "queued", "waiting"}]
      /\ \A t \in Clients :
           status'[t] = IF \E w \in waiting_heap : w[1] <= curr_tick' /\ w[2] = t
                          THEN "ready" ELSE status[t]
  BY <1>1 DEF HandleTick, Due, TypeOK
<1>6. curr_tick \in Nat /\ curr_tick' \in Tick /\ curr_tick' \in Nat
  <2>1. curr_tick \in Tick
    BY <1>1 DEF TypeOK
  <2>2. curr_tick \in Nat /\ curr_tick + 1 \in Nat
    BY <2>1, WordArithmetic
  <2> QED BY <1>4, <2>2, WordArithmetic
<1>7. owed' \in [Clients -> [left : Nat, fresh : BOOLEAN, exact : BOOLEAN]]
  <2> SUFFICES ASSUME NEW t \in Clients
               PROVE  (IF status[t] # "waiting" THEN Nothing
                       ELSE [owed[t] EXCEPT !.left = IF @ = 0 THEN 0 ELSE @ - 1, !.fresh = FALSE])
                      \in [left : Nat, fresh : BOOLEAN, exact : BOOLEAN]
    BY DEF HandleTick
  <2>1. owed[t] \in [left : Nat, fresh : BOOLEAN, exact : BOOLEAN]
    BY <1>1 DEF TypeOK
  <2>2. Nothing \in [left : Nat, fresh : BOOLEAN, exact : BOOLEAN]
    BY DEF Nothing
  <2>3. (IF owed[t].left = 0 THEN 0 ELSE owed[t].left - 1) \in Nat
    BY <2>1
  <2> QED BY <2>1, <2>2, <2>3
<1>8. TypeOK'
  BY <1>1, <1>3, <1>4, <1>5, <1>6, <1>7 DEF TypeOK, Task
<1>9. \A w \in waiting_heap : w[2] \in Clients /\ status[w[2]] = "waiting"
  BY <1>1 DEF TypeOK, SleepersWait
<1>10. QueueSound'
  <2>1. \A t \in Clients : status'[t] = "queued" <=> status[t] = "queued"
    BY <1>5, <1>9
  <2> QED BY <1>1, <1>2, <1>3, <1>4, <2>1 DEF QueueSound
<1>11. SleepersWait'
  <2>1. ASSUME NEW w \in waiting_heap' PROVE status'[w[2]] = "waiting"
    <3>1. \A v \in waiting_heap : v[2] = w[2] => v = w
      BY <1>1, <1>4 DEF SleepersWait
    <3> QED BY <1>4, <1>5, <1>9, <3>1
  <2> QED BY <1>1, <1>4, <2>1 DEF SleepersWait
<1>12. DeadlinesKept'
  <2> SUFFICES ASSUME NEW w \in waiting_heap', owed'[w[2]].exact
               PROVE  w[1] = curr_tick' + owed'[w[2]].left /\ owed'[w[2]].left > 0
    BY DEF DeadlinesKept
  <2> DEFINE n == owed[w[2]].left
             m == owed'[w[2]].left
  <2>1. w \in waiting_heap /\ ~(w[1] <= curr_tick')
    BY <1>4
  <2>2. owed[w[2]].exact /\ m = (IF n = 0 THEN 0 ELSE n - 1) /\ curr_tick' = curr_tick + 1
    BY <2>1, TickCounts
  <2>3. w[1] = curr_tick + n
    BY <1>1, <2>1, <2>2 DEF DeadlinesKept
  <2>4. n \in Nat
    BY <1>1, <1>9, <2>1 DEF TypeOK
  <2> HIDE DEF n, m
  <2>5. w[1] = curr_tick' + m /\ m > 0
    BY <1>6, <2>1, <2>2, <2>3, <2>4
  <2> QED BY <2>5 DEF m
<1>13. NoneRefused => NoneRefused'
  BY <1>4, <1>5 DEF NoneRefused
<1> QED BY <1>8, <1>10, <1>11, <1>12, <1>13 DEF IInv

LEMMA NextIInv ==
  ASSUME IInv, [Next]_vars
  PROVE  IInv' /\ (EnoughRoom /\ NoneRefused => NoneRefused')
<1>1. CASE HandleTick
  BY <1>1, HandleTickInv
<1>2. ASSUME NEW t \in Clients, HandleTime(t) PROVE IInv' /\ (NoneRefused => NoneRefused')
  BY <1>2, AnswerInv DEF HandleTime
<1>3. CASE \E t \in Clients : HandleDelay(t) \/ HandleDelayUntil(t)
  BY <1>3, HandleDelayInv, HandleDelayUntilInv
<1>4. CASE ClockTick \/ AwaitTick \/ SendTick
  BY <1>4, NotifierInv
<1>5. CASE \E t \in Clients : Call(t)
  BY <1>5, CallInv
<1>6. CASE UNCHANGED vars
  BY <1>6 DEF vars, IInv, TypeOK, QueueSound, SleepersWait, DeadlinesKept, NoneRefused
<1> QED BY <1>1, <1>2, <1>3, <1>4, <1>5, <1>6 DEF Next, Serve

(* A client goes on only when it is answered at once, or when a tick ends   *)
(* its sleep: then at most that tick was left of it.                        *)
LEMMA WakesInTime ==
  ASSUME IInv, [Next]_vars, NEW t \in Clients,
         status[t] = "waiting", status'[t] = "ready", owed[t].exact
  PROVE  owed'[t].left = 0
<1>1. TypeOK /\ QueueSound /\ DeadlinesKept
  BY DEF IInv
<1>2. HandleTick
  <2>1. ASSUME NEW u \in Clients, HandleTime(u) \/ HandleDelay(u) \/ HandleDelayUntil(u) PROVE FALSE
    <3>1. Received(u) /\ u \in Task
      BY <2>1 DEF HandleTime, HandleDelay, HandleDelayUntil, Task
    <3>2. status[u] = "queued"
      BY <1>1, <3>1, Taken DEF QueueSound
    <3>3. \E x : status' = [status EXCEPT ![u] = x]
      BY <2>1 DEF HandleTime, HandleDelay, HandleDelayUntil, Hold
    <3> QED BY <1>1, <3>2, <3>3 DEF TypeOK
  <2>2. ~(ClockTick \/ AwaitTick \/ SendTick \/ UNCHANGED vars)
    BY DEF ClockTick, AwaitTick, SendTick, vars
  <2>3. ASSUME NEW u \in Clients, Call(u) PROVE FALSE
    BY <1>1, <2>3 DEF Call, TypeOK
  <2> QED BY <2>1, <2>2, <2>3 DEF Next, Serve
<1>3. PICK w \in waiting_heap : w[2] = t /\ w[1] <= curr_tick'
  BY <1>1, <1>2 DEF HandleTick, Due, TypeOK
<1> DEFINE n == owed[t].left
           m == owed'[t].left
<1>4. m = (IF n = 0 THEN 0 ELSE n - 1) /\ curr_tick' = curr_tick + 1
  BY <1>2, <1>3, TickCounts
<1>5. w[1] = curr_tick + n
  BY <1>1, <1>3 DEF DeadlinesKept
<1>6. n \in Nat /\ curr_tick \in Nat
  BY <1>1, WordArithmetic DEF TypeOK
<1> HIDE DEF n, m
<1>7. m = 0
  BY <1>3, <1>4, <1>5, <1>6
<1> QED BY <1>7 DEF m
-----------------------------------------------------------------------------
(* The inductive invariant of the clock server and its clients.             *)
THEOREM ClockInvariant == Spec => []IInv
<1>1. Init => IInv
  BY InitIInv
<1>2. IInv /\ [Next]_vars => IInv'
  BY NextIInv
<1> QED BY <1>1, <1>2, PTL DEF Spec

(* No held client goes on before the ticks it asked for were counted,       *)
(* unless its deadline wrapped around.                                      *)
THEOREM ClockNoEarlyWake == Spec => NoEarlyWake
<1> DEFINE Awakes == \A t \in Clients :
             status[t] = "waiting" /\ status'[t] = "ready" /\ owed[t].exact => owed'[t].left = 0
<1>1. IInv /\ [Next]_vars => [Awakes]_vars
  BY WakesInTime
<1> QED BY <1>1, ClockInvariant, PTL DEF Spec, NoEarlyWake

(* No held client sleeps on past the tick its deadline falls on, if the     *)
(* heap has a place for every client.                                       *)
THEOREM ClockNoLateWake == EnoughRoom /\ Spec => []NoLateWake
<1>1. Init => NoneRefused
  BY InitIInv
<1>2. EnoughRoom /\ IInv /\ NoneRefused /\ [Next]_vars => NoneRefused'
  BY NextIInv
<1>3. IInv /\ NoneRefused => NoLateWake
  <2> SUFFICES ASSUME IInv, NoneRefused, NEW t \in Clients, status[t] = "waiting", owed[t].exact
               PROVE  owed[t].left > 0 \/ owed[t].fresh
    BY DEF NoLateWake
  <2>1. PICK w \in waiting_heap : w[2] = t
    BY DEF NoneRefused
  <2> QED BY <2>1 DEF IInv, DeadlinesKept
<1> SUFFICES ASSUME EnoughRoom PROVE Spec => []NoLateWake
  OBVIOUS
<1>4. IInv /\ NoneRefused /\ [Next]_vars => NoneRefused'
  BY <1>2
<1> QED BY <1>1, <1>3, <1>4, ClockInvariant, PTL DEF Spec
-----------------------------------------------------------------------------
(* The system timer.  Arithmetic of its counter, whose low word has m values *)
(* and which is compared with registers of that width.                       *)
LEMMA Divides ==
  ASSUME NEW m \in Nat \ {0}, NEW n \in Nat
  PROVE  n % m \in 0..(m - 1) /\ (n \div m) \in Int /\ n = (m * (n \div m)) + (n % m)
OBVIOUS

LEMMA RemainderIs ==
  ASSUME NEW m \in Nat \ {0}, NEW n \in Nat, NEW q \in Int, NEW r \in 0..(m - 1), n = (m * q) + r
  PROVE  n % m = r
<1> PICK p \in Int, s \in 0..(m - 1) : p = n \div m /\ s = n % m /\ n = (m * p) + s
  BY Divides
<1>1. m * (q - p) = s - r
  OBVIOUS
<1>2. (q - p >= 1 => m * (q - p) >= m) /\ (q - p <= -1 => m * (q - p) <= -m)
  OBVIOUS
<1>3. s - r < m /\ s - r > -m
  OBVIOUS
<1>4. q - p \in Int /\ ~(q - p >= 1) /\ ~(q - p <= -1)
  BY <1>1, <1>2, <1>3
<1>5. q = p
  BY <1>4
<1> QED BY <1>5

LEMMA RemainderSum ==
  ASSUME NEW m \in Nat \ {0}, NEW n \in Nat, NEW k \in Nat
  PROVE  ((n % m) + k) % m = (n + k) % m
<1> PICK q \in Int, r \in 0..(m - 1) : q = n \div m /\ r = n % m /\ n = (m * q) + r
  BY Divides
<1> PICK p \in Int, s \in 0..(m - 1) : s = (r + k) % m /\ r + k = (m * p) + s
  <2>1. r + k \in Nat
    OBVIOUS
  <2> QED BY <2>1, Divides
<1>1. n + k = (m * (q + p)) + s
  OBVIOUS
<1>2. n + k \in Nat /\ q + p \in Int
  OBVIOUS
<1>3. (n + k) % m = s
  BY <1>1, <1>2, RemainderIs
<1> QED BY <1>3

LEMMA RemainderOnce ==
  ASSUME NEW m \in Nat \ {0}, NEW n \in Nat, n < 2 * m
  PROVE  n % m = (IF n < m THEN n ELSE n - m)
<1>1. CASE n < m
  <2>1. n \in 0..(m - 1) /\ n = (m * 0) + n
    BY <1>1
  <2> QED BY <2>1, <1>1, RemainderIs
<1>2. CASE ~(n < m)
  <2>1. n - m \in 0..(m - 1) /\ n = (m * 1) + (n - m)
    BY <1>2
  <2> QED BY <2>1, <1>2, RemainderIs
<1> QED BY <1>1, <1>2

(* What the proofs know of the constants.                                    *)
LEMMA TimerConstants ==
  /\ LowWord \in Nat \ {0} /\ TICK_TIME_US \in Nat \ {0} /\ MaxLatency \in Nat
  /\ MaxLatency < TICK_TIME_US /\ 2 * TICK_TIME_US <= LowWord
  /\ Long \in Nat \ {0} /\ LowWord <= Long /\ Start \in Nat
<1>1. PICK m : m = LowWord /\ m \in Nat
  BY TimerAssumption
<1>2. /\ TICK_TIME_US \in 2..(m \div 2) /\ MaxLatency \in 0..(TICK_TIME_US - 1) /\ Start \in Nat
  BY <1>1, TimerAssumption
<1>3. PICK h : h = m \div 2 /\ h \in Nat /\ 2 * h <= m
  BY <1>1
<1>4. TICK_TIME_US \in Nat /\ 2 <= TICK_TIME_US /\ 2 * TICK_TIME_US <= m /\ m >= 4
  <2>1. TICK_TIME_US \in 2..h
    BY <1>2, <1>3
  <2> QED BY <2>1, <1>1, <1>3
<1>5. m * m \in Nat /\ m * m >= m
  <2>1. m * m >= m * 1
    BY <1>1, <1>4
  <2> QED BY <1>1, <2>1
<1>6. Long = m * m
  BY <1>1 DEF Long
<1> HIDE DEF LowWord, Long
<1> QED BY <1>1, <1>2, <1>4, <1>5, <1>6

LEMMA TheCounter ==
  ASSUME NEW n \in Nat
  PROVE  /\ n % LowWord \in InWord
         /\ (n + 1) % LowWord = (IF n % LowWord = LowWord - 1 THEN 0 ELSE (n % LowWord) + 1)
         /\ n < LowWord => n % LowWord = n
<1> PICK m : m = LowWord /\ m \in Nat \ {0}
  BY TimerConstants
<1> PICK r : r = n % m
  OBVIOUS
<1>1. r \in 0..(m - 1)
  BY Divides
<1>2. (n + 1) % m = (r + 1) % m
  BY RemainderSum
<1>3. r + 1 \in Nat /\ r + 1 < 2 * m
  BY <1>1
<1>4. (r + 1) % m = (IF r + 1 < m THEN r + 1 ELSE (r + 1) - m)
  BY <1>3, RemainderOnce
<1>5. n < m => n % m = n
  BY RemainderOnce
<1> HIDE DEF LowWord
<1> QED BY <1>1, <1>2, <1>4, <1>5 DEF InWord

(* Distances between two places of the counter.                              *)
LEMMA Distance ==
  ASSUME NEW a \in InWord, NEW b \in InWord
  PROVE  MinusWord(a, b) = IF b <= a THEN a - b ELSE (a - b) + LowWord
<1> PICK m : m = LowWord /\ m \in Nat \ {0}
  BY TimerConstants
<1> HIDE DEF LowWord
<1>1. a \in 0..(m - 1) /\ b \in 0..(m - 1)
  BY DEF InWord
<1>2. (a + m) - b \in Nat /\ (a + m) - b < 2 * m
  BY <1>1
<1>3. ((a + m) - b) % m = (IF (a + m) - b < m THEN (a + m) - b ELSE ((a + m) - b) - m)
  BY <1>2, RemainderOnce
<1>4. MinusWord(a, b) = ((a + m) - b) % m
  <2>1. a + (m - b) = (a + m) - b
    BY <1>1
  <2>2. MinusWord(a, b) = (a + (m - b)) % m
    BY DEF MinusWord
  <2> QED BY <2>1, <2>2
<1> QED BY <1>1, <1>3, <1>4

LEMMA Moves ==
  ASSUME NEW a \in InWord, NEW b \in InWord, NEW c \in InWord,
         c = (IF a = LowWord - 1 THEN 0 ELSE a + 1)
  PROVE  /\ MinusWord(a, b) \in InWord /\ MinusWord(b, a) \in InWord
         /\ MinusWord(c, b) = (IF MinusWord(a, b) = LowWord - 1 THEN 0 ELSE MinusWord(a, b) + 1)
         /\ MinusWord(b, c) = (IF MinusWord(b, a) = 0 THEN LowWord - 1 ELSE MinusWord(b, a) - 1)
         /\ c = b <=> MinusWord(c, b) = 0
         /\ c = b <=> MinusWord(b, c) = 0
         /\ a <= b => MinusWord(b, a) = b - a
<1> PICK m : m = LowWord /\ m \in Nat \ {0}
  BY TimerConstants
<1> HIDE DEF LowWord
<1> USE DEF InWord
<1>1. /\ MinusWord(a, b) = (IF b <= a THEN a - b ELSE (a - b) + m)
      /\ MinusWord(b, a) = (IF a <= b THEN b - a ELSE (b - a) + m)
      /\ MinusWord(c, b) = (IF b <= c THEN c - b ELSE (c - b) + m)
      /\ MinusWord(b, c) = (IF c <= b THEN b - c ELSE (b - c) + m)
  BY Distance
<1> HIDE DEF MinusWord
<1> QED BY <1>1

(* Where C1 is moved to, seen from the counter at a: from the last match b,  *)
(* or from now.                                                              *)
LEMMA MovesOn ==
  ASSUME NEW a \in InWord, NEW b \in InWord, NEW s \in Nat, s < TICK_TIME_US, MinusWord(a, b) = s
  PROVE  /\ (b + TICK_TIME_US) % LowWord \in InWord
         /\ MinusWord((b + TICK_TIME_US) % LowWord, a) = TICK_TIME_US - s
         /\ b + TICK_TIME_US < LowWord => (b + TICK_TIME_US) % LowWord = b + TICK_TIME_US
<1> PICK m, k : m = LowWord /\ m \in Nat \ {0} /\ k = TICK_TIME_US /\ k \in Nat \ {0} /\ 2 * k <= m
  BY TimerConstants
<1> HIDE DEF LowWord
<1> PICK c : c = (b + k) % m
  OBVIOUS
<1>1. a \in 0..(m - 1) /\ b \in 0..(m - 1) /\ s < k
  BY DEF InWord
<1>2. b + k \in Nat /\ b + k < 2 * m
  BY <1>1
<1>3. c = (IF b + k < m THEN b + k ELSE (b + k) - m)
  BY <1>2, RemainderOnce
<1>4. c \in 0..(m - 1)
  BY <1>1, <1>2, <1>3
<1>5. s = (IF b <= a THEN a - b ELSE (a - b) + m)
  BY Distance
<1>6. MinusWord(c, a) = (IF a <= c THEN c - a ELSE (c - a) + m)
  BY <1>4, Distance DEF InWord
<1>7. MinusWord(c, a) = k - s
  BY <1>1, <1>3, <1>5, <1>6
<1> QED BY <1>3, <1>4, <1>7 DEF InWord

LEMMA DueNext ==
  ASSUME NEW k \in Nat
  PROVE  DueAt(k) \in Nat /\ DueAt(k + 1) = DueAt(k) + TICK_TIME_US
<1> PICK p, s : p = TICK_TIME_US /\ p \in Nat /\ s = Start /\ s \in Nat
  BY TimerConstants
<1>1. k * p \in Nat /\ (k + 1) * p = (k * p) + p
  OBVIOUS
<1> QED BY <1>1 DEF DueAt

LEMMA TimerInitInv == TimerInit => TimerIInv
<1> SUFFICES ASSUME TimerInit PROVE TimerIInv
  OBVIOUS
<1> USE DEF TimerInit
<1> HIDE DEF LowWord, Long, DueAt, MinusWord, time_get, InWord
<1>1. /\ LowWord \in Nat \ {0} /\ TICK_TIME_US \in Nat \ {0} /\ MaxLatency \in Nat
      /\ Long \in Nat \ {0} /\ Start \in Nat /\ 0 < TICK_TIME_US
  BY TimerConstants
<1>2. time_get \in InWord /\ time_get = Start % LowWord /\ 0 \in InWord
  <2>1. time_get = Start % LowWord
    BY DEF time_get
  <2>2. Start % LowWord \in InWord
    BY <1>1, TheCounter
  <2>3. 0 \in InWord
    BY <1>1 DEF InWord
  <2> QED BY <2>1, <2>2, <2>3
<1>3. MinusWord(time_get, time_get) = 0
  BY <1>2, <1>1, Distance DEF InWord
<1>4. C1 = (time_get + TICK_TIME_US) % LowWord
  BY <1>1, <1>2, RemainderSum
<1>5. C1 \in InWord /\ ToNext = TICK_TIME_US
  <2>1. C1 \in InWord /\ MinusWord(C1, time_get) = TICK_TIME_US - 0
    BY <1>1, <1>2, <1>3, <1>4, MovesOn
  <2> QED BY <2>1, <1>1 DEF ToNext
<1>6. DueAt(1) \in Nat /\ DueAt(1) = Start + TICK_TIME_US
  BY <1>1 DEF DueAt
<1>7. TimerTypeOK
  BY <1>1, <1>2, <1>5 DEF TimerTypeOK, Running
<1>8. ~Pending
  BY DEF Pending
<1>9. MatchAhead
  <2>1. ToNext \in 1..TICK_TIME_US
    BY <1>1, <1>5
  <2> QED BY <1>8, <2>1 DEF MatchAhead, Handling
<1>10. NoDrift
  <2>1. DueAt(1) < LowWord => C1 = DueAt(1)
    <3>1. DueAt(1) < LowWord => (Start + TICK_TIME_US) % LowWord = Start + TICK_TIME_US
      BY <1>6, <1>1, TheCounter
    <3> QED BY <3>1, <1>6
  <2>2. served + 1 = 1 /\ now < DueAt(1)
    BY <1>1, <1>6
  <2> QED BY <1>8, <2>1, <2>2 DEF NoDrift
<1>11. IdleExact
  BY <1>1, RemainderOnce DEF IdleExact
<1>12. SleepShort
  BY DEF SleepShort
<1>13. BusyKept
  <2>1. now < LowWord => last_busy_us = now
    BY <1>1, TheCounter DEF time_get
  <2> QED BY <1>1, <2>1 DEF BusyKept, Running
<1> QED BY <1>7, <1>9, <1>10, <1>11, <1>12, <1>13 DEF TimerIInv

(* A microsecond passes: no match is met while one is pending, nor before    *)
(* the flag is cleared.                                                      *)
LEMMA CountInv == ASSUME TimerIInv, Count PROVE TimerIInv'
<1> HIDE DEF LowWord, Long, DueAt, MinusWord, time_get, InWord
<1>1. /\ TimerTypeOK /\ MatchAhead /\ NoDrift /\ IdleExact /\ SleepShort /\ BusyKept
  BY DEF TimerIInv
<1>2. PICK m, p, x : /\ m = LowWord /\ p = TICK_TIME_US /\ x = MaxLatency
                     /\ m \in Nat \ {0} /\ p \in Nat \ {0} /\ x \in Nat /\ x < p /\ 2 * p <= m
  BY TimerConstants
<1>3. /\ M1 \/ pc \in Handling => since < x
      /\ now' = now + 1
      /\ spent' = (IF pc = "woken" THEN spent ELSE [spent EXCEPT ![Spent(pc)] = @ + 1])
      /\ M1' = (M1 \/ time_get' = C1)
      /\ since' = (IF time_get' = C1 THEN 0 ELSE since + 1)
      /\ UNCHANGED <<C1, late, served, start, last_busy_us, idle_us, busy_us, pc>>
  BY <1>2 DEF Count, idleVars, time_get
<1>4. /\ now \in Nat /\ since \in Nat /\ served \in Nat /\ C1 \in InWord /\ start \in InWord
      /\ M1 \in BOOLEAN /\ last_busy_us \in Nat /\ busy_us \in Nat /\ spent.asleep \in Nat /\ spent.busy \in Nat
      /\ pc \in {"tasks", "compare", "write", "clear", "clear_again", "asleep", "woken"}
  BY <1>1, <1>2 DEF TimerTypeOK, Running, Handling, InWord
<1>5. /\ time_get \in InWord /\ time_get' \in InWord
      /\ time_get' = (IF time_get = m - 1 THEN 0 ELSE time_get + 1)
      /\ now < m => time_get = now
  <2>1. /\ now % LowWord \in InWord
        /\ (now + 1) % LowWord = (IF now % LowWord = LowWord - 1 THEN 0 ELSE (now % LowWord) + 1)
        /\ now < LowWord => now % LowWord = now
    BY <1>4, TheCounter
  <2>2. now + 1 \in Nat
    BY <1>4
  <2>3. (now + 1) % LowWord \in InWord
    BY <2>2, TheCounter
  <2>4. time_get = now % LowWord /\ time_get' = (now + 1) % LowWord
    BY <1>3 DEF time_get
  <2> QED BY <2>1, <2>3, <2>4, <1>2
<1>6. /\ ToNext \in 0..(m - 1) /\ Elapsed \in 0..(m - 1) /\ Slept \in 0..(m - 1)
      /\ ToNext' = (IF ToNext = 0 THEN m - 1 ELSE ToNext - 1)
      /\ Elapsed' = (IF Elapsed = m - 1 THEN 0 ELSE Elapsed + 1)
      /\ Slept' = (IF Slept = m - 1 THEN 0 ELSE Slept + 1)
      /\ time_get' = C1 <=> ToNext' = 0
      /\ time_get' = C1 <=> Elapsed' = 0
      /\ time_get <= C1 => ToNext = C1 - time_get
  <2>1. /\ MinusWord(C1, time_get) \in InWord /\ MinusWord(time_get, C1) \in InWord
        /\ MinusWord(time_get', C1) = (IF MinusWord(time_get, C1) = m - 1 THEN 0 ELSE MinusWord(time_get, C1) + 1)
        /\ MinusWord(C1, time_get') = (IF MinusWord(C1, time_get) = 0 THEN m - 1 ELSE MinusWord(C1, time_get) - 1)
        /\ time_get' = C1 <=> MinusWord(C1, time_get') = 0
        /\ time_get' = C1 <=> MinusWord(time_get', C1) = 0
        /\ time_get <= C1 => MinusWord(C1, time_get) = C1 - time_get
    BY <1>2, <1>4, <1>5, Moves
  <2>2. /\ MinusWord(time_get, start) \in InWord
        /\ MinusWord(time_get', start) = (IF MinusWord(time_get, start) = m - 1 THEN 0 ELSE MinusWord(time_get, start) + 1)
    BY <1>2, <1>4, <1>5, Moves
  <2>3. C1' = C1 /\ start' = start
    BY <1>3
  <2> QED BY <2>1, <2>2, <2>3, <1>2 DEF ToNext, Elapsed, Slept, InWord
<1>7. /\ pc \in {"compare", "write", "clear"} => M1
      /\ M1 \/ pc \in Handling => since < x
      /\ Pending => Elapsed = since /\ M1
      /\ ~Pending => ToNext \in 1..p
      /\ ~Pending => pc \in {"clear", "clear_again"} \/ ~M1
      /\ pc \in {"clear", "clear_again"} => ToNext >= p - since
  BY <1>1, <1>2, <1>3 DEF MatchAhead, Pending
<1>8. Pending => time_get' # C1 /\ Elapsed' = since' /\ since' = since + 1 /\ M1' /\ Pending' /\ since' <= x
  <2> SUFFICES ASSUME Pending PROVE time_get' # C1 /\ Elapsed' = since' /\ since' = since + 1 /\ M1' /\ Pending' /\ since' <= x
    OBVIOUS
  <2>1. M1 /\ Elapsed = since /\ since < x
    BY <1>7
  <2>2. Elapsed' = since + 1 /\ Elapsed' # 0
    BY <2>1, <1>2, <1>4, <1>6
  <2>3. time_get' # C1 /\ since' = since + 1 /\ M1'
    BY <2>1, <2>2, <1>3, <1>6
  <2> QED BY <2>1, <2>2, <2>3, <1>2, <1>3, <1>4 DEF Pending
<1>9. pc \in {"clear", "clear_again"} =>
        /\ ~Pending /\ ~Pending' /\ time_get' # C1 /\ since' = since + 1 /\ M1' = M1
        /\ ToNext' = ToNext - 1 /\ ToNext' \in 1..p /\ ToNext' >= p - since' /\ since' <= x
  <2> SUFFICES ASSUME pc \in {"clear", "clear_again"}
               PROVE  /\ ~Pending /\ ~Pending' /\ time_get' # C1 /\ since' = since + 1 /\ M1' = M1
                      /\ ToNext' = ToNext - 1 /\ ToNext' \in 1..p /\ ToNext' >= p - since' /\ since' <= x
    OBVIOUS
  <2>1. ~Pending /\ ~Pending'
    BY <1>3 DEF Pending
  <2>2. since < x /\ ToNext \in 1..p /\ ToNext >= p - since
    BY <2>1, <1>7 DEF Handling
  <2>3. ToNext' = ToNext - 1 /\ ToNext >= 2
    BY <2>2, <1>2, <1>4, <1>6
  <2>4. time_get' # C1
    BY <2>3, <2>2, <1>2, <1>6
  <2>5. since' = since + 1 /\ M1' = M1
    BY <2>4, <1>3, <1>4
  <2> QED BY <2>1, <2>2, <2>3, <2>4, <2>5, <1>2, <1>4
<1>10. ~Pending /\ pc \notin {"clear", "clear_again"} =>
        /\ ~M1 /\ ToNext \in 1..p /\ ToNext' = ToNext - 1 /\ pc \notin {"compare", "write"}
        /\ \/ /\ ToNext = 1 /\ Pending' /\ M1' /\ since' = 0 /\ Elapsed' = 0
           \/ /\ ToNext # 1 /\ ~Pending' /\ ~M1' /\ ToNext' \in 1..p
  <2> SUFFICES ASSUME ~Pending, pc \notin {"clear", "clear_again"}
               PROVE  /\ ~M1 /\ ToNext \in 1..p /\ ToNext' = ToNext - 1 /\ pc \notin {"compare", "write"}
                      /\ \/ /\ ToNext = 1 /\ Pending' /\ M1' /\ since' = 0 /\ Elapsed' = 0
                         \/ /\ ToNext # 1 /\ ~Pending' /\ ~M1' /\ ToNext' \in 1..p
    OBVIOUS
  <2>1. ~M1 /\ ToNext \in 1..p /\ pc \notin {"compare", "write"}
    BY <1>7
  <2>2. ToNext' = ToNext - 1
    BY <2>1, <1>6
  <2>3. CASE ToNext = 1
    <3>1. time_get' = C1 /\ Elapsed' = 0
      BY <2>2, <2>3, <1>6
    <3>2. M1' /\ since' = 0
      BY <3>1, <1>3
    <3> QED BY <2>1, <2>2, <2>3, <3>1, <3>2, <1>3 DEF Pending
  <2>4. CASE ToNext # 1
    <3>1. time_get' # C1 /\ ToNext' \in 1..p
      BY <2>1, <2>2, <2>4, <1>2, <1>6
    <3>2. ~M1'
      BY <2>1, <3>1, <1>3
    <3> QED BY <2>1, <2>2, <2>4, <3>1, <3>2, <1>3 DEF Pending
  <2> QED BY <2>3, <2>4
<1>11. TimerTypeOK'
  <2>1. spent' \in [busy : Nat, asleep : Nat]
    BY <1>1, <1>3 DEF TimerTypeOK, Spent
  <2> QED BY <1>1, <1>3, <1>4, <2>1 DEF TimerTypeOK
<1>12. MatchAhead'
  <2>1. M1' \/ pc' \in Handling => since' <= x
    <3>1. pc \in Handling => Pending \/ pc \in {"clear", "clear_again"}
      BY <1>7, <1>4 DEF Handling, Pending
    <3> QED BY <3>1, <1>2, <1>3, <1>8, <1>9, <1>10
  <2>2. pc' \in {"compare", "write", "clear", "clear_again"} => M1' \/ pc' = "clear_again"
    BY <1>3, <1>7
  <2>3. IF Pending' THEN Elapsed' = since' ELSE ToNext' \in 1..p
    BY <1>8, <1>9, <1>10
  <2>4. pc' \in {"clear", "clear_again"} => ToNext' >= p - since'
    BY <1>3, <1>9
  <2> QED BY <1>2, <2>1, <2>2, <2>3, <2>4 DEF MatchAhead
<1>13. NoDrift'
  <2>1. PICK k, d : /\ k = (IF pc \in {"clear", "clear_again"} THEN served + 2 ELSE served + 1)
                    /\ d = DueAt(k) /\ k \in Nat
    BY <1>4
  <2>2. d \in Nat
    BY <2>1, DueNext
  <2>3. /\ d < m => C1 = d /\ (IF Pending THEN now = d + since ELSE now < d)
        /\ pc = "write" /\ DueAt(k + 1) < m => ~late
    BY <1>1, <1>2, <2>1 DEF NoDrift
  <2>4. d < m => C1' = d /\ (IF Pending' THEN now' = d + since' ELSE now' < d)
    <3> SUFFICES ASSUME d < m PROVE (IF Pending' THEN now' = d + since' ELSE now' < d)
      BY <1>3, <2>3
    <3>1. CASE Pending
      BY <3>1, <1>3, <1>4, <1>8, <2>2, <2>3
    <3>2. CASE ~Pending
      <4>1. now < d /\ C1 = d /\ time_get = now /\ ToNext = d - now
        BY <3>2, <1>2, <1>4, <1>5, <1>6, <2>2, <2>3
      <4>2. CASE pc \in {"clear", "clear_again"}
        BY <4>1, <4>2, <1>2, <1>3, <1>4, <1>9, <2>2
      <4>3. CASE pc \notin {"clear", "clear_again"}
        BY <3>2, <4>1, <4>3, <1>2, <1>3, <1>4, <1>10, <2>2
      <4> QED BY <4>2, <4>3
    <3> QED BY <3>1, <3>2
  <2>5. pc' = pc /\ served' = served /\ late' = late
    BY <1>3
  <2> QED BY <1>2, <2>1, <2>3, <2>4, <2>5 DEF NoDrift
<1>14. pc = "asleep" => spent'.asleep = spent.asleep + 1 /\ spent'.busy = spent.busy
  BY <1>1, <1>3 DEF TimerTypeOK, Spent, Running, Handling
<1>15. pc \in Running => spent'.busy = spent.busy + 1 /\ spent'.asleep = spent.asleep
  BY <1>1, <1>3 DEF TimerTypeOK, Spent, Running, Handling
<1>16. pc = "woken" => spent' = spent
  BY <1>3
<1>17. IdleExact'
  BY <1>1, <1>3, <1>4, <1>15, <1>16 DEF IdleExact, Running, Handling
<1>18. SleepShort'
  <2> SUFFICES ASSUME pc = "asleep"
               PROVE  /\ Slept' <= spent'.asleep /\ idle_us' = (spent'.asleep - Slept') % Long
                      /\ IF M1' THEN Slept' <= p + since' ELSE Slept' + ToNext' <= p
    BY <1>2, <1>3 DEF SleepShort
  <2>1. /\ Slept <= spent.asleep /\ idle_us = (spent.asleep - Slept) % Long
        /\ IF M1 THEN Slept <= p + since ELSE Slept + ToNext <= p
    BY <1>1, <1>2 DEF SleepShort
  <2>2. M1 <=> Pending
    BY DEF Pending
  <2>3. Slept < m - 1
    <3>1. CASE M1
      BY <3>1, <2>1, <1>2, <1>3, <1>4, <1>6
    <3>2. CASE ~M1
      BY <3>2, <2>1, <2>2, <1>2, <1>6, <1>7
    <3> QED BY <3>1, <3>2
  <2>4. Slept' = Slept + 1
    BY <2>3, <1>2, <1>6
  <2>5. /\ Slept' <= spent'.asleep /\ spent'.asleep - Slept' = spent.asleep - Slept
    BY <2>1, <2>4, <1>4, <1>6, <1>14
  <2>6. IF M1' THEN Slept' <= p + since' ELSE Slept' + ToNext' <= p
    <3>1. CASE M1
      BY <3>1, <2>1, <2>2, <2>4, <1>2, <1>4, <1>6, <1>8
    <3>2. CASE ~M1
      BY <3>2, <2>1, <2>2, <2>4, <1>2, <1>4, <1>6, <1>10
    <3> QED BY <3>1, <3>2
  <2> QED BY <2>1, <2>5, <2>6, <1>3
<1>19. BusyKept'
  <2> SUFFICES ASSUME now' < m
               PROVE  /\ spent'.busy <= now'
                      /\ IF pc \in Running THEN last_busy_us <= now' /\ busy_us + (now' - last_busy_us) = spent'.busy
                                           ELSE busy_us = spent'.busy
    BY <1>2, <1>3 DEF BusyKept
  <2>1. /\ spent.busy <= now
        /\ IF pc \in Running THEN last_busy_us <= now /\ busy_us + (now - last_busy_us) = spent.busy
                             ELSE busy_us = spent.busy
    BY <1>1, <1>2, <1>3, <1>4 DEF BusyKept
  <2>2. CASE pc \in Running
    BY <2>1, <2>2, <1>3, <1>4, <1>15
  <2>3. CASE pc \notin Running
    <3>1. spent'.busy = spent.busy
      BY <2>3, <1>4, <1>14, <1>16 DEF Running, Handling
    <3> QED BY <2>1, <2>3, <3>1, <1>3, <1>4
  <2> QED BY <2>2, <2>3
<1> QED BY <1>11, <1>12, <1>13, <1>17, <1>18, <1>19 DEF TimerIInv

(* What no step but Count changes: the time, and what is read off it.        *)
LEMMA Clockless ==
  ASSUME UNCHANGED clockVars
  PROVE  /\ now' = now /\ spent' = spent /\ since' = since /\ time_get' = time_get
         /\ C1' = C1 => ToNext' = ToNext /\ Elapsed' = Elapsed
         /\ start' = start => Slept' = Slept
BY DEF clockVars, time_get, ToNext, Elapsed, Slept

(* The handler starts.                                                       *)
LEMMA TakeInv == ASSUME TimerIInv, Take PROVE TimerIInv'
<1> HIDE DEF LowWord, Long, DueAt, MinusWord, time_get, InWord
<1>1. /\ TimerTypeOK /\ MatchAhead /\ NoDrift /\ IdleExact /\ SleepShort /\ BusyKept
  BY DEF TimerIInv
<1>2. /\ pc = "tasks" /\ pc' = "compare" /\ M1
      /\ UNCHANGED <<C1, M1, late, served, start, last_busy_us, idle_us, busy_us>>
      /\ UNCHANGED clockVars
  BY DEF Take, At, tickVars, idleVars
<1>3. /\ now' = now /\ spent' = spent /\ since' = since /\ time_get' = time_get
      /\ ToNext' = ToNext /\ Elapsed' = Elapsed /\ Slept' = Slept
  BY <1>2, Clockless
<1>4. Pending /\ Pending'
  BY <1>2 DEF Pending
<1>5. TimerTypeOK'
  BY <1>1, <1>2, <1>3 DEF TimerTypeOK, Running, Handling
<1>6. MatchAhead'
  BY <1>1, <1>2, <1>3, <1>4 DEF MatchAhead, Handling
<1>7. NoDrift'
  BY <1>1, <1>2, <1>3, <1>4 DEF NoDrift
<1>8. IdleExact' /\ SleepShort'
  BY <1>1, <1>2, <1>3 DEF IdleExact, SleepShort
<1>9. BusyKept'
  BY <1>1, <1>2, <1>3 DEF BusyKept, Running, Handling
<1> QED BY <1>5, <1>6, <1>7, <1>8, <1>9 DEF TimerIInv

(* Before the wrap the next tick is not past when it is compared with now.   *)
LEMMA CompareInv == ASSUME TimerIInv, Compare PROVE TimerIInv'
<1> HIDE DEF LowWord, Long, DueAt, MinusWord, time_get, InWord
<1>1. /\ TimerTypeOK /\ MatchAhead /\ NoDrift /\ IdleExact /\ SleepShort /\ BusyKept
  BY DEF TimerIInv
<1>2. /\ pc = "compare" /\ pc' = "write" /\ late' = (NextTick < time_get)
      /\ UNCHANGED <<C1, M1, served, start, last_busy_us, idle_us, busy_us>>
      /\ UNCHANGED clockVars
  BY DEF Compare, At, idleVars
<1>3. /\ now' = now /\ spent' = spent /\ since' = since /\ time_get' = time_get
      /\ ToNext' = ToNext /\ Elapsed' = Elapsed /\ Slept' = Slept
  BY <1>2, Clockless
<1>4. M1 /\ Pending /\ Pending'
  BY <1>1, <1>2 DEF Pending, MatchAhead
<1>5. TimerTypeOK'
  BY <1>1, <1>2, <1>3 DEF TimerTypeOK, Running, Handling
<1>6. MatchAhead'
  BY <1>1, <1>2, <1>3, <1>4 DEF MatchAhead, Handling
<1>7. NoDrift'
  <2>1. PICK k, d, e : k = served + 1 /\ d = DueAt(k) /\ e = DueAt(k + 1) /\ k \in Nat
    BY <1>1 DEF TimerTypeOK
  <2>2. d \in Nat /\ e = d + TICK_TIME_US /\ e \in Nat /\ TICK_TIME_US \in Nat
        /\ MaxLatency \in Nat /\ MaxLatency < TICK_TIME_US /\ LowWord \in Nat
        /\ since \in Nat /\ since <= MaxLatency /\ now \in Nat
    BY <2>1, <1>1, <1>2, DueNext, TimerConstants DEF TimerTypeOK, MatchAhead, Handling
  <2>3. d < LowWord => C1 = d /\ now = d + since
    BY <1>1, <1>2, <1>4, <2>1 DEF NoDrift
  <2>4. e < LowWord => ~late'
    <3> SUFFICES ASSUME e < LowWord PROVE ~(NextTick < time_get)
      BY <1>2
    <3>1. d < LowWord /\ now < e /\ now < LowWord
      BY <2>2, <2>3
    <3>2. NextTick = e
      <4>1. NextTick = e % LowWord
        BY <2>2, <2>3, <3>1 DEF NextTick
      <4> QED BY <4>1, <2>2, TheCounter
    <3>3. time_get = now
      BY <2>2, <3>1, TheCounter DEF time_get
    <3> QED BY <3>1, <3>2, <3>3, <2>2
  <2> QED BY <1>2, <1>3, <1>4, <2>1, <2>3, <2>4 DEF NoDrift
<1>8. IdleExact' /\ SleepShort'
  BY <1>1, <1>2, <1>3 DEF IdleExact, SleepShort
<1>9. BusyKept'
  BY <1>1, <1>2, <1>3 DEF BusyKept, Running, Handling
<1> QED BY <1>5, <1>6, <1>7, <1>8, <1>9 DEF TimerIInv

(* C1 is moved to the next tick, or to a period from now.                    *)
LEMMA WriteInv == ASSUME TimerIInv, Write PROVE TimerIInv'
<1> HIDE DEF LowWord, Long, DueAt, MinusWord, time_get, InWord
<1>1. /\ TimerTypeOK /\ MatchAhead /\ NoDrift /\ IdleExact /\ SleepShort /\ BusyKept
  BY DEF TimerIInv
<1>2. /\ pc = "write" /\ pc' = "clear" /\ C1' = Reprogrammed
      /\ UNCHANGED <<M1, late, served, start, last_busy_us, idle_us, busy_us>>
      /\ UNCHANGED clockVars
  BY DEF Write, At, idleVars
<1>3. /\ now' = now /\ spent' = spent /\ since' = since /\ time_get' = time_get /\ Slept' = Slept
  BY <1>2, Clockless
<1>4. M1 /\ Pending /\ ~Pending'
  BY <1>1, <1>2 DEF Pending, MatchAhead
<1>5. /\ now \in Nat /\ since \in Nat /\ served \in Nat /\ C1 \in InWord /\ since <= MaxLatency
      /\ Elapsed = since
  BY <1>1, <1>2, <1>4 DEF TimerTypeOK, MatchAhead, Handling
<1>6. /\ LowWord \in Nat \ {0} /\ TICK_TIME_US \in Nat \ {0} /\ MaxLatency \in Nat
      /\ MaxLatency < TICK_TIME_US
  BY TimerConstants
<1>7. time_get \in InWord
  BY <1>5, TheCounter DEF time_get
<1>8. /\ C1' \in InWord
      /\ ToNext' = TICK_TIME_US - since \/ ToNext' = TICK_TIME_US
      /\ ~late /\ C1 + TICK_TIME_US < LowWord => C1' = C1 + TICK_TIME_US
  <2>1. CASE late
    <3>1. C1' = (time_get + TICK_TIME_US) % LowWord
      BY <1>2, <2>1 DEF Reprogrammed
    <3>2. MinusWord(time_get, time_get) = 0
      BY <1>6, <1>7, Distance DEF InWord
    <3>3. C1' \in InWord /\ MinusWord(C1', time_get) = TICK_TIME_US - 0
      BY <1>6, <1>7, <3>1, <3>2, MovesOn
    <3> QED BY <1>3, <1>6, <2>1, <3>3 DEF ToNext
  <2>2. CASE ~late
    <3>1. C1' = (C1 + TICK_TIME_US) % LowWord
      BY <1>2, <2>2 DEF Reprogrammed, NextTick
    <3>2. MinusWord(time_get, C1) = since /\ since < TICK_TIME_US
      BY <1>5, <1>6 DEF Elapsed
    <3>3. /\ C1' \in InWord /\ MinusWord(C1', time_get) = TICK_TIME_US - since
          /\ C1 + TICK_TIME_US < LowWord => C1' = C1 + TICK_TIME_US
      BY <1>5, <1>7, <3>1, <3>2, MovesOn
    <3> QED BY <1>3, <3>3 DEF ToNext
  <2> QED BY <2>1, <2>2
<1>9. TimerTypeOK'
  BY <1>1, <1>2, <1>3, <1>8 DEF TimerTypeOK, Running, Handling
<1>10. MatchAhead'
  <2>1. ToNext' \in 1..TICK_TIME_US /\ ToNext' >= TICK_TIME_US - since
    BY <1>5, <1>6, <1>8
  <2> QED BY <1>2, <1>3, <1>4, <1>5, <2>1 DEF MatchAhead
<1>11. NoDrift'
  <2>1. PICK k, d, e : k = served + 1 /\ d = DueAt(k) /\ e = DueAt(k + 1) /\ k \in Nat
    BY <1>5
  <2>2. d \in Nat /\ e = d + TICK_TIME_US
    BY <2>1, DueNext
  <2>3. /\ d < LowWord => C1 = d /\ now = d + since
        /\ e < LowWord => ~late
    BY <1>1, <1>2, <1>4, <2>1 DEF NoDrift
  <2>4. e < LowWord => C1' = e /\ now < e
    BY <1>5, <1>6, <1>8, <2>2, <2>3
  <2>5. k + 1 = served + 2
    BY <2>1, <1>5
  <2> QED BY <1>2, <1>3, <1>4, <2>1, <2>4, <2>5 DEF NoDrift
<1>12. IdleExact' /\ SleepShort'
  BY <1>1, <1>2, <1>3 DEF IdleExact, SleepShort
<1>13. BusyKept'
  BY <1>1, <1>2, <1>3 DEF BusyKept, Running, Handling
<1> QED BY <1>9, <1>10, <1>11, <1>12, <1>13 DEF TimerIInv

(* The flag is cleared twice; no match can have come in between.             *)
LEMMA ClearInv == ASSUME TimerIInv, Clear \/ ClearAgain PROVE TimerIInv'
<1> HIDE DEF LowWord, Long, DueAt, MinusWord, time_get, InWord
<1>1. /\ TimerTypeOK /\ MatchAhead /\ NoDrift /\ IdleExact /\ SleepShort /\ BusyKept
  BY DEF TimerIInv
<1>2. /\ \/ pc = "clear" /\ pc' = "clear_again" /\ served' = served
         \/ pc = "clear_again" /\ pc' = "tasks" /\ served' = served + 1
      /\ M1' = FALSE
      /\ UNCHANGED <<C1, late, start, last_busy_us, idle_us, busy_us>>
      /\ UNCHANGED clockVars
  BY DEF Clear, ClearAgain, At, idleVars
<1>3. /\ now' = now /\ spent' = spent /\ since' = since /\ time_get' = time_get
      /\ ToNext' = ToNext /\ Elapsed' = Elapsed /\ Slept' = Slept
  BY <1>2, Clockless
<1>4. ~Pending /\ ~Pending'
  BY <1>2 DEF Pending
<1>5. served \in Nat /\ (served + 1) + 1 = served + 2
  BY <1>1 DEF TimerTypeOK
<1>6. TimerTypeOK'
  <2>1. served' \in Nat
    <3>1. served' = served \/ served' = served + 1
      BY <1>2
    <3> QED BY <3>1, <1>5
  <2>2. pc' \in Running \cup {"asleep", "woken"}
    BY <1>2 DEF Running, Handling
  <2>3. M1' \in BOOLEAN
    BY <1>2
  <2> QED BY <1>1, <1>2, <1>3, <2>1, <2>2, <2>3 DEF TimerTypeOK
<1>7. MatchAhead'
  BY <1>1, <1>2, <1>3, <1>4 DEF MatchAhead, Handling
<1>8. NoDrift'
  <2>1. DueAt(served + 2) < LowWord => C1 = DueAt(served + 2) /\ now < DueAt(served + 2)
    BY <1>1, <1>2, <1>4 DEF NoDrift
  <2>2. pc' # "write"
    BY <1>2
  <2>3. (IF pc' \in {"clear", "clear_again"} THEN served' + 2 ELSE served' + 1) = served + 2
    BY <1>2, <1>5
  <2> QED BY <1>2, <1>3, <1>4, <2>1, <2>2, <2>3 DEF NoDrift
<1>9. IdleExact' /\ SleepShort'
  BY <1>1, <1>2, <1>3 DEF IdleExact, SleepShort
<1>10. BusyKept'
  BY <1>1, <1>2, <1>3 DEF BusyKept, Running, Handling
<1> QED BY <1>6, <1>7, <1>8, <1>9, <1>10 DEF TimerIInv

(* go_idle changes none of the tick.                                         *)
LEMMA TickKept ==
  ASSUME TimerIInv, pc \in {"tasks", "asleep", "woken"}, pc' \in {"tasks", "asleep", "woken"},
         UNCHANGED clockVars, UNCHANGED tickVars
  PROVE  MatchAhead' /\ NoDrift'
<1> HIDE DEF LowWord, Long, DueAt, MinusWord, time_get, InWord
<1>1. MatchAhead /\ NoDrift
  BY DEF TimerIInv
<1>2. C1' = C1 /\ M1' = M1 /\ late' = late /\ served' = served
  BY DEF tickVars
<1>3. now' = now /\ since' = since /\ ToNext' = ToNext /\ Elapsed' = Elapsed
  BY <1>2, Clockless
<1>4. Pending' <=> Pending
  BY <1>2 DEF Pending
<1>5. MatchAhead'
  BY <1>1, <1>2, <1>3, <1>4 DEF MatchAhead, Handling
<1>6. NoDrift'
  BY <1>1, <1>2, <1>3, <1>4 DEF NoDrift
<1> QED BY <1>5, <1>6

(* Before the wrap, the time since last_busy_us was spent by tasks.          *)
LEMMA GoIdleInv == ASSUME TimerIInv, GoIdle PROVE TimerIInv'
<1> HIDE DEF LowWord, Long, DueAt, MinusWord, time_get, InWord
<1>1. /\ TimerTypeOK /\ MatchAhead /\ NoDrift /\ IdleExact /\ SleepShort /\ BusyKept
  BY DEF TimerIInv
<1>2. /\ pc = "tasks" /\ pc' = "asleep" /\ start' = time_get /\ busy_us' = BusyAfter(time_get)
      /\ UNCHANGED <<last_busy_us, idle_us>> /\ UNCHANGED clockVars /\ UNCHANGED tickVars
      /\ M1' = M1
  BY DEF GoIdle, tickVars
<1>3. MatchAhead' /\ NoDrift'
  BY <1>2, TickKept
<1>4. /\ now' = now /\ spent' = spent /\ since' = since /\ C1' = C1 /\ ToNext' = ToNext
  BY <1>2, Clockless DEF tickVars
<1>5. PICK m, p, l : /\ m = LowWord /\ p = TICK_TIME_US /\ l = Long
                     /\ m \in Nat \ {0} /\ p \in Nat \ {0} /\ l \in Nat \ {0} /\ m <= l
  BY TimerConstants
<1>6. /\ now \in Nat /\ since \in Nat /\ last_busy_us \in 0..(m - 1) /\ busy_us \in Nat
      /\ spent.asleep \in Nat /\ spent.busy \in Nat
  BY <1>1, <1>5 DEF TimerTypeOK, InWord
<1>7. time_get \in 0..(m - 1) /\ time_get \in InWord /\ (now < m => time_get = now)
  BY <1>5, <1>6, TheCounter DEF time_get, InWord
<1>8. PICK b : b = MinusLong(time_get, last_busy_us)
  OBVIOUS
<1>9. /\ b = ((time_get + l) - last_busy_us) % l
      /\ (time_get + l) - last_busy_us \in Nat /\ (time_get + l) - last_busy_us < 2 * l
  <2>1. time_get + (l - last_busy_us) = (time_get + l) - last_busy_us
    BY <1>5, <1>6, <1>7
  <2>2. b = (time_get + (l - last_busy_us)) % l
    BY <1>5, <1>8 DEF MinusLong
  <2> QED BY <2>1, <2>2, <1>5, <1>6, <1>7
<1>10. b \in 0..(l - 1) /\ (last_busy_us <= time_get => b = time_get - last_busy_us)
  <2>1. b = (IF (time_get + l) - last_busy_us < l THEN (time_get + l) - last_busy_us
                                                 ELSE ((time_get + l) - last_busy_us) - l)
    BY <1>5, <1>9, RemainderOnce
  <2> QED BY <2>1, <1>5, <1>6, <1>7
<1>11. busy_us' = (busy_us + b) % l /\ busy_us + b \in Nat
  BY <1>2, <1>5, <1>6, <1>8, <1>10 DEF BusyAfter
<1>12. TimerTypeOK'
  <2>1. busy_us' \in Nat
    BY <1>5, <1>11, Divides
  <2> QED BY <1>1, <1>2, <1>4, <1>7, <2>1 DEF TimerTypeOK, tickVars
<1>13. IdleExact'
  BY <1>2 DEF IdleExact
<1>14. SleepShort'
  <2>1. Slept' = 0
    <3>1. MinusWord(time_get, time_get) = 0
      BY <1>5, <1>7, Distance
    <3> QED BY <1>2, <3>1, Clockless DEF Slept
  <2>2. idle_us' = (spent'.asleep - Slept') % Long
    <3>1. idle_us = spent.asleep % Long
      BY <1>1, <1>2 DEF IdleExact
    <3>2. spent.asleep - 0 = spent.asleep
      BY <1>6
    <3> QED BY <1>2, <1>4, <2>1, <3>1, <3>2
  <2>3. ~M1 => ToNext \in 1..p
    BY <1>1, <1>2, <1>5 DEF MatchAhead, Pending
  <2> QED BY <1>2, <1>4, <1>5, <1>6, <2>1, <2>2, <2>3 DEF SleepShort
<1>15. BusyKept'
  <2> SUFFICES ASSUME now < m PROVE spent.busy <= now /\ busy_us' = spent.busy
    BY <1>2, <1>4, <1>5 DEF BusyKept, Running, Handling
  <2>1. spent.busy <= now /\ last_busy_us <= now /\ busy_us + (now - last_busy_us) = spent.busy
    BY <1>1, <1>2, <1>5 DEF BusyKept, Running
  <2>2. busy_us + b = spent.busy /\ spent.busy < l
    BY <2>1, <1>5, <1>6, <1>7, <1>10
  <2> QED BY <2>1, <2>2, <1>5, <1>6, <1>11, RemainderOnce
<1> QED BY <1>3, <1>12, <1>13, <1>14, <1>15 DEF TimerIInv

(* What was slept is added, wherever the counter has wrapped.                *)
LEMMA WakeInv == ASSUME TimerIInv, Wake PROVE TimerIInv'
<1> HIDE DEF LowWord, Long, DueAt, MinusWord, time_get, InWord
<1>1. /\ TimerTypeOK /\ MatchAhead /\ NoDrift /\ IdleExact /\ SleepShort /\ BusyKept
  BY DEF TimerIInv
<1>2. /\ pc = "asleep" /\ pc' = "woken" /\ idle_us' = IdleAfter(time_get)
      /\ UNCHANGED <<start, last_busy_us, busy_us>> /\ UNCHANGED clockVars /\ UNCHANGED tickVars
  BY DEF Wake
<1>3. MatchAhead' /\ NoDrift'
  BY <1>2, TickKept
<1>4. now' = now /\ spent' = spent /\ since' = since
  BY <1>2, Clockless
<1>5. LowWord \in Nat \ {0} /\ Long \in Nat \ {0}
  BY TimerConstants
<1>6. now \in Nat /\ spent.asleep \in Nat /\ start \in InWord
  BY <1>1 DEF TimerTypeOK
<1>7. Slept \in Nat /\ Slept <= spent.asleep /\ idle_us = (spent.asleep - Slept) % Long
  <2>1. time_get \in InWord
    BY <1>6, TheCounter DEF time_get
  <2>2. Slept \in Nat
    BY <1>5, <1>6, <2>1, Distance DEF Slept, InWord
  <2> QED BY <2>2, <1>1, <1>2 DEF SleepShort
<1>8. idle_us' = (idle_us + Slept) % Long
  BY <1>2 DEF IdleAfter, Slept
<1>9. idle_us' = spent.asleep % Long
  <2>1. spent.asleep - Slept \in Nat /\ (spent.asleep - Slept) + Slept = spent.asleep
    BY <1>6, <1>7
  <2>2. (((spent.asleep - Slept) % Long) + Slept) % Long = ((spent.asleep - Slept) + Slept) % Long
    BY <2>1, <1>5, <1>7, RemainderSum
  <2> QED BY <2>1, <2>2, <1>7, <1>8
<1>10. idle_us' \in Nat
  BY <1>5, <1>6, <1>9, Divides
<1>11. TimerTypeOK'
  BY <1>1, <1>2, <1>4, <1>10 DEF TimerTypeOK, tickVars
<1>12. IdleExact' /\ SleepShort'
  BY <1>2, <1>4, <1>9 DEF IdleExact, SleepShort
<1>13. BusyKept'
  BY <1>1, <1>2, <1>4 DEF BusyKept, Running, Handling
<1> QED BY <1>3, <1>11, <1>12, <1>13 DEF TimerIInv

LEMMA BusyAgainInv == ASSUME TimerIInv, BusyAgain PROVE TimerIInv'
<1> HIDE DEF LowWord, Long, DueAt, MinusWord, time_get, InWord
<1>1. /\ TimerTypeOK /\ MatchAhead /\ NoDrift /\ IdleExact /\ SleepShort /\ BusyKept
  BY DEF TimerIInv
<1>2. /\ pc = "woken" /\ pc' = "tasks" /\ last_busy_us' = time_get
      /\ UNCHANGED <<start, idle_us, busy_us>> /\ UNCHANGED clockVars /\ UNCHANGED tickVars
  BY DEF BusyAgain
<1>3. MatchAhead' /\ NoDrift'
  BY <1>2, TickKept
<1>4. now' = now /\ spent' = spent /\ since' = since
  BY <1>2, Clockless
<1>5. now \in Nat /\ busy_us \in Nat /\ spent.busy \in Nat
  BY <1>1 DEF TimerTypeOK
<1>6. time_get \in InWord /\ (now < LowWord => time_get = now)
  BY <1>5, TheCounter DEF time_get
<1>7. TimerTypeOK'
  BY <1>1, <1>2, <1>4, <1>6 DEF TimerTypeOK, tickVars, Running
<1>8. IdleExact' /\ SleepShort'
  BY <1>1, <1>2, <1>4 DEF IdleExact, SleepShort
<1>9. BusyKept'
  <2> SUFFICES ASSUME now < LowWord
               PROVE  spent.busy <= now /\ time_get <= now /\ busy_us + (now - time_get) = spent.busy
    BY <1>2, <1>4 DEF BusyKept, Running
  <2>1. spent.busy <= now /\ busy_us = spent.busy
    BY <1>1, <1>2 DEF BusyKept, Running, Handling
  <2> QED BY <2>1, <1>5, <1>6
<1> QED BY <1>3, <1>7, <1>8, <1>9 DEF TimerIInv

LEMMA TimerNextInv == TimerIInv /\ [TimerNext]_timerVars => TimerIInv'
<1> SUFFICES ASSUME TimerIInv, [TimerNext]_timerVars PROVE TimerIInv'
  OBVIOUS
<1>1. CASE UNCHANGED timerVars
  <2>1. /\ UNCHANGED <<now, spent, since, C1, M1, late, served, start, last_busy_us, idle_us, busy_us, pc>>
        /\ UNCHANGED clockVars
    BY <1>1 DEF timerVars, clockVars, tickVars, idleVars
  <2>2. ToNext' = ToNext /\ Elapsed' = Elapsed /\ Slept' = Slept /\ Pending' = Pending
    BY <2>1, Clockless DEF Pending
  <2>3. /\ TimerTypeOK' /\ MatchAhead' /\ NoDrift' /\ IdleExact' /\ SleepShort' /\ BusyKept'
    BY <2>1, <2>2 DEF TimerIInv, TimerTypeOK, MatchAhead, NoDrift, IdleExact, SleepShort, BusyKept
  <2> QED BY <2>3 DEF TimerIInv
<1> QED BY <1>1, CountInv, TakeInv, CompareInv, WriteInv, ClearInv, GoIdleInv, WakeInv, BusyAgainInv
        DEF TimerNext

(* The inductive invariant of the tick and of go_idle.                       *)
THEOREM TimerInvariant == TimerSpec => []TimerIInv
BY TimerInitInv, TimerNextInv, PTL DEF TimerSpec

(* The clock ticks for ever: a match is pending or less than a period away,  *)
(* for any width of the counter and any period up to half its round, as long *)
(* as no handler is late by a whole period; and before the wrap it does not  *)
(* drift.                                                                    *)
THEOREM TimerTicksKept == TimerSpec => []TicksKept
<1>1. TimerIInv => TicksKept
  <2> SUFFICES ASSUME TimerIInv, pc = "tasks"
               PROVE  /\ Start + (served + 1) * TICK_TIME_US < LowWord =>
                           C1 = Start + (served + 1) * TICK_TIME_US
                      /\ M1 \/ MinusWord(C1, time_get) \in 1..TICK_TIME_US
    BY DEF TicksKept
  <2>1. /\ DueAt(served + 1) < LowWord => C1 = DueAt(served + 1)
        /\ M1 \/ ToNext \in 1..TICK_TIME_US
    BY DEF TimerIInv, NoDrift, MatchAhead, Pending
  <2> QED BY <2>1 DEF DueAt, ToNext
<1> QED BY <1>1, TimerInvariant, PTL

(* Idle time is exact across any wrap of the counter, and busy time until    *)
(* the first one.                                                            *)
THEOREM TimerAccountsExact == TimerSpec => []AccountsExact
<1>1. TimerIInv => AccountsExact
  BY DEF TimerIInv, AccountsExact, BusyExact, BusyKept, Running, Handling
<1> QED BY <1>1, TimerInvariant, PTL
=============================================================================
