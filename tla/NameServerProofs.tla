-------------------------- MODULE NameServerProofs --------------------------
(***************************************************************************)
(* For any clients and any programs of calls: a lookup finds a task that   *)
(* has registered the name, and no call is forgotten by the server.        *)
(***************************************************************************)
EXTENDS NameServer, QueueLemmas, FiniteSetTheorems

LEMMA CallFacts ==
  ASSUME NEW t \in Tasks, NEW k \in DOMAIN Calls[t], NEW c \in Calls[t][k]
  PROVE  /\ c \in Call
         /\ c.op \in {"register", "whois", "other", "create"}
         /\ c.op # "create" => c.name \in Names
         /\ c.op = "create" => c.task \in Tasks
<1>1. Calls[t] \in Seq(SUBSET Call)
  BY NamesAssumption
<1>2. Calls[t][k] \in SUBSET Call
  BY <1>1, ElementOfSeq, LenProperties
<1>3. c \in Call
  BY <1>2
<1> QED BY <1>3 DEF Call

\* Nothing is forgotten of who has registered.
LEMMA RegisteredGrows ==
  ASSUME TypeOK, pc' \in [Tasks -> Nat \ {0}], \A t \in Tasks : pc'[t] >= pc[t]
  PROVE  \A n : Registered(n) \subseteq Registered(n)'
<1> SUFFICES ASSUME NEW n, NEW t \in Tasks,
                    NEW k \in 1 .. (pc[t] - 1), NEW c \in Calls[t][k], c.op = "register", c.name = n
             PROVE  t \in Registered(n)'
  BY DEF Registered
<1>1. k \in 1 .. (pc'[t] - 1)
  BY DEF TypeOK
<1> QED BY <1>1 DEF Registered

\* A queue or a map that lacks one of few elements has room for it.
LEMMA QueueRoom ==
  ASSUME NEW S, IsFiniteSet(S), Cardinality(S) <= MAX_NAMES,
         NEW s \in Seq(S), IsInjective(s), NEW e \in S, e \notin Range(s)
  PROVE  Len(s) < MAX_NAMES
<1>1. IsFiniteSet(S \ {e}) /\ Cardinality(S \ {e}) = Cardinality(S) - 1 /\ Cardinality(S) \in Nat
  BY FS_RemoveElement, FS_CardinalityType
<1>2. Len(s) \in Nat /\ DOMAIN s = 1 .. Len(s) /\ s \in [1 .. Len(s) -> S]
  BY LenProperties
<1>3. \A i \in 1 .. Len(s) : s[i] \in S \ {e}
  BY <1>2 DEF Range
<1>4. s \in Injection(1 .. Len(s), S \ {e})
  <2>1. s \in [1 .. Len(s) -> S \ {e}]
    BY <1>2, <1>3
  <2> QED BY <2>1 DEF Injection
<1>5. Cardinality(1 .. Len(s)) <= Cardinality(S \ {e})
  BY <1>1, <1>4, FS_Injection
<1>6. Cardinality(1 .. Len(s)) = Len(s)
  BY <1>2, FS_Interval
<1> QED BY <1>1, <1>2, <1>5, <1>6, NamesAssumption

LEMMA MapRoom ==
  ASSUME EnoughRoom, NEW D \in SUBSET Names, NEW n \in Names, n \notin D
  PROVE  Cardinality(D) < MAX_NAMES
<1>1. IsFiniteSet(Names \ {n}) /\ Cardinality(Names \ {n}) = Cardinality(Names) - 1
      /\ Cardinality(Names) \in Nat
  BY FS_RemoveElement, FS_CardinalityType DEF EnoughRoom
<1>2. D \in SUBSET (Names \ {n})
  OBVIOUS
<1>3. IsFiniteSet(D) /\ Cardinality(D) <= Cardinality(Names \ {n})
  BY <1>1, <1>2, FS_Subset
<1>4. Cardinality(D) \in Nat
  BY <1>3, FS_CardinalityType
<1> QED BY <1>1, <1>3, <1>4, NamesAssumption DEF EnoughRoom

\* What a map holds after a set: the new value, or what it held when it was full.
MapOf(S, map) == map \in [DOMAIN map -> S] /\ DOMAIN map \subseteq Names
IsSet(map, new, n, v) ==
  /\ DOMAIN map \subseteq DOMAIN new /\ DOMAIN new \subseteq DOMAIN map \cup {n}
  /\ new = map \/ (\A k \in DOMAIN new : new[k] = IF k = n THEN v ELSE map[k])
  /\ EnoughRoom => n \in DOMAIN new /\ new[n] = v

LEMMA SetFacts ==
  ASSUME NEW S, NEW map, MapOf(S, map), NEW n \in Names, NEW v \in S, NEW new, new = SetIn(map, n, v)
  PROVE  MapOf(S, new) /\ IsSet(map, new, n, v)
<1> USE DEF MapOf, IsSet
<1>1. CASE n \in DOMAIN map \/ Cardinality(DOMAIN map) < MAX_NAMES
  <2>1. new = [k \in DOMAIN map \cup {n} |-> IF k = n THEN v ELSE map[k]]
    BY <1>1 DEF SetIn
  <2>2. DOMAIN new = DOMAIN map \cup {n} /\ \A k \in DOMAIN new : new[k] = IF k = n THEN v ELSE map[k]
    BY <2>1
  <2>3. new \in [DOMAIN new -> S]
    BY <2>1
  <2> QED BY <2>2, <2>3
<1>2. CASE ~(n \in DOMAIN map \/ Cardinality(DOMAIN map) < MAX_NAMES)
  <2>1. new = map
    BY <1>2 DEF SetIn
  <2>2. ~EnoughRoom
    BY <1>2, MapRoom
  <2> QED BY <2>1, <2>2
<1> QED BY <1>1, <1>2
-----------------------------------------------------------------------------
LEMMA InitInv == Init => IInv
<1> SUFFICES ASSUME Init PROVE IInv
  OBVIOUS
<1>1. <<>> \in Seq(Tasks) /\ DOMAIN <<>> = {} /\ Range(<<>>) = {} /\ IsInjective(<<>>)
  BY QueueEmpty
<1>2. TypeOK
  <2>1. name_to_tid \in [DOMAIN name_to_tid -> Tasks] /\ waiting_who_is \in [DOMAIN waiting_who_is -> Seq(Tasks)]
    BY <1>1 DEF Init
  <2> QED BY <1>1, <2>1 DEF Init, TypeOK
<1>3. ClientsKnown
  BY DEF Init, ClientsKnown
<1> QED BY <1>1, <1>2, <1>3
        DEF Init, IInv, InboxSound, WaitersSound, NamesSound, ServersFound, NoCallForgotten
-----------------------------------------------------------------------------
LEMMA RequestInv ==
  ASSUME IInv, NEW t \in Tasks, Request(t) PROVE IInv'
<1> USE DEF IInv
<1>1. PICK c \in Calls[t][pc[t]] : c.op # "create" /\ msg' = [msg EXCEPT ![t] = c]
  BY DEF Request
<1>2. pc[t] \in DOMAIN Calls[t]
  <2>1. Calls[t] \in Seq(SUBSET Call)
    BY NamesAssumption
  <2>2. pc[t] \in Nat \ {0} /\ ~(pc[t] > Len(Calls[t]))
    BY DEF Request, Done, TypeOK
  <2> QED BY <2>1, <2>2, LenProperties
<1>3. c \in Call
  BY <1>2, CallFacts
<1>4. status[t] = "ready" /\ status' = [status EXCEPT ![t] = "queued"]
      /\ inbox' = Append(inbox, t)
      /\ name_to_tid' = name_to_tid /\ waiting_who_is' = waiting_who_is /\ pc' = pc /\ answer' = answer
  BY DEF Request
<1>5. TypeOK'
  <2>1. Append(inbox, t) \in Seq(Tasks)
    BY AppendProperties DEF TypeOK
  <2> QED BY <1>1, <1>3, <1>4, <2>1 DEF TypeOK
<1>6. Range(inbox') = Range(inbox) \cup {t} /\ t \notin Range(inbox) /\ IsInjective(inbox')
  BY <1>4, QueueAppend DEF TypeOK, InboxSound
<1>7. \A u \in Tasks : /\ status'[u] = IF u = t THEN "queued" ELSE status[u]
                       /\ msg'[u] = IF u = t THEN c ELSE msg[u]
  BY <1>1, <1>4 DEF TypeOK
<1>8. ClientsKnown'
  BY <1>1, <1>2, <1>4, <1>7 DEF ClientsKnown, Asks
<1>9. InboxSound'
  <2>1. \A u \in Range(inbox) : u \in Tasks
    BY RangeOfSeq DEF TypeOK
  <2> QED BY <1>6, <1>7, <2>1 DEF InboxSound
<1>10. WaitersSound'
  <2>1. \A n \in DOMAIN waiting_who_is : \A u \in Range(waiting_who_is[n]) : u \in Tasks /\ u # t
    BY <1>4, RangeOfSeq DEF TypeOK, WaitersSound, WaitsFor
  <2> QED BY <1>4, <1>7, <2>1 DEF WaitersSound, WaitsFor
<1>11. \A n : Registered(n)' = Registered(n)
  BY <1>4 DEF Registered
<1>12. NamesSound' /\ ServersFound'
  BY <1>4, <1>7, <1>11 DEF NamesSound, ServersFound
<1>13. NoCallForgotten'
  BY <1>4, <1>6, <1>7 DEF NoCallForgotten, EnoughRoom
<1> QED BY <1>5, <1>8, <1>9, <1>10, <1>12, <1>13

LEMMA CreateInv ==
  ASSUME IInv, NEW t \in Tasks, Create(t) PROVE IInv'
<1> USE DEF IInv
<1>1. PICK c \in Calls[t][pc[t]] :
        c.op = "create" /\ status[c.task] = "absent" /\ status' = [status EXCEPT ![c.task] = "ready"]
  BY DEF Create
<1>2. pc[t] \in DOMAIN Calls[t]
  <2>1. Calls[t] \in Seq(SUBSET Call)
    BY NamesAssumption
  <2>2. pc[t] \in Nat \ {0} /\ ~(pc[t] > Len(Calls[t]))
    BY DEF Create, Done, TypeOK
  <2> QED BY <2>1, <2>2, LenProperties
<1>3. PICK u \in Tasks : u = c.task
  BY <1>1, <1>2, CallFacts
<1>4. status[t] = "ready" /\ pc' = [pc EXCEPT ![t] = @ + 1]
      /\ name_to_tid' = name_to_tid /\ waiting_who_is' = waiting_who_is
      /\ inbox' = inbox /\ msg' = msg /\ answer' = answer
  BY DEF Create
<1>5. \A v \in Tasks : /\ status'[v] = IF v = u THEN "ready" ELSE status[v]
                       /\ pc'[v] = IF v = t THEN pc[t] + 1 ELSE pc[v]
  BY <1>1, <1>3, <1>4 DEF TypeOK
<1>6. TypeOK'
  BY <1>1, <1>3, <1>4 DEF TypeOK
<1>7. \A n : Registered(n) \subseteq Registered(n)'
  <2>1. pc' \in [Tasks -> Nat \ {0}] /\ \A v \in Tasks : pc[v] \in Nat
    BY <1>6 DEF TypeOK
  <2>2. \A v \in Tasks : pc'[v] >= pc[v]
    BY <1>5, <2>1
  <2> QED BY <2>1, <2>2, RegisteredGrows
<1>8. status[u] = "absent" /\ msg[u] = None
  BY <1>1, <1>3 DEF ClientsKnown
<1>9. ClientsKnown'
  BY <1>4, <1>5, <1>8 DEF ClientsKnown, Asks
<1>10. InboxSound'
  BY <1>4, <1>5, <1>8, RangeOfSeq DEF InboxSound, TypeOK
<1>11. WaitersSound'
  <2>1. \A n \in DOMAIN waiting_who_is : \A v \in Range(waiting_who_is[n]) : v \in Tasks /\ v # u
    BY <1>8, RangeOfSeq DEF TypeOK, WaitersSound, WaitsFor
  <2> QED BY <1>4, <1>5, <2>1 DEF WaitersSound, WaitsFor
<1>12. NamesSound' /\ ServersFound'
  BY <1>4, <1>5, <1>7, <1>8 DEF NamesSound, ServersFound
<1>13. NoCallForgotten'
  BY <1>4, <1>5, <1>8 DEF NoCallForgotten, EnoughRoom
<1> QED BY <1>6, <1>9, <1>10, <1>11, <1>12, <1>13
-----------------------------------------------------------------------------
(* The server.  What Reply does to tasks whose calls it answers.            *)
Answered(tids, a) ==
  /\ \A u \in tids : Asks(u) /\ status[u] # "absent"
  /\ \A u \in tids : msg[u].op = "whois" => a \in Registered(msg[u].name)'

LEMMA ReplyFacts ==
  ASSUME TypeOK, ClientsKnown, ServersFound, NEW tids \in SUBSET Tasks, NEW a \in Tasks \cup {None},
         Reply(tids, a), msg' = msg, Answered(tids, a)
  PROVE  /\ status' \in [Tasks -> {"absent", "ready", "queued", "waiting"}]
         /\ pc' \in [Tasks -> Nat \ {0}] /\ answer' \in [Tasks -> Tasks \cup {None}]
         /\ \A u \in Tasks : /\ status'[u] = IF u \in tids THEN "ready" ELSE status[u]
                             /\ pc'[u] = IF u \in tids THEN pc[u] + 1 ELSE pc[u]
         /\ \A n : Registered(n) \subseteq Registered(n)'
         /\ ClientsKnown' /\ ServersFound'
<1>1. \A u \in Tasks :
        /\ status'[u] = IF u \in tids THEN "ready" ELSE status[u]
        /\ pc'[u] = IF u \in tids THEN pc[u] + 1 ELSE pc[u]
        /\ answer'[u] = IF u \in tids /\ msg[u].op = "whois" THEN a ELSE answer[u]
  BY DEF Reply
<1>2. status' \in [Tasks -> {"absent", "ready", "queued", "waiting"}] /\ pc' \in [Tasks -> Nat \ {0}]
      /\ answer' \in [Tasks -> Tasks \cup {None}]
  BY DEF Reply, TypeOK
<1>3. \A n : Registered(n) \subseteq Registered(n)'
  <2>1. \A u \in Tasks : pc[u] \in Nat
    BY DEF TypeOK
  <2>2. \A u \in Tasks : pc'[u] >= pc[u]
    BY <1>1, <2>1
  <2> QED BY <1>2, <2>2, RegisteredGrows
<1>4. ClientsKnown'
  BY <1>1 DEF ClientsKnown, Asks, Answered
<1>5. ServersFound'
  <2> SUFFICES ASSUME NEW u \in Tasks, msg'[u] # None, status'[u] = "ready", msg'[u].op = "whois"
               PROVE  answer'[u] \in Registered(msg[u].name)'
    BY DEF ServersFound
  <2>1. CASE u \in tids
    BY <1>1, <2>1 DEF Answered
  <2>2. CASE u \notin tids
    BY <1>1, <1>3, <2>2 DEF ServersFound
  <2> QED BY <2>1, <2>2
<1> QED BY <1>1, <1>2, <1>3, <1>4, <1>5

\* The task at the head of the queue, whose call is served.
LEMMA ServedFacts ==
  ASSUME IInv, inbox # <<>>, inbox' = Tail(inbox), NEW t, t = Head(inbox)
  PROVE  /\ t \in Tasks /\ status[t] = "queued" /\ Asks(t)
         /\ msg[t].op \in {"register", "whois", "other"} /\ msg[t].name \in Names
         /\ Tail(inbox) \in Seq(Tasks) /\ IsInjective(Tail(inbox))
         /\ Range(Tail(inbox)) = Range(inbox) \ {t}
         /\ \A n \in DOMAIN waiting_who_is : t \notin Range(waiting_who_is[n])
<1> USE DEF IInv
<1>1. t \in Range(inbox) /\ IsInjective(Tail(inbox)) /\ Range(Tail(inbox)) = Range(inbox) \ {t}
  BY QueueTail DEF TypeOK, InboxSound
<1>2. t \in Tasks /\ Tail(inbox) \in Seq(Tasks)
  BY HeadTailProperties DEF TypeOK
<1>3. status[t] = "queued" /\ Asks(t)
  BY <1>1, <1>2 DEF InboxSound, ClientsKnown
<1>4. msg[t].op \in {"register", "whois", "other"} /\ msg[t].name \in Names
  BY <1>2, <1>3, CallFacts DEF Asks
<1>5. \A n \in DOMAIN waiting_who_is : t \notin Range(waiting_who_is[n])
  BY <1>3 DEF WaitersSound, WaitsFor
<1> QED BY <1>1, <1>2, <1>3, <1>4, <1>5

LEMMA RegisterInv ==
  ASSUME IInv, inbox # <<>>, inbox' = Tail(inbox), NEW t, t = Head(inbox), NEW n, n = msg[t].name,
         msg[t].op = "register", HandleRegister(t, n), msg' = msg
  PROVE  IInv'
<1> USE DEF IInv
<1>1. /\ t \in Tasks /\ status[t] = "queued" /\ Asks(t) /\ n \in Names
      /\ Tail(inbox) \in Seq(Tasks) /\ IsInjective(Tail(inbox)) /\ Range(Tail(inbox)) = Range(inbox) \ {t}
      /\ \A m \in DOMAIN waiting_who_is : t \notin Range(waiting_who_is[m])
  BY ServedFacts
<1>2. PICK tids : tids = Woken(t, n)
  OBVIOUS
<1>3. WaitingOn(n) \in Seq(Tasks) /\ \A u \in Range(WaitingOn(n)) : WaitsFor(u, n)
  <2>1. CASE n \in DOMAIN waiting_who_is
    BY <2>1 DEF WaitingOn, TypeOK, WaitersSound
  <2>2. CASE n \notin DOMAIN waiting_who_is
    BY <2>2, QueueEmpty DEF WaitingOn
  <2> QED BY <2>1, <2>2
<1>4. tids = {t} \cup Range(WaitingOn(n)) /\ tids \in SUBSET Tasks
  BY <1>1, <1>2, <1>3, RangeOfSeq DEF Woken
<1>5. Reply(tids, t) /\ name_to_tid' = SetIn(name_to_tid, n, t)
      /\ waiting_who_is' = [m \in DOMAIN waiting_who_is \ {n} |-> waiting_who_is[m]]
  BY <1>2 DEF HandleRegister, Answer, AfterWaking, Restrict
<1>6. t \in Registered(n)'
  <2>1. pc'[t] = pc[t] + 1 /\ pc[t] \in 1 .. (pc'[t] - 1)
    BY <1>1, <1>4, <1>5 DEF Reply, TypeOK
  <2> QED BY <1>1, <2>1 DEF Registered, Asks
<1>7. Answered(tids, t)
  <2>1. \A u \in Range(WaitingOn(n)) : status[u] = "waiting" /\ u \in Tasks /\ msg[u].name = n
    BY <1>3, <1>4 DEF WaitsFor
  <2>2. \A u \in Range(WaitingOn(n)) : Asks(u)
    BY <2>1 DEF ClientsKnown
  <2> QED BY <1>1, <1>4, <1>6, <2>1, <2>2 DEF Answered
<1>8. /\ status' \in [Tasks -> {"absent", "ready", "queued", "waiting"}]
      /\ pc' \in [Tasks -> Nat \ {0}] /\ answer' \in [Tasks -> Tasks \cup {None}]
      /\ \A u \in Tasks : status'[u] = IF u \in tids THEN "ready" ELSE status[u]
      /\ \A m : Registered(m) \subseteq Registered(m)'
      /\ ClientsKnown' /\ ServersFound'
  BY <1>1, <1>4, <1>5, <1>7, ReplyFacts
<1>9. /\ name_to_tid' \in [DOMAIN name_to_tid' -> Tasks] /\ DOMAIN name_to_tid' \subseteq Names
      /\ DOMAIN name_to_tid' \subseteq DOMAIN name_to_tid \cup {n}
      /\ \/ name_to_tid' = name_to_tid
         \/ \A k \in DOMAIN name_to_tid' : name_to_tid'[k] = IF k = n THEN t ELSE name_to_tid[k]
  <2>1. MapOf(Tasks, name_to_tid)
    BY DEF TypeOK, MapOf
  <2>2. MapOf(Tasks, name_to_tid') /\ IsSet(name_to_tid, name_to_tid', n, t)
    BY <1>1, <1>5, <2>1, SetFacts
  <2> QED BY <2>2 DEF MapOf, IsSet
<1>10. TypeOK'
  <2>1. waiting_who_is' \in [DOMAIN waiting_who_is' -> Seq(Tasks)] /\ DOMAIN waiting_who_is' \subseteq Names
    BY <1>5 DEF TypeOK
  <2> QED BY <1>1, <1>8, <1>9, <2>1 DEF TypeOK
<1>11. NamesSound'
  BY <1>6, <1>8, <1>9 DEF NamesSound
<1>12. \A m \in DOMAIN waiting_who_is \ {n} : \A u \in Range(waiting_who_is[m]) : u \in Tasks /\ u \notin tids
  <2> SUFFICES ASSUME NEW m \in DOMAIN waiting_who_is \ {n}, NEW u \in Range(waiting_who_is[m])
               PROVE  u \in Tasks /\ u \notin tids
    OBVIOUS
  <2>1. u \in Tasks /\ u # t
    BY <1>1, RangeOfSeq DEF TypeOK
  <2>2. msg[u].name = m
    BY DEF WaitersSound, WaitsFor
  <2>3. u \notin Range(WaitingOn(n))
    BY <1>3, <2>2 DEF WaitsFor
  <2> QED BY <1>4, <2>1, <2>3
<1>13. WaitersSound'
  <2>1. DOMAIN waiting_who_is' = DOMAIN waiting_who_is \ {n}
        /\ \A m \in DOMAIN waiting_who_is \ {n} : waiting_who_is'[m] = waiting_who_is[m]
    BY <1>5
  <2> QED BY <1>8, <1>12, <2>1 DEF WaitersSound, WaitsFor
<1>14. InboxSound'
  <2>1. \A u \in Range(Tail(inbox)) : u \in Tasks /\ u \notin tids /\ status[u] = "queued"
    BY <1>1, <1>3, <1>4, RangeOfSeq DEF InboxSound, WaitsFor
  <2> QED BY <1>1, <1>8, <2>1 DEF InboxSound
<1>15. NoCallForgotten'
  <2> SUFFICES ASSUME EnoughRoom, NEW u \in Tasks
               PROVE  /\ status'[u] = "queued" => u \in Range(inbox')
                      /\ status'[u] = "waiting" =>
                           \E m \in DOMAIN waiting_who_is' \ DOMAIN name_to_tid' : u \in Range(waiting_who_is'[m])
    BY DEF NoCallForgotten, EnoughRoom
  <2>1. ASSUME status'[u] = "queued" PROVE u \in Range(inbox')
    BY <1>1, <1>4, <1>8, <2>1 DEF NoCallForgotten
  <2>2. ASSUME status'[u] = "waiting"
        PROVE  \E m \in DOMAIN waiting_who_is' \ DOMAIN name_to_tid' : u \in Range(waiting_who_is'[m])
    <3>1. u \notin tids /\ status[u] = "waiting"
      BY <1>8, <2>2
    <3>2. PICK m \in DOMAIN waiting_who_is \ DOMAIN name_to_tid : u \in Range(waiting_who_is[m])
      BY <3>1 DEF NoCallForgotten
    <3>3. m # n
      BY <1>4, <3>1, <3>2 DEF WaitingOn
    <3> QED BY <1>5, <1>9, <3>2, <3>3
  <2> QED BY <2>1, <2>2
<1> QED BY <1>8, <1>10, <1>11, <1>13, <1>14, <1>15

\* An answer to one task: of a lookup that finds its name, or of another message.
LEMMA AnswerInv ==
  ASSUME IInv, inbox # <<>>, inbox' = Tail(inbox), NEW t, t = Head(inbox), msg' = msg,
         NEW a \in Tasks \cup {None}, Reply({t}, a),
         msg[t].op = "whois" => a \in Registered(msg[t].name),
         UNCHANGED <<name_to_tid, waiting_who_is>>
  PROVE  IInv'
<1> USE DEF IInv
<1>1. /\ t \in Tasks /\ status[t] = "queued" /\ Asks(t)
      /\ Tail(inbox) \in Seq(Tasks) /\ IsInjective(Tail(inbox)) /\ Range(Tail(inbox)) = Range(inbox) \ {t}
      /\ \A m \in DOMAIN waiting_who_is : t \notin Range(waiting_who_is[m])
  BY ServedFacts
<1>2. \A m : Registered(m) \subseteq Registered(m)'
  <2>1. pc' \in [Tasks -> Nat \ {0}] /\ \A u \in Tasks : pc'[u] >= pc[u]
    BY DEF Reply, TypeOK
  <2> QED BY <2>1, RegisteredGrows
<1>3. Answered({t}, a)
  BY <1>1, <1>2 DEF Answered
<1>4. /\ status' \in [Tasks -> {"absent", "ready", "queued", "waiting"}]
      /\ pc' \in [Tasks -> Nat \ {0}] /\ answer' \in [Tasks -> Tasks \cup {None}]
      /\ \A u \in Tasks : status'[u] = IF u = t THEN "ready" ELSE status[u]
      /\ ClientsKnown' /\ ServersFound'
  <2>1. {t} \in SUBSET Tasks /\ \A u \in Tasks : u \in {t} <=> u = t
    BY <1>1
  <2> QED BY <1>3, <2>1, ReplyFacts
<1>5. TypeOK'
  BY <1>1, <1>4 DEF TypeOK
<1>6. NamesSound'
  BY <1>2 DEF NamesSound
<1>7. InboxSound'
  <2>1. \A u \in Range(Tail(inbox)) : u \in Tasks /\ u # t /\ status[u] = "queued"
    BY <1>1, RangeOfSeq DEF InboxSound
  <2> QED BY <1>1, <1>4, <2>1 DEF InboxSound
<1>8. WaitersSound'
  <2>1. \A m \in DOMAIN waiting_who_is : \A u \in Range(waiting_who_is[m]) : u \in Tasks /\ u # t
    BY <1>1, RangeOfSeq DEF TypeOK
  <2> QED BY <1>4, <2>1 DEF WaitersSound, WaitsFor
<1>9. NoCallForgotten'
  BY <1>1, <1>4 DEF NoCallForgotten, EnoughRoom
<1> QED BY <1>4, <1>5, <1>6, <1>7, <1>8, <1>9

\* A lookup of a name that is not known is held.
LEMMA HoldInv ==
  ASSUME IInv, inbox # <<>>, inbox' = Tail(inbox), NEW t, t = Head(inbox), msg' = msg,
         NEW n, n = msg[t].name, msg[t].op = "whois", n \notin DOMAIN name_to_tid,
         waiting_who_is' = SetIn(waiting_who_is, n, Push(WaitingOn(n), t)),
         status' = [status EXCEPT ![t] = "waiting"], UNCHANGED <<name_to_tid, pc, answer>>
  PROVE  IInv'
<1> USE DEF IInv
<1>1. /\ t \in Tasks /\ status[t] = "queued" /\ Asks(t) /\ n \in Names
      /\ Tail(inbox) \in Seq(Tasks) /\ IsInjective(Tail(inbox)) /\ Range(Tail(inbox)) = Range(inbox) \ {t}
      /\ \A m \in DOMAIN waiting_who_is : t \notin Range(waiting_who_is[m])
  BY ServedFacts
<1>2. \A u \in Tasks : status'[u] = IF u = t THEN "waiting" ELSE status[u]
  BY DEF TypeOK
<1>3. PICK w, b : w = WaitingOn(n) /\ b = Push(w, t)
  OBVIOUS
<1>4. w \in Seq(Tasks) /\ IsInjective(w) /\ t \notin Range(w) /\ \A u \in Range(w) : u \in Tasks /\ WaitsFor(u, n)
  <2>1. CASE n \in DOMAIN waiting_who_is
    BY <1>1, <1>3, <2>1, RangeOfSeq DEF WaitingOn, TypeOK, WaitersSound
  <2>2. CASE n \notin DOMAIN waiting_who_is
    BY <1>3, <2>2, QueueEmpty DEF WaitingOn
  <2> QED BY <2>1, <2>2
<1>5. Append(w, t) \in Seq(Tasks) /\ IsInjective(Append(w, t)) /\ Range(Append(w, t)) = Range(w) \cup {t}
  BY <1>1, <1>4, QueueAppend, AppendProperties
<1>6. b \in Seq(Tasks) /\ IsInjective(b) /\ Range(b) \subseteq Range(w) \cup {t} /\ Range(w) \subseteq Range(b)
      /\ (EnoughRoom => t \in Range(b))
  <2>1. b = Append(w, t) \/ (b = w /\ ~(Len(w) < MAX_NAMES))
    BY <1>3 DEF Push
  <2>2. EnoughRoom => Len(w) < MAX_NAMES
    BY <1>1, <1>4, QueueRoom DEF EnoughRoom
  <2> QED BY <1>4, <1>5, <2>1, <2>2
<1>7. /\ waiting_who_is' \in [DOMAIN waiting_who_is' -> Seq(Tasks)] /\ DOMAIN waiting_who_is' \subseteq Names
      /\ DOMAIN waiting_who_is \subseteq DOMAIN waiting_who_is'
      /\ \/ waiting_who_is' = waiting_who_is
         \/ /\ DOMAIN waiting_who_is' \subseteq DOMAIN waiting_who_is \cup {n}
            /\ \A k \in DOMAIN waiting_who_is' : waiting_who_is'[k] = IF k = n THEN b ELSE waiting_who_is[k]
      /\ EnoughRoom => n \in DOMAIN waiting_who_is' /\ waiting_who_is'[n] = b
  <2>1. MapOf(Seq(Tasks), waiting_who_is)
    BY DEF TypeOK, MapOf
  <2>2. waiting_who_is' = SetIn(waiting_who_is, n, b)
    BY <1>3
  <2>3. MapOf(Seq(Tasks), waiting_who_is') /\ IsSet(waiting_who_is, waiting_who_is', n, b)
    BY <1>1, <1>6, <2>1, <2>2, SetFacts
  <2> QED BY <2>3 DEF MapOf, IsSet
<1>8. TypeOK'
  BY <1>1, <1>7 DEF TypeOK
<1>9. ClientsKnown'
  BY <1>1, <1>2 DEF ClientsKnown, Asks
<1>10. \A m : Registered(m)' = Registered(m)
  BY DEF Registered
<1>11. NamesSound' /\ ServersFound'
  BY <1>2, <1>10 DEF NamesSound, ServersFound
<1>12. InboxSound'
  <2>1. \A u \in Range(Tail(inbox)) : u \in Tasks /\ u # t /\ status[u] = "queued"
    BY <1>1, RangeOfSeq DEF InboxSound
  <2> QED BY <1>1, <1>2, <2>1 DEF InboxSound
<1>13. WaitsFor(t, n)' /\ \A m : \A u \in Tasks : WaitsFor(u, m) => WaitsFor(u, m)'
  BY <1>1, <1>2 DEF WaitsFor
<1>14. WaitersSound'
  <2> SUFFICES ASSUME NEW k \in DOMAIN waiting_who_is'
               PROVE  IsInjective(waiting_who_is'[k]) /\ \A u \in Range(waiting_who_is'[k]) : WaitsFor(u, k)'
    BY DEF WaitersSound
  <2>1. CASE k \in DOMAIN waiting_who_is /\ waiting_who_is'[k] = waiting_who_is[k]
    BY <1>13, <2>1, RangeOfSeq DEF WaitersSound, TypeOK
  <2>2. CASE k = n /\ waiting_who_is'[k] = b
    BY <1>4, <1>6, <1>13, <2>2
  <2> QED BY <1>7, <2>1, <2>2
<1>15. NoCallForgotten'
  <2> SUFFICES ASSUME EnoughRoom, NEW u \in Tasks
               PROVE  /\ status'[u] = "queued" => u \in Range(inbox')
                      /\ status'[u] = "waiting" =>
                           \E m \in DOMAIN waiting_who_is' \ DOMAIN name_to_tid' : u \in Range(waiting_who_is'[m])
    BY DEF NoCallForgotten, EnoughRoom
  <2>1. ASSUME status'[u] = "queued" PROVE u \in Range(inbox')
    BY <1>1, <1>2, <2>1 DEF NoCallForgotten
  <2>2. ASSUME status'[u] = "waiting", u # t
        PROVE  \E m \in DOMAIN waiting_who_is' \ DOMAIN name_to_tid' : u \in Range(waiting_who_is'[m])
    <3>1. PICK m \in DOMAIN waiting_who_is \ DOMAIN name_to_tid : u \in Range(waiting_who_is[m])
      BY <1>2, <2>2 DEF NoCallForgotten
    <3>2. CASE m = n
      BY <1>3, <1>6, <1>7, <3>1, <3>2 DEF WaitingOn
    <3>3. CASE m # n
      BY <1>7, <3>1, <3>3
    <3> QED BY <3>2, <3>3
  <2>3. CASE u = t
    BY <1>2, <1>6, <1>7, <2>3
  <2> QED BY <2>1, <2>2, <2>3
<1> QED BY <1>8, <1>9, <1>11, <1>12, <1>14, <1>15

LEMMA ServeInv == ASSUME IInv, Serve PROVE IInv'
<1>1. PICK t, n : t = Head(inbox) /\ n = msg[t].name
  OBVIOUS
<1>2. inbox # <<>> /\ inbox' = Tail(inbox) /\ msg' = msg
  BY DEF Serve
<1>3. CASE msg[t].op = "register" /\ HandleRegister(t, n)
  BY <1>1, <1>2, <1>3, RegisterInv
<1>4. CASE msg[t].op = "whois" /\ HandleWhoIs(t, n)
  <2>1. CASE n \in DOMAIN name_to_tid /\ Reply({t}, name_to_tid[n]) /\ UNCHANGED <<name_to_tid, waiting_who_is>>
    <3>1. name_to_tid[n] \in Registered(n) /\ name_to_tid[n] \in Tasks
      BY <2>1 DEF IInv, NamesSound, TypeOK
    <3> QED BY <1>1, <1>2, <2>1, <3>1, AnswerInv
  <2>2. CASE /\ n \notin DOMAIN name_to_tid
             /\ waiting_who_is' = SetIn(waiting_who_is, n, Push(WaitingOn(n), t))
             /\ status' = [status EXCEPT ![t] = "waiting"]
             /\ UNCHANGED <<name_to_tid, pc, answer>>
    BY <1>1, <1>2, <1>4, <2>2, HoldInv
  <2> QED BY <1>4, <2>1, <2>2 DEF HandleWhoIs
<1>5. CASE msg[t].op = "other" /\ HandleOther(t)
  BY <1>1, <1>2, <1>5, AnswerInv DEF HandleOther
<1> QED BY <1>1, <1>3, <1>4, <1>5 DEF Serve

LEMMA StutterInv == ASSUME IInv, UNCHANGED vars PROVE IInv'
BY DEF vars, IInv, TypeOK, ClientsKnown, Asks, InboxSound, WaitersSound, WaitsFor, NamesSound,
       ServersFound, Registered, NoCallForgotten, EnoughRoom
-----------------------------------------------------------------------------
(* The invariant: the server's maps and queue say of every client what its  *)
(* state and its message say, name_to_tid holds only tasks that registered. *)
THEOREM NamesInvariant == Spec => []IInv
<1>1. IInv /\ [Next]_vars => IInv'
  BY RequestInv, CreateInv, ServeInv, StutterInv DEF Next
<1> QED BY InitInv, <1>1, PTL DEF Spec

(* WhoIs returns only a task that has registered the name, whether it was   *)
(* called before the registration or after.                                 *)
THEOREM LookupsFindServers == Spec => []ServersFound
<1>1. IInv => ServersFound
  BY DEF IInv
<1> QED BY NamesInvariant, <1>1, PTL

(* With room for all tasks and names, as in the program with its 32 of each *)
(* per map and buffer, a call that has not returned is in the server's      *)
(* queue, or is a lookup on record whose name is not registered.            *)
THEOREM LookupsKept == Spec => []NoCallForgotten
<1>1. IInv => NoCallForgotten
  BY DEF IInv
<1> QED BY NamesInvariant, <1>1, PTL
=============================================================================
