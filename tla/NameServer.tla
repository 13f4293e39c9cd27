----------------------------- MODULE NameServer -----------------------------
(***************************************************************************)
(* The name server and its clients.  The server is one task that receives, *)
(* handles and replies in turn; while it handles a message the clients it  *)
(* replies to can at most queue another one, so a handler is one step.     *)
(* Clients are the programs of "Calls": at its k-th call a task makes one  *)
(* of the calls in Calls[t][k].  RegisterAs and WhoIs block in Send until  *)
(* the server replies; create only makes another task runnable.            *)
(***************************************************************************)
EXTENDS Naturals, Sequences, FiniteSets, Functions

CONSTANTS
  Tasks,      \* tids of the clients
  Names,
  Calls,      \* Calls[t] : sequence of sets of calls
  Roots,      \* tasks that exist before any client calls create
  MAX_NAMES,  \* size of both maps and of each buffer of waiting tids
  None        \* no answer

Call == [op : {"register", "whois", "other"}, name : Names] \cup [op : {"create"}, task : Tasks]

ASSUME NamesAssumption ==
  /\ Calls \in [Tasks -> Seq(SUBSET Call)]
  /\ Roots \subseteq Tasks
  /\ MAX_NAMES \in Nat \ {0}
  /\ None \notin Tasks

VARIABLES
  name_to_tid,     \* Map<name_t, int>
  waiting_who_is,  \* Map<name_t, Buffer<int>>
  inbox,           \* the server's sender queue
  status,          \* absent, ready, queued, waiting (received, no reply yet)
  pc,              \* index of a client's next or current call
  msg,             \* the message a queued or waiting client sent
  answer           \* what a client's last WhoIs returned
vars == <<name_to_tid, waiting_who_is, inbox, status, pc, msg, answer>>

Done(t) == status[t] = "ready" /\ pc[t] > Len(Calls[t])

Init ==
  /\ name_to_tid = <<>> /\ waiting_who_is = <<>>
  /\ inbox = <<>>
  /\ status = [t \in Tasks |-> IF t \in Roots THEN "ready" ELSE "absent"]
  /\ pc = [t \in Tasks |-> 1]
  /\ msg = [t \in Tasks |-> None]
  /\ answer = [t \in Tasks |-> None]

(* RegisterAs, WhoIs and a message of another type: Send to the server.     *)
Request(t) ==
  /\ status[t] = "ready" /\ ~Done(t)
  /\ \E c \in Calls[t][pc[t]] :
       /\ c.op # "create"
       /\ msg' = [msg EXCEPT ![t] = c]
  /\ status' = [status EXCEPT ![t] = "queued"]
  /\ inbox' = Append(inbox, t)
  /\ UNCHANGED <<name_to_tid, waiting_who_is, pc, answer>>

Create(t) ==
  /\ status[t] = "ready" /\ ~Done(t)
  /\ \E c \in Calls[t][pc[t]] :
       /\ c.op = "create"
       /\ status[c.task] = "absent"  \* the kernel gives it a new tid
       /\ status' = [status EXCEPT ![c.task] = "ready"]
  /\ pc' = [pc EXCEPT ![t] = @ + 1]
  /\ UNCHANGED <<name_to_tid, waiting_who_is, inbox, msg, answer>>

(* Map::set: a new key needs a free slot; without one nothing happens.      *)
SetIn(map, n, v) ==
  IF n \in DOMAIN map \/ Cardinality(DOMAIN map) < MAX_NAMES
  THEN [k \in DOMAIN map \cup {n} |-> IF k = n THEN v ELSE map[k]]
  ELSE map
(* Buffer::push: dropped when full. *)
Push(buffer, t) == IF Len(buffer) < MAX_NAMES THEN Append(buffer, t) ELSE buffer

(* reply() to each task of a set: it goes on with its next call. *)
Reply(tids, tid) ==
  /\ status' = [t \in Tasks |-> IF t \in tids THEN "ready" ELSE status[t]]
  /\ pc' = [t \in Tasks |-> IF t \in tids THEN pc[t] + 1 ELSE pc[t]]
  /\ answer' = [t \in Tasks |-> IF t \in tids /\ msg[t].op = "whois" THEN tid ELSE answer[t]]

WaitingOn(n) == IF n \in DOMAIN waiting_who_is THEN waiting_who_is[n] ELSE <<>>

(* The registrant is answered, then every task that waits for the name.     *)
WokenFirstOnly(t, n) ==  \* mutant: "if" for "while"
  {t} \cup (IF WaitingOn(n) = <<>> THEN {} ELSE {Head(WaitingOn(n))})
Woken(t, n) == {t} \cup Range(WaitingOn(n))
AnswerOld(t, n) ==  \* mutant: the name is looked up before it is set
  IF n \in DOMAIN name_to_tid THEN name_to_tid[n] ELSE None
Answer(t, n) == t
AfterWaking(n) == Restrict(waiting_who_is, DOMAIN waiting_who_is \ {n})
HandleRegister(t, n) ==
  /\ name_to_tid' = SetIn(name_to_tid, n, Answer(t, n))
  /\ Reply(Woken(t, n), t)
  /\ waiting_who_is' = AfterWaking(n)

HandleWhoIs(t, n) ==
  \/ /\ n \in DOMAIN name_to_tid
     /\ Reply({t}, name_to_tid[n])
     /\ UNCHANGED <<name_to_tid, waiting_who_is>>
  \/ /\ n \notin DOMAIN name_to_tid
     /\ waiting_who_is' = SetIn(waiting_who_is, n, Push(WaitingOn(n), t))
     /\ status' = [status EXCEPT ![t] = "waiting"]
     /\ UNCHANGED <<name_to_tid, pc, answer>>

(* handle(const T &): reply_with_error. *)
HandleOther(t) ==
  /\ Reply({t}, None)
  /\ UNCHANGED <<name_to_tid, waiting_who_is>>

(* run(): receive and handle. *)
Serve ==
  /\ inbox # <<>>
  /\ inbox' = Tail(inbox)
  /\ LET t == Head(inbox)
         m == msg[t]
     IN  \/ m.op = "register" /\ HandleRegister(t, m.name)
         \/ m.op = "whois" /\ HandleWhoIs(t, m.name)
         \/ m.op = "other" /\ HandleOther(t)
  /\ UNCHANGED msg

Next == Serve \/ \E t \in Tasks : Request(t) \/ Create(t)

Spec == Init /\ [][Next]_vars

(* The kernel gives the processor to a ready task of the highest priority;  *)
(* no client loops without blocking, so none keeps it for ever.             *)
FairSpec == Spec /\ WF_vars(Serve) /\ \A t \in Tasks : WF_vars(Request(t) \/ Create(t))
-----------------------------------------------------------------------------
(* Every call of every client returns. *)
AllCallsReturn == <>(\A t \in Tasks : Done(t))

(* In every order in which the tasks can run, a client that has looked a    *)
(* server up knows a task that has registered the name, whether the server  *)
(* or the client was first: the _asserts after each WhoIs never print.      *)
Registered(n) ==
  {t \in Tasks : \E k \in 1 .. (pc[t] - 1) : \E c \in Calls[t][k] : c.op = "register" /\ c.name = n}
ServersFound ==
  \A t \in Tasks : msg[t] # None /\ status[t] = "ready" /\ msg[t].op = "whois"
    => answer[t] \in Registered(msg[t].name)
-----------------------------------------------------------------------------
(* The inductive invariant. *)
TypeOK ==
  /\ name_to_tid \in [DOMAIN name_to_tid -> Tasks] /\ DOMAIN name_to_tid \subseteq Names
  /\ waiting_who_is \in [DOMAIN waiting_who_is -> Seq(Tasks)] /\ DOMAIN waiting_who_is \subseteq Names
  /\ inbox \in Seq(Tasks)
  /\ status \in [Tasks -> {"absent", "ready", "queued", "waiting"}]
  /\ pc \in [Tasks -> Nat \ {0}]
  /\ msg \in [Tasks -> Call \cup {None}]
  /\ answer \in [Tasks -> Tasks \cup {None}]

(* A task whose call is under way has sent what its program says.           *)
Asks(t) ==
  /\ pc[t] \in DOMAIN Calls[t]
  /\ msg[t] \in Calls[t][pc[t]]
  /\ msg[t].op # "create"
ClientsKnown ==
  \A t \in Tasks : /\ status[t] \in {"queued", "waiting"} => Asks(t)
                   /\ status[t] = "absent" => msg[t] = None

InboxSound == IsInjective(inbox) /\ \A t \in Range(inbox) : status[t] = "queued"

WaitsFor(t, n) == status[t] = "waiting" /\ msg[t].op = "whois" /\ msg[t].name = n
WaitersSound ==
  \A n \in DOMAIN waiting_who_is :
    /\ IsInjective(waiting_who_is[n])
    /\ \A t \in Range(waiting_who_is[n]) : WaitsFor(t, n)

NamesSound == \A n \in DOMAIN name_to_tid : name_to_tid[n] \in Registered(n)

(* No call is forgotten: where the maps and buffers have a place for every  *)
(* name and every task, a call that has not returned is in the server's     *)
(* queue, or is a lookup that waits, on record, for a name that nobody has  *)
(* registered.                                                              *)
EnoughRoom ==
  /\ IsFiniteSet(Tasks) /\ Cardinality(Tasks) <= MAX_NAMES
  /\ IsFiniteSet(Names) /\ Cardinality(Names) <= MAX_NAMES
NoCallForgotten ==
  EnoughRoom =>
    \A t \in Tasks :
      /\ status[t] = "queued" => t \in Range(inbox)
      /\ status[t] = "waiting" =>
           \E n \in DOMAIN waiting_who_is \ DOMAIN name_to_tid : t \in Range(waiting_who_is[n])

IInv ==
  /\ TypeOK /\ ClientsKnown /\ InboxSound /\ WaitersSound /\ NamesSound
  /\ ServersFound /\ NoCallForgotten
=============================================================================
