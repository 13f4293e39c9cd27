-------------------------------- MODULE SRR --------------------------------
(***************************************************************************)
(* What Send, Receive and Reply promise to user tasks, with no scheduler,  *)
(* descriptors or slots: a Send is a synchronous call.  Calls reach their  *)
(* receiver in the order they were made, each is accepted at most once,    *)
(* only an answer ends an accepted call, and a call that was not accepted  *)
(* ends only when its receiver leaves.  A task that has left never returns.*)
(* A call to a task that already has Cap unaccepted calls is lost: it is   *)
(* never accepted nor refused, and its caller waits for ever.              *)
(***************************************************************************)
EXTENDS Naturals, Sequences

CONSTANTS Tid, NoTask, Cap

VARIABLES
  phase,  \* what each task is doing
  to,     \* the task that a calling or served task addressed
  inbox   \* the calls that each task has not accepted, in order

vars == <<phase, to, inbox>>

Init ==
  /\ phase = [t \in Tid |-> IF t = 0 THEN "active" ELSE "absent"]
  /\ to = [t \in Tid |-> NoTask]
  /\ inbox = [t \in Tid |-> <<>>]

Present(t) == phase[t] \notin {"absent", "gone"}

Join(t) ==
  /\ phase[t] = "absent"
  /\ phase' = [phase EXCEPT ![t] = "active"]
  /\ UNCHANGED <<to, inbox>>

(* The receiver listens: the call is accepted at once. *)
CallListener(t, r) ==
  /\ phase[t] = "active" /\ phase[r] = "listening"
  /\ phase' = [phase EXCEPT ![t] = "served", ![r] = "active"]
  /\ to' = [to EXCEPT ![t] = r]
  /\ UNCHANGED inbox

CallBusy(t, r) ==
  /\ phase[t] = "active" /\ r # t
  /\ Present(r) /\ phase[r] # "listening"
  /\ phase' = [phase EXCEPT ![t] = "calling"]
  /\ to' = [to EXCEPT ![t] = r]
  /\ inbox' = [inbox EXCEPT ![r] = IF Len(@) < Cap THEN Append(@, t) ELSE @]

Accept(r) ==
  /\ phase[r] = "active" /\ inbox[r] # <<>>
  /\ phase' = [phase EXCEPT ![Head(inbox[r])] = "served"]
  /\ inbox' = [inbox EXCEPT ![r] = Tail(@)]
  /\ UNCHANGED to

Listen(r) ==
  /\ phase[r] = "active" /\ inbox[r] = <<>>
  /\ phase' = [phase EXCEPT ![r] = "listening"]
  /\ UNCHANGED <<to, inbox>>

(* Any active task may give the answer, not only the one that accepted. *)
Answer(t) ==
  /\ phase[t] = "served"
  /\ \E by \in Tid : phase[by] = "active"
  /\ phase' = [phase EXCEPT ![t] = "active"]
  /\ to' = [to EXCEPT ![t] = NoTask]
  /\ UNCHANGED inbox

Leave(r) ==
  /\ phase[r] = "active"
  /\ phase' = [phase EXCEPT ![r] = "leaving"]
  /\ UNCHANGED <<to, inbox>>

(* A leaving task turns its callers away, in order ... *)
Refuse(r) ==
  /\ phase[r] = "leaving" /\ inbox[r] # <<>>
  /\ phase' = [phase EXCEPT ![Head(inbox[r])] = "active"]
  /\ to' = [to EXCEPT ![Head(inbox[r])] = NoTask]
  /\ inbox' = [inbox EXCEPT ![r] = Tail(@)]

(* ... and is gone when none is left. *)
Vanish(r) ==
  /\ phase[r] = "leaving" /\ inbox[r] = <<>>
  /\ phase' = [phase EXCEPT ![r] = "gone"]
  /\ UNCHANGED <<to, inbox>>

Next ==
  \E t \in Tid :
    \/ Join(t) \/ Accept(t) \/ Listen(t) \/ Answer(t)
    \/ Leave(t) \/ Refuse(t) \/ Vanish(t)
    \/ \E r \in Tid : CallListener(t, r) \/ CallBusy(t, r)

Spec == Init /\ [][Next]_vars
=============================================================================
