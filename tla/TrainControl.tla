---------------------------- MODULE TrainControl ----------------------------
(***************************************************************************)
(* The train control server with its workers: rx_can_worker passes on the  *)
(* frames of the station, tx_can_worker transmits commands one at a time,  *)
(* train_tick_worker ticks; the command line makes requests, and each tree *)
(* task drives a train: it asks for a message, ticks its tree, and may     *)
(* make requests in between.  The server is one task: it receives, handles *)
(* and replies in turn, and while it handles a message other tasks can at  *)
(* most queue another one, so a handler is one step.                       *)
(*                                                                         *)
(* Commands are numbered as they are accepted.  Each changes the same      *)
(* train, and the station's answer to a command says so; the state of the  *)
(* train is the number of the command whose answer it shows.  What a woken *)
(* sender finds when the server exits is not an answer it expects.         *)
(***************************************************************************)
EXTENDS Naturals, Sequences, FiniteSets, Functions

CONSTANTS
  Trees,           \* tids that tree tasks may get
  TX_BUFFER_SIZE,
  MAX_TREES,       \* size of the map of mailboxes
  MAILBOX_SIZE,
  StartCmds,       \* commands queued by the constructor
  NoTid,           \* -1, what create returns when it fails
  Unknown,         \* the state of a train a tree has not been told of
  MaxCmds,         \* bound: commands
  MaxLoad          \* bound: trees started, sensor frames and ticks together

NoMsg == [type |-> "none"]
Task == {"rx", "tx", "tick", "cli"} \cup Trees

ASSUME TrainControlAssumption ==
  /\ TX_BUFFER_SIZE \in Nat /\ MAX_TREES \in Nat /\ MAILBOX_SIZE \in Nat \ {0}
  /\ StartCmds \in 0..TX_BUFFER_SIZE /\ StartCmds <= MaxCmds
  /\ Trees \cap {"rx", "tx", "tick", "cli"} = {}
  /\ NoTid \notin Task /\ Unknown \notin Nat

VARIABLES
  tx_buf, waiting_can_tx_worker, simple_pacing_can_send,
  trees,    \* mailboxes by tid: msgs and waiting
  state,    \* of the train
  exited,   \* the server has exited
  inbox,    \* its sender queue
  pc,       \* tasks: "absent", "run", "sent" (blocked in Send), "failing", "gone"
  msg,      \* what each task has sent and waits for an answer to
  copy,     \* a tree's own state of its train
  tx_cmd,   \* the command that tx_can_worker has to transmit, or 0
  bus,      \* commands whose answers rx_can_worker has not read
  events,   \* how many sensor frames and ticks there were
  issued, sent, responses  \* history
server == <<tx_buf, waiting_can_tx_worker, simple_pacing_can_send, trees, state, exited>>
tasks == <<copy, tx_cmd>>
station == <<bus, events>>
history == <<issued, sent, responses>>
vars == <<server, inbox, pc, msg, tasks, station, history>>

Init ==
  /\ tx_buf = [i \in 1..StartCmds |-> i] /\ issued = StartCmds
  /\ waiting_can_tx_worker = FALSE /\ simple_pacing_can_send = TRUE
  /\ trees = <<>> /\ state = 0 /\ exited = FALSE
  /\ inbox = <<>>
  /\ pc = [t \in Task |-> IF t \in Trees THEN "absent" ELSE "run"]
  /\ msg = [t \in Task |-> NoMsg]
  /\ copy = [t \in Trees |-> Unknown]
  /\ tx_cmd = 0
  /\ bus = <<>>
  /\ events = 0
  /\ sent = <<>> /\ responses = 0
-----------------------------------------------------------------------------
(* The server's clients. *)

(* The bound on commands counts those that are asked for. *)
MayAsk == issued + Cardinality({t \in Task : pc[t] = "sent" /\ msg[t].type = "transmit"}) < MaxCmds

(* The bound on the load counts trees that are asked for, too.              *)
Started == {t \in Trees : pc[t] # "absent"}
MayLoad ==
  Cardinality(Started) + Cardinality({t \in {"cli"} : msg[t].type = "RunTree"}) + events < MaxLoad

(* Send: it fails at once when the server has exited. *)
Send(t, m) ==
  /\ msg' = IF exited THEN msg ELSE [msg EXCEPT ![t] = m]
  /\ pc' = [pc EXCEPT ![t] = IF exited THEN "gone" ELSE "sent"]
  /\ inbox' = IF exited THEN inbox ELSE Append(inbox, t)
  /\ UNCHANGED <<server, history>>

(* tx_can_worker: ask for a command, or transmit the one it has. *)
TxReady ==
  /\ pc["tx"] = "run" /\ tx_cmd = 0
  /\ Send("tx", [type |-> "TXReady"])
  /\ UNCHANGED <<tasks, station>>

Transmit ==
  /\ pc["tx"] = "run" /\ tx_cmd # 0
  /\ bus' = Append(bus, tx_cmd) /\ tx_cmd' = 0
  /\ UNCHANGED <<server, inbox, pc, msg, copy, events, history>>

(* rx_can_worker reads a frame: the station's answer to the oldest command, *)
(* or a sensor's, whose response bit is the station's affair.               *)
RxAnswer ==
  /\ pc["rx"] = "run" /\ bus # <<>>
  /\ bus' = Tail(bus)
  /\ Send("rx", [type |-> "RX", cmd |-> Head(bus), resp |-> TRUE])
  /\ UNCHANGED <<tasks, events>>

RxSensor ==
  /\ pc["rx"] = "run" /\ MayLoad
  /\ events' = events + 1
  /\ \E resp \in BOOLEAN : Send("rx", [type |-> "RX", cmd |-> 0, resp |-> resp])
  /\ UNCHANGED <<tasks, bus>>

TrainTick ==
  /\ pc["tick"] = "run"
  /\ exited \/ MayLoad
  /\ events' = IF exited THEN events ELSE events + 1
  /\ Send("tick", [type |-> "Tick"])
  /\ UNCHANGED <<tasks, bus>>

(* Requests: "transmit" for one that queues a command, "RunTree" for one    *)
(* that starts a tree, "Quit".  Those that the server answers from its      *)
(* tables change nothing here.                                              *)
Cli ==
  /\ pc["cli"] = "run"
  /\ \E type \in {"transmit", "RunTree", "Quit"} :
       /\ type = "transmit" => MayAsk
       /\ type = "RunTree" => MayLoad \/ Started = Trees
       /\ Send("cli", [type |-> type])
  /\ UNCHANGED <<tasks, station>>

(* run_tree: after a message and after each request it makes while it ticks *)
(* its tree, a task makes another request, asks for the next message, or is *)
(* done.  A task that has just been created asks for its first message.     *)
Ready(t) ==
  /\ pc[t] = "run"
  /\ Send(t, [type |-> "Ready", train |-> copy[t]])
  /\ UNCHANGED <<tasks, station>>

TreeRequest(t) ==
  /\ pc[t] = "run" /\ copy[t] # Unknown
  /\ MayAsk
  /\ Send(t, [type |-> "transmit"])
  /\ UNCHANGED <<tasks, station>>

TreeExit(t) ==
  /\ pc[t] = "failing" \/ (pc[t] = "run" /\ copy[t] # Unknown)
  /\ Send(t, [type |-> "Exit"])
  /\ UNCHANGED <<tasks, station>>
-----------------------------------------------------------------------------
(* The server. *)

(* reply() to the tasks of S; those of C are created. *)
Ends(t) == msg[t].type \in {"Exit", "Quit"}
Reply(S, C) ==
  pc' = [t \in Task |-> IF t \in C \/ (t \in S /\ ~Ends(t)) THEN "run"
                        ELSE IF t \in S THEN "gone" ELSE pc[t]]

(* maybe_tx, with the fields as the handler has left them. *)
CanTx(buf, waits, may) == buf # <<>> /\ waits /\ may
PacedTwice(may, sends) == may  \* mutant: the flag is not reset
Paced(may, sends) == may /\ ~sends
MaybeTx(buf, waits, may) ==
  LET sends == CanTx(buf, waits, may)
  IN  /\ tx_buf' = IF sends THEN Tail(buf) ELSE buf
      /\ waiting_can_tx_worker' = (waits /\ ~sends)
      /\ simple_pacing_can_send' = Paced(may, sends)
      /\ tx_cmd' = IF sends THEN Head(buf) ELSE tx_cmd
      /\ sent' = IF sends THEN Append(sent, Head(buf)) ELSE sent
TxWoken(buf, waits, may) == IF CanTx(buf, waits, may) THEN {"tx"} ELSE {}

(* publish_tree_update: every mailbox gets the update; a tree that waits    *)
(* gets the oldest message at once.  A full mailbox drops it.               *)
Push(msgs, m) == IF Len(msgs) < MAILBOX_SIZE THEN Append(msgs, m) ELSE msgs
Waiting == {t \in DOMAIN trees : trees[t].waiting}
StillWaits(t) == trees[t].waiting  \* mutant: "waiting" is not reset
WaitsAgain(t) == FALSE
Publish(update) ==
  LET pushed == [t \in DOMAIN trees |-> Push(trees[t].msgs, update)]
  IN  /\ trees' = [t \in DOMAIN trees |->
                     [msgs |-> IF t \in Waiting THEN Tail(pushed[t]) ELSE pushed[t],
                      waiting |-> WaitsAgain(t)]]
      /\ copy' = [t \in Trees |-> IF t \in Waiting THEN Head(pushed[t]).state ELSE copy[t]]

(* TC::RX.  An answer brings the state up to date, and lets the next command *)
(* go.                                                                      *)
IgnoresResponse(m) == simple_pacing_can_send  \* mutant
CanSend(m) == simple_pacing_can_send \/ m.resp
HandleRx(t, m) ==
  LET answer == m.cmd
      woken == {t} \cup Waiting \cup TxWoken(tx_buf, waiting_can_tx_worker, CanSend(m))
  IN  /\ state' = IF answer # 0 THEN answer ELSE state
      /\ responses' = IF m.resp THEN responses + 1 ELSE responses
      /\ MaybeTx(tx_buf, waiting_can_tx_worker, CanSend(m))
      /\ Publish([kind |-> "Update", state |-> state'])
      /\ Reply(woken, {})
      /\ UNCHANGED <<exited, issued>>

HandleTxReady(t) ==
  /\ MaybeTx(tx_buf, TRUE, simple_pacing_can_send)
  /\ Reply(TxWoken(tx_buf, TRUE, simple_pacing_can_send), {})
  /\ UNCHANGED <<trees, state, exited, copy, issued, responses>>

(* A request that queues a command: a full buffer drops it. *)
Queued == IF Len(tx_buf) < TX_BUFFER_SIZE THEN Append(tx_buf, issued + 1) ELSE tx_buf
HandleTransmit(t) ==
  /\ issued' = issued + 1
  /\ MaybeTx(Queued, waiting_can_tx_worker, simple_pacing_can_send)
  /\ Reply({t} \cup TxWoken(Queued, waiting_can_tx_worker, simple_pacing_can_send), {})
  /\ UNCHANGED <<trees, state, exited, copy, responses>>

(* spawn_tree_task: create may fail, which is not noticed; so may set.      *)
EmptyMailbox == [msgs |-> <<>>, waiting |-> FALSE]  \* mutant: set before the push
NewMailbox == [msgs |-> <<[kind |-> "Init", state |-> state]>>, waiting |-> FALSE]
SetTree(tid) ==
  trees' = IF tid \in DOMAIN trees \/ Cardinality(DOMAIN trees) < MAX_TREES
           THEN [k \in DOMAIN trees \cup {tid} |-> IF k = tid THEN NewMailbox ELSE trees[k]]
           ELSE trees
HandleRunTree(t) ==
  LET free == Trees \ Started
      tid == IF free # {} THEN CHOOSE k \in free : TRUE ELSE NoTid
  IN  /\ SetTree(tid)
      /\ Reply({t}, {tid} \ {NoTid})
      /\ UNCHANGED <<tx_buf, waiting_can_tx_worker, simple_pacing_can_send, state, exited,
                     tasks, history>>

(* Quit: the server exits, which wakes the tasks that queued a message; its *)
(* memory is gone.                                                         *)
TxQuits == IF waiting_can_tx_worker THEN {"tx"} ELSE {}
OneQueued == {inbox[i] : i \in {2} \cap DOMAIN inbox}  \* mutant: only the first is woken
QueuedSenders == Range(Tail(inbox))
HandleQuit(t) ==
  LET queued == QueuedSenders
      last == {k \in queued : k \notin Trees \/ Ends(k)}
  IN  /\ exited' = TRUE
      /\ waiting_can_tx_worker' = FALSE
      /\ tx_buf' = <<>> /\ simple_pacing_can_send' = FALSE /\ trees' = <<>> /\ state' = 0
      /\ pc' = [k \in Task |-> IF k \in {t} \cup TxQuits \cup last THEN "gone"
                               ELSE IF k \in queued THEN "failing" ELSE pc[k]]
      /\ UNCHANGED <<tasks, history>>

(* Tree::Ready: the tree's state of its train replaces the server's; then   *)
(* it gets its oldest message with the state as it is now, or waits.        *)
HandleReady(t, m) ==
  /\ \/ /\ t \notin DOMAIN trees
        /\ pc' = [pc EXCEPT ![t] = "failing"]
        /\ UNCHANGED <<trees, state, copy>>
     \/ /\ t \in DOMAIN trees
        /\ state' = IF m.train # Unknown THEN m.train ELSE state
        /\ LET msgs == trees[t].msgs
           IN  \/ /\ msgs = <<>>
                  /\ trees' = [trees EXCEPT ![t].waiting = TRUE]
                  /\ UNCHANGED <<pc, copy>>
               \/ /\ msgs # <<>>
                  /\ trees' = [trees EXCEPT ![t].msgs = Tail(msgs)]
                  /\ copy' = [copy EXCEPT ![t] = state']
                  /\ Reply({t}, {})
  /\ UNCHANGED <<tx_buf, waiting_can_tx_worker, simple_pacing_can_send, exited, tx_cmd, history>>

HandleTick(t) ==
  /\ Publish([kind |-> "Update", state |-> state])
  /\ Reply({t} \cup Waiting, {})
  /\ UNCHANGED <<tx_buf, waiting_can_tx_worker, simple_pacing_can_send, state, exited,
                 tx_cmd, history>>

TreeKept(t) == trees  \* mutant: the mailbox is not removed
TreeRemoved(t) == Restrict(trees, DOMAIN trees \ {t})
HandleExit(t) ==
  /\ trees' = TreeRemoved(t)
  /\ Reply({t}, {})
  /\ UNCHANGED <<tx_buf, waiting_can_tx_worker, simple_pacing_can_send, state, exited,
                 tasks, history>>

Serve ==
  /\ ~exited /\ inbox # <<>>
  /\ LET t == Head(inbox)
         m == msg[t]
     IN  /\ inbox' = IF m.type = "Quit" THEN <<>> ELSE Tail(inbox)
         /\ \/ m.type = "RX" /\ HandleRx(t, m)
            \/ m.type = "TXReady" /\ HandleTxReady(t)
            \/ m.type = "transmit" /\ HandleTransmit(t)
            \/ m.type = "RunTree" /\ HandleRunTree(t)
            \/ m.type = "Quit" /\ HandleQuit(t)
            \/ m.type = "Ready" /\ HandleReady(t, m)
            \/ m.type = "Tick" /\ HandleTick(t)
            \/ m.type = "Exit" /\ HandleExit(t)
  /\ msg' = [t \in Task |-> IF pc'[t] = "sent" THEN msg[t] ELSE NoMsg]
  /\ UNCHANGED <<station>>

TxWorker == TxReady \/ Transmit
TreeStep(t) == Ready(t) \/ TreeRequest(t) \/ TreeExit(t)
Next == Serve \/ TxWorker \/ RxAnswer \/ RxSensor \/ TrainTick \/ Cli
          \/ \E t \in Trees : TreeStep(t)

Spec == Init /\ [][Next]_vars

(* The server (priority 3), rx_can_worker (1) and tx_can_worker (2) run     *)
(* before the trees (4), which all block again; the tick worker (5) runs    *)
(* when the trees wait; the station answers every command.                  *)
FairSpec ==
  /\ Spec /\ WF_vars(Serve) /\ WF_vars(TxWorker) /\ WF_vars(RxAnswer) /\ WF_vars(TrainTick)
  /\ \A t \in Trees : WF_vars(TreeStep(t))
-----------------------------------------------------------------------------
(* Type invariant. *)
Message ==
  {NoMsg} \cup [type : {"TXReady", "Tick", "transmit", "RunTree", "Quit", "Exit"}]
    \cup [type : {"RX"}, cmd : Nat, resp : BOOLEAN]
    \cup [type : {"Ready"}, train : Nat \cup {Unknown}]
Mailbox == [msgs : Seq([kind : {"Init", "Update"}, state : Nat]), waiting : BOOLEAN]

TypeOK ==
  /\ tx_buf \in Seq(Nat) /\ sent \in Seq(Nat) /\ bus \in Seq(Nat)
  /\ issued \in Nat /\ responses \in Nat /\ state \in Nat /\ tx_cmd \in Nat /\ events \in Nat
  /\ waiting_can_tx_worker \in BOOLEAN /\ simple_pacing_can_send \in BOOLEAN
  /\ exited \in BOOLEAN
  /\ DOMAIN trees \subseteq Trees \cup {NoTid} /\ trees \in [DOMAIN trees -> Mailbox]
  /\ inbox \in Seq(Task)
  /\ pc \in [Task -> {"absent", "run", "sent", "failing", "gone"}]
  /\ msg \in [Task -> Message]
  /\ copy \in [Trees -> Nat \cup {Unknown}]

(* Commands go out in the order in which they were accepted, none twice,    *)
(* and never more than one ahead of the responses that have come in: a      *)
(* command is not handed out while an earlier one may still be on its way.  *)
PacedInOrder ==
  /\ Len(sent) <= responses + 1
  /\ LET all == sent \o tx_buf IN \A i \in 1..(Len(all) - 1) : all[i] < all[i + 1]

(* The server's record of who waits is right: a tree is marked as waiting   *)
(* exactly when its Ready was received and not answered, and then no        *)
(* message lies in its mailbox.  So the next update wakes it, and the       *)
(* server never replies to a tree that waits for the answer to a request.   *)
WaitingTreesKnown ==
  ~exited => \A t \in Trees :
    (pc[t] = "sent" /\ msg[t].type = "Ready" /\ t \notin Range(inbox))
      <=> (t \in Waiting /\ trees[t].msgs = <<>>)

(* A tree's first message is its Init: run_tree handles an Update by looking *)
(* up the train of its Init, and would dereference a null pointer.          *)
InitFirst ==
  \A t \in Trees \cap DOMAIN trees :
    copy[t] = Unknown /\ pc[t] \in {"run", "sent"}
      => trees[t].msgs # <<>> /\ trees[t].msgs[1].kind = "Init"

(* A tree that has ended has no mailbox: ten of them, and no tree could be  *)
(* started any more.                                                        *)
NoDeadMailbox == ~exited => \A t \in Trees \cap DOMAIN trees : pc[t] # "gone"

(* The inductive invariant behind the four above: the pacing flag is a       *)
(* response in hand, who waits for the server is in its queue or in its     *)
(* records and never in both, and each message has one kind of sender.      *)
Paces ==
  /\ Len(sent) <= responses + 1
  /\ simple_pacing_can_send => Len(sent) <= responses

Numbered ==
  LET all == sent \o tx_buf
  IN  /\ \A i \in 1..Len(all) : all[i] <= issued
      /\ \A i \in 1..(Len(all) - 1) : all[i] < all[i + 1]

InboxSound ==
  /\ IsInjective(inbox)
  /\ \A k \in Range(inbox) : pc[k] = "sent"
  /\ exited => inbox = <<>> /\ trees = <<>>

MessagesOwned ==
  \A k \in Task : /\ msg[k].type \in {"Ready", "Exit"} => k \in Trees
                  /\ msg[k].type = "TXReady" => k = "tx"

WaitersSound ==
  ~exited =>
    /\ waiting_can_tx_worker => pc["tx"] = "sent" /\ "tx" \notin Range(inbox)
    /\ \A t \in Trees : t \in Waiting <=> pc[t] = "sent" /\ t \notin Range(inbox)
    /\ \A t \in Waiting : t \in Trees /\ msg[t].type = "Ready" /\ trees[t].msgs = <<>>

MailboxesOwned == \A t \in Trees \cap DOMAIN trees : pc[t] \notin {"failing", "gone"}

IInv ==
  /\ TypeOK /\ Paces /\ Numbered /\ InboxSound /\ MessagesOwned
  /\ WaitersSound /\ InitFirst /\ MailboxesOwned

(* If the station answers, no command stays in the buffer. *)
AllSent == (tx_buf # <<>>) ~> (tx_buf = <<>> \/ exited)

(* Every request, tick and frame is answered, also when the server exits;   *)
(* and after Quit the workers that do not wait for a frame end.             *)
CallsReturn ==
  /\ \A t \in Task :
       (pc[t] = "sent" /\ msg[t].type \notin {"Ready", "TXReady"}) ~> (pc[t] # "sent")
  /\ exited ~> (pc["tx"] = "gone" /\ pc["tick"] = "gone")
=============================================================================
