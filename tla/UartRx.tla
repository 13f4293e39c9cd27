------------------------------- MODULE UartRx -------------------------------
(***************************************************************************)
(* The receive server (src/src/os/uart_rx_server.cpp), its notifier, the   *)
(* receive half of the UART and the tasks that call Getc.  The server      *)
(* empties the FIFO a character at a time while more arrive, and then      *)
(* clears the interrupts.  Any number of bit times may pass between two of *)
(* its steps: other tasks and the kernel run in between.                   *)
(*                                                                         *)
(* Characters are numbered in the order in which the UART takes them in.   *)
(***************************************************************************)
EXTENDS Naturals, SequencesExt

CONSTANTS
  Clients,         \* tasks that call Getc: the shell and the train command line
  RX_BUFFER_SIZE,
  FifoSize,        \* of the UART's receive FIFO
  Trigger,         \* level at which the receive interrupt is raised
  Notifier,
  MaxChars         \* bound: characters that arrive

Nobody == "nobody"

ASSUME UartRxAssumption ==
  /\ RX_BUFFER_SIZE \in Nat \ {0} /\ MaxChars \in Nat
  /\ FifoSize \in Nat /\ Trigger \in 2..FifoSize
  /\ Notifier \notin Clients /\ Nobody \notin Clients \cup {Notifier}

Task == Clients \cup {Notifier}

VARIABLES
  rx_buffer, waiting_getc_tid,  \* the server
  inbox,     \* its sender queue
  pc,        \* "receive", "drain", "clear RX" or "clear RT"
  turn,      \* the client that has the console: the shell awaits the other one
  client,    \* "runs" or "sent" (and is blocked)
  notifier,  \* "runs", "awaits", "woken" or "sent"
  im,        \* RXIM and RTIM, which are masked and unmasked together ...
  rx, rt,    \* the receive and the receive timeout interrupt are raised
  timing,    \* the timeout has not passed since the last character
  fifo,
  arrived, got, dropped, due  \* history: characters taken in by the UART, given
             \* to clients, dropped by the full buffer, and the last one that
             \* did not come between the end of a drain and the clears
server == <<rx_buffer, waiting_getc_tid, inbox, pc>>
uart == <<im, rx, rt, timing, fifo>>
vars == <<server, turn, client, notifier, uart, arrived, got, dropped, due>>

Init ==
  /\ rx_buffer = <<>> /\ waiting_getc_tid = Nobody
  /\ inbox = <<>> /\ pc = "receive"
  /\ turn \in Clients
  /\ client = [c \in Clients |-> "runs"]
  /\ notifier = "runs"
  /\ im = {} /\ rx = FALSE /\ rt = FALSE /\ timing = FALSE /\ fifo = <<>>
  /\ arrived = 0 /\ got = <<>> /\ dropped = {} /\ due = 0
-----------------------------------------------------------------------------
(* The UART.  A character that finds the FIFO full is not taken in.         *)
Arrive ==
  /\ arrived < MaxChars /\ Len(fifo) < FifoSize
  /\ fifo' = Append(fifo, arrived + 1) /\ arrived' = arrived + 1
  /\ rx' = (rx \/ Len(fifo) + 1 = Trigger)
  /\ timing' = TRUE
  /\ due' = IF pc \in {"clear RX", "clear RT"} THEN due ELSE arrived + 1
  /\ UNCHANGED <<server, turn, client, notifier, im, rt, got, dropped>>

Timeout ==
  /\ fifo # <<>> /\ timing
  /\ rt' = TRUE /\ timing' = FALSE
  /\ UNCHANGED <<server, turn, client, notifier, im, rx, fifo, arrived, got, dropped, due>>

(* getc lowers the interrupts whose cause it removes.                       *)
getc ==
  /\ fifo' = Tail(fifo)
  /\ rx' = (rx /\ Len(fifo) > Trigger)
  /\ rt' = (rt /\ Len(fifo) > 1)
  /\ timing' = (timing /\ Len(fifo) > 1)

(* handle_uart_irq and handle_event mask both interrupts, and wake the      *)
(* notifier.                                                                *)
UartIrq ==
  /\ (rx /\ "RXIM" \in im) \/ (rt /\ "RTIM" \in im)
  /\ notifier' = IF notifier = "awaits" THEN "woken" ELSE notifier
  /\ im' = {}
  /\ UNCHANGED <<server, turn, client, rx, rt, timing, fifo, arrived, got, dropped, due>>
-----------------------------------------------------------------------------
(* rx_notifier_task: await_event unmasks the interrupts.                    *)

\* mutant: the timeout stays masked.
AwaitTrigger ==
  /\ notifier = "runs" /\ notifier' = "awaits"
  /\ im' = im \cup {"RXIM"}
  /\ UNCHANGED <<server, turn, client, rx, rt, timing, fifo, arrived, got, dropped, due>>

Await ==
  /\ notifier = "runs" /\ notifier' = "awaits"
  /\ im' = im \cup {"RTIM", "RXIM"}
  /\ UNCHANGED <<server, turn, client, rx, rt, timing, fifo, arrived, got, dropped, due>>

SendInterrupt ==
  /\ notifier = "woken" /\ notifier' = "sent"
  /\ inbox' = Append(inbox, Notifier)
  /\ UNCHANGED <<rx_buffer, waiting_getc_tid, pc, turn, client, uart, arrived, got, dropped, due>>

Getc(c) ==
  /\ turn = c /\ client[c] = "runs"
  /\ client' = [client EXCEPT ![c] = "sent"]
  /\ inbox' = Append(inbox, c)
  /\ UNCHANGED <<rx_buffer, waiting_getc_tid, pc, turn, notifier, uart, arrived, got, dropped, due>>

(* The shell starts the train program, or the train program ends.           *)
HandOver ==
  /\ client[turn] = "runs"
  /\ turn' \in Clients \ {turn}
  /\ UNCHANGED <<server, client, notifier, uart, arrived, got, dropped, due>>
-----------------------------------------------------------------------------
(* The server. *)

\* mutant: the last character first.
PopLast(c) == rx_buffer' = Front(rx_buffer) /\ got' = Append(got, Last(rx_buffer))

\* The oldest character goes to client c.  A reply to a task that does not
\* wait for one fails, and the character is gone.
Pop(c) ==
  /\ rx_buffer' = Tail(rx_buffer)
  /\ got' = IF client[c] = "sent" THEN Append(got, Head(rx_buffer)) ELSE got

Reply(t) == client' = [client EXCEPT ![t] = "runs"]

HandleGetc(c) ==
  /\ pc = "receive" /\ inbox # <<>> /\ Head(inbox) = c /\ c # Notifier
  /\ inbox' = Tail(inbox)
  /\ IF rx_buffer # <<>>
       THEN Pop(c) /\ Reply(c) /\ UNCHANGED waiting_getc_tid
       ELSE waiting_getc_tid' = c /\ UNCHANGED <<rx_buffer, client, got>>
  /\ UNCHANGED <<pc, turn, notifier, uart, arrived, dropped, due>>

ReceiveInterrupt ==
  /\ pc = "receive" /\ inbox # <<>> /\ Head(inbox) = Notifier
  /\ inbox' = Tail(inbox) /\ pc' = "drain"
  /\ UNCHANGED <<rx_buffer, waiting_getc_tid, turn, client, notifier, uart, arrived, got, dropped, due>>

\* A failed push is reported on the console, and the character is gone.
Drain ==
  /\ pc = "drain" /\ fifo # <<>>
  /\ getc
  /\ IF Len(rx_buffer) < RX_BUFFER_SIZE
       THEN rx_buffer' = Append(rx_buffer, Head(fifo)) /\ UNCHANGED dropped
       ELSE dropped' = dropped \cup {Head(fifo)} /\ UNCHANGED rx_buffer
  /\ UNCHANGED <<waiting_getc_tid, inbox, pc, turn, client, notifier, im, arrived, got, due>>

Drained ==
  /\ pc = "drain" /\ fifo = <<>>
  /\ pc' = "clear RX"
  /\ UNCHANGED <<rx_buffer, waiting_getc_tid, inbox, turn, client, notifier, uart, arrived, got, dropped, due>>

ClearRx ==
  /\ pc = "clear RX" /\ pc' = "clear RT"
  /\ rx' = FALSE
  /\ UNCHANGED <<rx_buffer, waiting_getc_tid, inbox, turn, client, notifier, im, rt, timing, fifo,
                 arrived, got, dropped, due>>

\* mutant: the client that was answered is still taken to wait.
StillWaiting ==
  IF waiting_getc_tid # Nobody /\ rx_buffer # <<>>
    THEN Pop(waiting_getc_tid) /\ Reply(waiting_getc_tid) /\ UNCHANGED waiting_getc_tid
    ELSE UNCHANGED <<rx_buffer, waiting_getc_tid, client, got>>

TryReplyGetc ==
  IF waiting_getc_tid # Nobody /\ rx_buffer # <<>>
    THEN Pop(waiting_getc_tid) /\ Reply(waiting_getc_tid) /\ waiting_getc_tid' = Nobody
    ELSE UNCHANGED <<rx_buffer, waiting_getc_tid, client, got>>

\* The second clear, the answer to the notifier and the answer to a client.
ClearRt ==
  /\ pc = "clear RT" /\ pc' = "receive"
  /\ rt' = FALSE
  /\ notifier' = "runs"
  /\ TryReplyGetc
  /\ UNCHANGED <<inbox, turn, im, rx, timing, fifo, arrived, dropped, due>>
-----------------------------------------------------------------------------
Serve == (\E c \in Clients : HandleGetc(c)) \/ ReceiveInterrupt \/ Drain \/ Drained \/ ClearRx \/ ClearRt
Ask   == \E c \in Clients : Getc(c)
Next  == \/ Arrive \/ Timeout \/ UartIrq
         \/ Await \/ SendInterrupt \/ Ask \/ HandOver
         \/ Serve

(* The UART counts on, interrupts are taken, and every task that can run is *)
(* scheduled; whoever has the console reads on.  Nobody need type.          *)
Fairness ==
  /\ WF_vars(Timeout) /\ WF_vars(UartIrq)
  /\ WF_vars(Await) /\ WF_vars(SendInterrupt) /\ WF_vars(Serve) /\ WF_vars(Ask)

Spec == Init /\ [][Next]_vars /\ Fairness
-----------------------------------------------------------------------------
\* Type invariant.
TypeOK ==
  /\ rx_buffer \in Seq(Nat) /\ fifo \in Seq(Nat) /\ got \in Seq(Nat)
  /\ waiting_getc_tid \in Clients \cup {Nobody} /\ turn \in Clients
  /\ inbox \in Seq(Task)
  /\ pc \in {"receive", "drain", "clear RX", "clear RT"}
  /\ client \in [Clients -> {"runs", "sent"}]
  /\ notifier \in {"runs", "awaits", "woken", "sent"}
  /\ im \subseteq {"RTIM", "RXIM"} /\ rx \in BOOLEAN /\ rt \in BOOLEAN /\ timing \in BOOLEAN
  /\ arrived \in Nat /\ dropped \subseteq Nat /\ due \in Nat

\* Characters go to the clients in the order in which they were typed, whether
\* a client waits for them or they wait in the buffer or the FIFO.
InOrder ==
  LET all == got \o rx_buffer \o fifo
  IN  \A i, j \in DOMAIN all : i < j => all[i] < all[j]

\* No character gets lost between the FIFO and a client, but for those that
\* did not fit into the buffer: none is sent to a task that does not wait.
NothingLost ==
  1..arrived = ToSet(got \o rx_buffer \o fifo) \cup dropped

\* The inductive invariant behind the two above: who is blocked is queued, or
\* in the server's record, and only the client that has the console is.
GetcKnown ==
  /\ IsInjective(inbox)
  /\ \A c \in Clients : client[c] = "sent" <=> c \in ToSet(inbox) \/ c = waiting_getc_tid
  /\ waiting_getc_tid \notin ToSet(inbox)
  /\ \A c \in Clients : client[c] = "sent" => c = turn

NotifierKnown ==
  /\ notifier = "sent" <=> Notifier \in ToSet(inbox) \/ pc # "receive"
  /\ pc # "receive" => Notifier \notin ToSet(inbox)

IInv == TypeOK /\ InOrder /\ NothingLost /\ GetcKnown /\ NotifierKnown

\* Every character is read in the end, also those that do not fill the FIFO to
\* its trigger level and those that come while the server drains.  Only one
\* that arrives, and times out, after the server has found the FIFO empty and
\* before it has cleared the interrupts may wait for the next one.
AllRead ==
  \A n \in 1..MaxChars : due >= n ~> n \in ToSet(got) \cup dropped
=============================================================================
