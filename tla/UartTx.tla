------------------------------- MODULE UartTx -------------------------------
(***************************************************************************)
(* One transmit server (UART_TX_Server_T), its notifier, the transmit FIFO *)
(* of the UART and the tasks that print.  The server drains its buffer a   *)
(* character at a time while the UART transmits; the kernel wakes the      *)
(* notifier when the UART interrupts, and the server holds back its reply  *)
(* to the notifier while there is nothing to transmit.                     *)
(*                                                                         *)
(* Characters are numbered in the order in which the server accepts them;  *)
(* 0 stands for a character that debug_putc writes straight to the UART.   *)
(***************************************************************************)
EXTENDS Naturals, Sequences, SequencesExt

CONSTANTS
  Printers,        \* tasks that call Puts
  MaxLen,          \* length of the longest message
  TX_BUFFER_SIZE,
  FifoSize,        \* of the UART's transmit FIFO
  Trigger,         \* level at which its interrupt is raised
  Notifier,
  MaxChars,        \* bound: characters accepted after which nobody prints more
  MaxDebug         \* bound: characters written by debug_putc

Nobody == "nobody"

ASSUME UartTxAssumption ==
  /\ MaxLen \in Nat \ {0} /\ TX_BUFFER_SIZE \in Nat \ {0}
  /\ FifoSize \in Nat /\ Trigger \in 0..(FifoSize - 1)
  /\ MaxChars \in Nat /\ MaxDebug \in Nat
  /\ Notifier \notin Printers /\ Nobody \notin Printers \cup {Notifier}

Task == Printers \cup {Notifier}

VARIABLES
  tx_buffer, can_reply_to_notifier, buffer_has_pending_tx,  \* the server
  inbox,      \* its sender queue
  serving,    \* the sender of the message it handles, or "nobody"
  len,        \* length of each printer's message; 0 for a printer that runs
  notifier,   \* "runs", "awaits", "woken", "sent" (and is blocked)
  txim,       \* the transmit interrupt is unmasked
  ris,        \* and raised
  fifo,       \* the transmit FIFO
  accepted, transmitted, debug  \* history: characters accepted, sent, printed
server == <<tx_buffer, can_reply_to_notifier, buffer_has_pending_tx, inbox, serving>>
uart == <<txim, ris, fifo>>
vars == <<server, len, notifier, uart, accepted, transmitted, debug>>

Init ==
  /\ tx_buffer = <<>> /\ can_reply_to_notifier = FALSE /\ buffer_has_pending_tx = FALSE
  /\ inbox = <<>> /\ serving = Nobody
  /\ len = [p \in Printers |-> 0]
  /\ notifier = "runs"
  /\ txim = FALSE /\ ris = FALSE /\ fifo = <<>>
  /\ accepted = 0 /\ transmitted = 0 /\ debug = 0
-----------------------------------------------------------------------------
(* The UART: its interrupt is raised when the FIFO falls to the trigger     *)
(* level and lowered when it is filled above it.                            *)
Transmit ==
  /\ fifo # <<>>
  /\ fifo' = Tail(fifo)
  /\ ris' = (ris \/ Len(fifo) = Trigger + 1)
  /\ transmitted' = IF Head(fifo) = 0 THEN transmitted ELSE transmitted + 1
  /\ UNCHANGED <<server, len, notifier, txim, accepted, debug>>

putc(c) ==
  /\ Len(fifo) < FifoSize
  /\ fifo' = Append(fifo, c)
  /\ ris' = (ris /\ Len(fifo) < Trigger)

(* debug_putc waits for room; the kernel and any task may call it. *)
DebugPutc ==
  /\ debug < MaxDebug /\ debug' = debug + 1
  /\ putc(0)
  /\ UNCHANGED <<server, len, notifier, txim, accepted, transmitted>>

(* handle_uart_irq, for this UART's interrupt or for another one's: the     *)
(* transmit event of each UART is signalled whatever the cause.             *)
Signal ==
  /\ notifier = "awaits" \/ txim
  /\ notifier' = IF notifier = "awaits" THEN "woken" ELSE notifier
  /\ txim' = FALSE
  /\ UNCHANGED <<server, len, ris, fifo, accepted, transmitted, debug>>
UartIrq == ris /\ txim /\ Signal
OtherUartIrq == ~(ris /\ txim) /\ Signal
-----------------------------------------------------------------------------
(* tx_notifier_task: await_event unmasks the interrupt. *)
Await ==
  /\ notifier = "runs" /\ notifier' = "awaits"
  /\ txim' = TRUE
  /\ UNCHANGED <<server, len, ris, fifo, accepted, transmitted, debug>>

SendInterrupt ==
  /\ notifier = "woken" /\ notifier' = "sent"
  /\ inbox' = Append(inbox, Notifier)
  /\ UNCHANGED <<tx_buffer, can_reply_to_notifier, buffer_has_pending_tx, serving,
                 len, uart, accepted, transmitted, debug>>

(* Puts: one SendMsg. *)
Puts(p) ==
  /\ len[p] = 0 /\ accepted < MaxChars
  /\ \E n \in 1..MaxLen : len' = [len EXCEPT ![p] = n]
  /\ inbox' = Append(inbox, p)
  /\ UNCHANGED <<tx_buffer, can_reply_to_notifier, buffer_has_pending_tx, serving,
                 notifier, uart, accepted, transmitted, debug>>
-----------------------------------------------------------------------------
(* The server. *)
Receive(t) ==
  /\ serving = Nobody /\ inbox # <<>> /\ Head(inbox) = t
  /\ inbox' = Tail(inbox)
  /\ serving' = t

(* SendMsg: what does not fit in the buffer is dropped. *)
Fits(n) == IF Len(tx_buffer) + n <= TX_BUFFER_SIZE THEN n ELSE TX_BUFFER_SIZE - Len(tx_buffer)
ReceiveText(p) ==
  /\ Receive(p)
  /\ tx_buffer' = tx_buffer \o [i \in 1..Fits(len[p]) |-> accepted + i]
  /\ accepted' = accepted + Fits(len[p])
  /\ UNCHANGED <<can_reply_to_notifier, buffer_has_pending_tx, len, notifier, uart,
                 transmitted, debug>>

ReceiveInterrupt ==
  /\ Receive(Notifier)
  /\ can_reply_to_notifier' = TRUE
  /\ UNCHANGED <<tx_buffer, buffer_has_pending_tx, len, notifier, uart,
                 accepted, transmitted, debug>>

(* drain(), one character ... *)
PopBack == <<Last(tx_buffer), Front(tx_buffer)>>  \* mutant: pop_back for pop
Pop == <<Head(tx_buffer), Tail(tx_buffer)>>
Drain ==
  /\ serving # Nobody /\ tx_buffer # <<>>
  /\ putc(Pop[1])
  /\ tx_buffer' = Pop[2]
  /\ UNCHANGED <<can_reply_to_notifier, buffer_has_pending_tx, inbox, serving, len,
                 notifier, txim, accepted, transmitted, debug>>

(* ... until the buffer is empty or the FIFO full; then the replies, to the *)
(* printer, and to the notifier if there is text left to transmit.          *)
NeverResume(pending) == FALSE  \* mutant: a SendMsg does not resume the notifier
Resumes(pending) == can_reply_to_notifier /\ pending
StillHeld == TRUE  \* mutant: can_reply_to_notifier is not reset
Released == FALSE
Answered(p) == p = serving
HandlerEnd ==
  /\ serving # Nobody
  /\ tx_buffer = <<>> \/ Len(fifo) = FifoSize
  /\ serving' = Nobody
  /\ buffer_has_pending_tx' = (tx_buffer # <<>>)
  /\ len' = [p \in Printers |-> IF Answered(p) THEN 0 ELSE len[p]]
  /\ \/ /\ Resumes(buffer_has_pending_tx')
        /\ can_reply_to_notifier' = Released
        /\ notifier' = "runs"
     \/ /\ ~Resumes(buffer_has_pending_tx')
        /\ UNCHANGED <<can_reply_to_notifier, notifier>>
  /\ UNCHANGED <<tx_buffer, inbox, uart, accepted, transmitted, debug>>

ServerStep == ReceiveInterrupt \/ Drain \/ HandlerEnd \/ \E p \in Printers : ReceiveText(p)
NotifierStep == Await \/ SendInterrupt

Next == Transmit \/ DebugPutc \/ UartIrq \/ OtherUartIrq \/ NotifierStep \/ ServerStep
          \/ \E p \in Printers : Puts(p)

Spec == Init /\ [][Next]_vars

(* The UART transmits; the kernel takes a pending interrupt; the server and *)
(* the notifier, at priority 2, run when they are ready.                    *)
FairSpec == Spec /\ WF_vars(Transmit) /\ WF_vars(UartIrq) /\ WF_vars(ServerStep) /\ WF_vars(NotifierStep)
-----------------------------------------------------------------------------
(* Type invariant. *)
TypeOK ==
  /\ tx_buffer \in Seq(Nat) /\ fifo \in Seq(Nat)
  /\ inbox \in Seq(Task) /\ serving \in Task \cup {Nobody}
  /\ can_reply_to_notifier \in BOOLEAN /\ buffer_has_pending_tx \in BOOLEAN
  /\ txim \in BOOLEAN /\ ris \in BOOLEAN
  /\ len \in [Printers -> 0..MaxLen]
  /\ notifier \in {"runs", "awaits", "woken", "sent"}
  /\ accepted \in Nat /\ transmitted \in Nat /\ debug \in Nat

(* The characters accepted leave in order, none is lost, none doubled, with *)
(* debug output at most in between: those in the FIFO and behind it in the  *)
(* buffer are the ones accepted and not yet transmitted, and they rise.     *)
InOrder ==
  LET line == fifo \o tx_buffer
  IN  /\ ToSet(line) \ {0} = (transmitted + 1)..accepted
      /\ \A i, j \in DOMAIN line : i < j /\ line[i] # 0 /\ line[j] # 0 => line[i] < line[j]
      /\ 0 \notin ToSet(tx_buffer)

(* While there is text to transmit and the server waits for a message, its  *)
(* notifier is on its way: never held back by the server, and if it awaits  *)
(* the event, the interrupt is unmasked and raised or still to be raised.   *)
(* The server holds back a reply only to a notifier blocked in its Send: a  *)
(* second reply would answer whatever the notifier waits for next.          *)
WakeupComing ==
  /\ serving = Nobody /\ tx_buffer # <<>> =>
       /\ ~can_reply_to_notifier
       /\ notifier = "awaits" => txim /\ (ris \/ Len(fifo) > Trigger)
  /\ can_reply_to_notifier => notifier = "sent" /\ Notifier \notin ToSet(inbox)

(* The inductive invariant behind the two above: where the notifier is, who  *)
(* is queued, and that a server that waits has left the FIFO full enough to  *)
(* raise the interrupt.                                                      *)
SendersBlocked ==
  /\ IsInjective(inbox)
  /\ \A p \in Printers : p \in ToSet(inbox) \/ p = serving => len[p] # 0
  /\ \A p \in Printers : p = serving => p \notin ToSet(inbox)

NotifierKnown ==
  /\ txim <=> notifier = "awaits"
  /\ notifier = "sent" <=> Notifier \in ToSet(inbox) \/ can_reply_to_notifier
  /\ can_reply_to_notifier => Notifier \notin ToSet(inbox)
  /\ serving = Notifier => can_reply_to_notifier

RoomComing ==
  /\ Len(fifo) <= FifoSize /\ Len(tx_buffer) <= TX_BUFFER_SIZE /\ transmitted <= accepted
  /\ serving = Nobody /\ tx_buffer # <<>> =>
       ~can_reply_to_notifier /\ (ris \/ Len(fifo) > Trigger)

IInv == TypeOK /\ InOrder /\ SendersBlocked /\ NotifierKnown /\ RoomComing

(* All text is transmitted in the end, also when nobody prints any more. *)
AllTransmitted == (tx_buffer # <<>>) ~> (tx_buffer = <<>>)
=============================================================================
