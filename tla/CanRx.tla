-------------------------------- MODULE CanRx --------------------------------
(***************************************************************************)
(* Reception of CAN frames: the two receive buffers of the MCP2515, the    *)
(* kernel's CAN_RX_IRQ event and rx_can_worker of the train controller.    *)
(* The kernel reads the controller over SPI, a register at a time, while   *)
(* frames arrive.  Frames are numbered as they arrive; 0 is no frame.      *)
(***************************************************************************)
EXTENDS Naturals, Sequences, SequencesExt

CONSTANT MaxFrames  \* bound: frames that arrive

ASSUME CanRxAssumption == MaxFrames \in Nat

Buffer == {0, 1}

VARIABLES
  rxb,        \* frame in each receive buffer; its flag in CANINTF is rxb[b] # 0
  enabled,    \* both receive interrupts are enabled in CANINTE
  read_rx0,   \* the buffer that mcp2515_recieve reads next
  active,     \* the flags it read
  frame,      \* the worker's frame
  worker,     \* where it is: "await", "arm", "blocked", "receive", "read", "send"
  frames,     \* history: how many frames arrived,
  overflowed, \* which of them found both buffers full,
  raced,      \* whether one arrived while mcp2515_recieve was under way,
  delivered   \* and what the worker sent on
canVars == <<rxb, enabled, read_rx0, active, frame, worker, frames, overflowed, raced, delivered>>

CanInit ==
  /\ rxb = [b \in Buffer |-> 0]
  /\ enabled = FALSE /\ read_rx0 = TRUE
  /\ active = {} /\ frame = 0
  /\ worker = "await"
  /\ frames = 0 /\ overflowed = {} /\ raced = FALSE /\ delivered = <<>>

Flags == {b \in Buffer : rxb[b] # 0}

(* A frame goes to buffer 0, rolls over to buffer 1, or is lost. *)
FrameArrives ==
  /\ frames < MaxFrames
  /\ frames' = frames + 1
  /\ raced' = (raced \/ worker = "read")
  /\ \/ /\ Flags # Buffer
        /\ rxb' = [rxb EXCEPT ![IF 0 \in Flags THEN 1 ELSE 0] = frames']
        /\ UNCHANGED overflowed
     \/ /\ Flags = Buffer
        /\ overflowed' = overflowed \cup {frames'}
        /\ UNCHANGED rxb
  /\ UNCHANGED <<enabled, read_rx0, active, frame, worker, delivered>>

(* await_event(CAN_RX_IRQ): a frame that is already there is handled at     *)
(* once, else the interrupts are enabled.                                   *)
AwaitFrame ==
  /\ worker = "await"
  /\ worker' = IF Flags = {} THEN "arm" ELSE "receive"
  /\ UNCHANGED <<rxb, enabled, read_rx0, active, frame, frames, overflowed, raced, delivered>>

(* The flags and the enable bits are two registers. *)
NotArmed == enabled  \* mutant: a second wait does not enable the interrupts again
Armed == TRUE
Arm ==
  /\ worker = "arm" /\ worker' = "blocked"
  /\ enabled' = Armed
  /\ UNCHANGED <<rxb, read_rx0, active, frame, frames, overflowed, raced, delivered>>

(* handle_mcp2515_irq masks what is pending and wakes the worker. *)
Irq ==
  /\ worker = "blocked" /\ enabled /\ Flags # {}
  /\ enabled' = FALSE
  /\ worker' = "receive"
  /\ UNCHANGED <<rxb, read_rx0, active, frame, frames, overflowed, raced, delivered>>

(* mcp2515_recieve: the flags ... *)
ReadFlags ==
  /\ worker = "receive" /\ worker' = "read"
  /\ active' = Flags
  /\ UNCHANGED <<rxb, enabled, read_rx0, frame, frames, overflowed, raced, delivered>>

(* ... then one buffer, which clears its flag.  An empty buffer leaves the  *)
(* caller's frame as it was; the worker does not look at the result.        *)
NeverSwitch == TRUE  \* mutant: buffer 0 is always read
NextBuffer == IF active = Buffer THEN ~read_rx0 ELSE TRUE
ReadBuffer ==
  LET b == IF read_rx0 THEN 0 ELSE 1
  IN  /\ worker = "read" /\ worker' = "send"
      /\ frame' = IF rxb[b] # 0 THEN rxb[b] ELSE frame
      /\ rxb' = [c \in Buffer |-> IF c = b THEN 0 ELSE rxb[c]]
      /\ read_rx0' = NextBuffer
      /\ UNCHANGED <<enabled, active, frames, overflowed, raced, delivered>>

(* send(TC::RX). *)
Deliver ==
  /\ worker = "send" /\ worker' = "await"
  /\ Len(delivered) < 2 * MaxFrames   \* bound
  /\ delivered' = Append(delivered, frame)
  /\ UNCHANGED <<rxb, enabled, read_rx0, active, frame, frames, overflowed, raced>>

WorkerStep == AwaitFrame \/ Arm \/ ReadFlags \/ ReadBuffer \/ Deliver
CanNext == FrameArrives \/ Irq \/ WorkerStep
CanSpec == CanInit /\ [][CanNext]_canVars
CanFairSpec == CanSpec /\ WF_canVars(Irq) /\ WF_canVars(WorkerStep)
-----------------------------------------------------------------------------
(* Frames are passed on in the order in which they arrived, none twice: but *)
(* one that arrives after the flags were read and before the buffer is can  *)
(* be passed by, and the frame before it is sent on again.                  *)
FifoOrder == raced \/ \A i \in 1..(Len(delivered) - 1) : delivered[i] < delivered[i + 1]

(* Every frame that found a buffer free is passed on, but for such a one.   *)
AllDelivered ==
  \A f \in 1..MaxFrames :
    (f <= frames /\ f \notin overflowed) ~> (f \in ToSet(delivered) \/ raced)
-----------------------------------------------------------------------------
CanTypeOK ==
  /\ rxb \in [Buffer -> Nat] /\ enabled \in BOOLEAN /\ read_rx0 \in BOOLEAN
  /\ active \in SUBSET Buffer /\ frame \in Nat /\ frames \in Nat
  /\ worker \in {"await", "arm", "blocked", "receive", "read", "send"}
  /\ overflowed \in SUBSET Nat /\ raced \in BOOLEAN /\ delivered \in Seq(Nat)

(* A frame that arrived and comes after all that were sent on. *)
New(f) == f \in 1..frames /\ \A i \in DOMAIN delivered : delivered[i] < f

(* The buffer that is read next has the older frame, and has one when there *)
(* is any.                                                                  *)
OldestNext ==
  /\ \A i \in DOMAIN delivered : delivered[i] <= frames
  /\ \A b \in Flags : New(rxb[b])
  /\ read_rx0 /\ 1 \in Flags => 0 \in Flags /\ rxb[0] < rxb[1]
  /\ ~read_rx0 => 1 \in Flags /\ (0 \in Flags => rxb[1] < rxb[0])

(* The worker was woken for a frame, has read the flags as they are, and    *)
(* has got a frame older than those in the buffers.                         *)
WorkerSound ==
  /\ worker = "receive" => Flags # {}
  /\ worker = "read" => active = Flags /\ Flags # {}
  /\ worker = "send" => New(frame) /\ \A b \in Flags : frame < rxb[b]

CanIInv == CanTypeOK /\ FifoOrder /\ (raced \/ (OldestNext /\ WorkerSound))
=============================================================================
