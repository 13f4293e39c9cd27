------------------------------- MODULE Kernel -------------------------------
(***************************************************************************)
(* The microkernel: task table, scheduler, send/receive/reply and events.  *)
(*                                                                         *)
(* The kernel runs on one core with interrupts masked, so user tasks see   *)
(* each system call and each batch of interrupts as one atomic step.  The  *)
(* module is finer than that where the code has a loop: the two loops that *)
(* wake tasks (over a sender queue in EXIT, over an event buffer in        *)
(* handle_event) and the loop over pending interrupts take one step per    *)
(* iteration, and "mode" says which loop the kernel is in.                 *)
(*                                                                         *)
(* User tasks are arbitrary programs: the running task may make any system *)
(* call with any arguments, or be interrupted.  Message contents, register *)
(* results and stacks are left out; what a blocked task waits for is kept. *)
(***************************************************************************)
EXTENDS Naturals, Sequences, FiniteSets, Functions

CONSTANTS
  MaxTasks,   \* MAX_TASKS, the number of task descriptors
  Levels,     \* PRIORITY_LEVELS
  SenderCap,  \* capacity of TaskDescriptor::sender_queue
  MaxTid,     \* bound: how many tasks are ever created (next_tid is unbounded)
  Awaited,    \* bound: the events that tasks wait for or emit
  Idlers,     \* tids of tasks that run idle_task, whose only call is park()
  NoTask      \* "no task is running"

Tid == 0..(MaxTid - 1)
Slot == 0..(MaxTasks - 1)
Priority == 0..(Levels - 1)

Event == {"CLOCK_TICK", "DELAY_5S", "UART_RX_IRQ", "UART_TX_IRQ",
          "UART3_TX_IRQ", "CAN_RX_IRQ", "CAN_TX_IRQ", "TASK_EXIT"}
UartEvents == {"UART_RX_IRQ", "UART_TX_IRQ", "UART3_TX_IRQ"}
CanEvents == {"CAN_RX_IRQ", "CAN_TX_IRQ"}
OneShotNoUart == {"DELAY_5S"} \cup CanEvents  \* mutant: masked, not uninitialized
OneShot == {"DELAY_5S"} \cup UartEvents \cup CanEvents  \* uninitialized by handle_event
FirstOnly == {"DELAY_5S", "CAN_RX_IRQ"}                 \* wake one waiter, not all

(* The interrupt lines of the GIC and the events that can pull each one. *)
Line == {"TIMER_C1", "TIMER_C3", "UART", "MCP2515"}
Sources(line) == CASE line = "TIMER_C1" -> {"CLOCK_TICK"}
                   [] line = "TIMER_C3" -> {"DELAY_5S"}
                   [] line = "UART"     -> UartEvents
                   [] line = "MCP2515"  -> CanEvents

TaskStatus == {"READY", "RUNNING", "W4_RECEIVE", "W4_REPLY", "W4_SEND", "TERMINATED"}
Mode == {"user", "kernel", "exit", "emit", "irq", "halted"}

ASSUME KernelAssumption ==
  /\ MaxTasks \in Nat \ {0}
  /\ Levels \in Nat \ {0}
  /\ SenderCap \in Nat \ {0}
  /\ MaxTid \in Nat \ {0}
  /\ Awaited \subseteq Event
  /\ Idlers \subseteq Tid
  /\ NoTask \notin Tid

VARIABLES
  next_tid,           \* TaskTable
  allocator,          \* free descriptor slots, a FIFO
  tid_to_descriptor,  \* partial function from live tids to slots
  td_tid, td_priority, td_state, sender_queue,  \* TaskDescriptor, by slot
  send_to,            \* x0 in the trap frame of a task blocked in Send, by tid
  dropped,            \* history: senders whose push to a full sender_queue failed
  schedules,          \* Scheduler: one FIFO per priority
  event_buffers,      \* EventController: tasks waiting for each event
  initialized,        \* initialized_events
  unmasked,           \* events whose interrupt source is enabled in its device
  draining,           \* events whose waiters handle_event is still waking
  lines,              \* interrupt lines handle_interrupt has still to serve
  mode,               \* where the kernel's control is
  running             \* the task that trapped, or runs, or NoTask

table == <<next_tid, allocator, tid_to_descriptor, td_tid, td_priority>>
ipc == <<sender_queue, send_to, dropped>>
events == <<event_buffers, initialized, unmasked, draining>>
vars == <<table, td_state, ipc, schedules, events, lines, mode, running>>

Live == DOMAIN tid_to_descriptor
SlotOf(t) == tid_to_descriptor[t]
State(t) == td_state[SlotOf(t)]

(* Scheduler::schedule(td): append the descriptor's tid to the queue of its *)
(* priority.  The code panics when the queue is full; QueuesNeverFull says  *)
(* that it never is.                                                        *)
ScheduleFront(queues, t) ==  \* mutant: last in, first out
  [queues EXCEPT ![td_priority[SlotOf(t)]] = <<td_tid[SlotOf(t)]>> \o @]
Schedule(queues, t) ==
  [queues EXCEPT ![td_priority[SlotOf(t)]] = Append(@, td_tid[SlotOf(t)])]

Init ==
  /\ next_tid = 1
  /\ allocator = [i \in 1..(MaxTasks - 1) |-> i]
  /\ tid_to_descriptor = [t \in {0} |-> 0]
  /\ td_tid = [s \in Slot |-> 0]
  /\ td_priority = [s \in Slot |-> 0]
  /\ td_state = [s \in Slot |-> "READY"]
  /\ sender_queue = [s \in Slot |-> <<>>]
  /\ send_to = [t \in Tid |-> NoTask]
  /\ dropped = {}
  /\ schedules = [p \in Priority |-> IF p = 0 THEN <<0>> ELSE <<>>]
  /\ event_buffers = [e \in Event |-> <<>>]
  /\ initialized = {}
  /\ unmasked = {}
  /\ draining = <<>>
  /\ lines = {}
  /\ mode = "kernel"
  /\ running = NoTask
-----------------------------------------------------------------------------
(* The kernel loop.                                                         *)

(* get_task, lookup_td and activate_task: the head of the first queue that  *)
(* is not empty runs; a tid without a descriptor stops the kernel.          *)
Dispatch(p) ==
  /\ mode = "kernel" /\ draining = <<>>
  /\ schedules[p] # <<>>
  /\ \A q \in 0..(p - 1) : schedules[q] = <<>>
  /\ schedules' = [schedules EXCEPT ![p] = Tail(@)]
  /\ LET t == Head(schedules[p])
     IN  IF t \in Live
         THEN /\ mode' = "user" /\ running' = t
              /\ td_state' = [td_state EXCEPT ![SlotOf(t)] = "RUNNING"]
         ELSE mode' = "halted" /\ UNCHANGED <<running, td_state>>
  /\ UNCHANGED <<table, ipc, events, lines>>

(* No task is ready: the kernel leaves its loop and never returns. *)
Halt ==
  /\ mode = "kernel" /\ draining = <<>>
  /\ \A p \in Priority : schedules[p] = <<>>
  /\ mode' = "halted"
  /\ UNCHANGED <<table, td_state, ipc, schedules, events, lines, running>>

Calls(t) == mode = "user" /\ running = t
CallsAny(t) == Calls(t) /\ t \notin Idlers
ReturnToKernel == mode' = "kernel" /\ running' = NoTask

(* A call that only puts the caller back in its queue; its descriptor keeps *)
(* the state RUNNING.  MyTid, MyParentTid, KernelIdlePct, TxCan and RxCan,  *)
(* and every call that fails its argument checks.                           *)
Resume(t) ==
  /\ schedules' = Schedule(schedules, t)
  /\ ReturnToKernel
  /\ UNCHANGED <<table, td_state, ipc, events, lines>>

Query(t) == CallsAny(t) /\ Resume(t)

MakeReady(t) ==
  /\ td_state' = [td_state EXCEPT ![SlotOf(t)] = "READY"]
  /\ schedules' = Schedule(schedules, t)
  /\ ReturnToKernel

Yield(t) ==
  /\ CallsAny(t)
  /\ MakeReady(t)
  /\ UNCHANGED <<table, ipc, events, lines>>

(* wfi inside the kernel, then the same as Yield. *)
Park(t) ==
  /\ Calls(t)
  /\ MakeReady(t)
  /\ UNCHANGED <<table, ipc, events, lines>>
-----------------------------------------------------------------------------
(* Tasks.                                                                   *)

ValidPriority(p) == p < Levels

(* create_task: the oldest free slot, the next tid, a fresh descriptor.     *)
CreateTask(p) ==
  /\ next_tid < MaxTid
  /\ ValidPriority(p) /\ allocator # <<>>
  /\ next_tid' = next_tid + 1
  /\ allocator' = Tail(allocator)
  /\ LET s == Head(allocator)
     IN  /\ tid_to_descriptor' = [t \in Live \cup {next_tid} |->
                                    IF t = next_tid THEN s ELSE SlotOf(t)]
         /\ td_tid' = [td_tid EXCEPT ![s] = next_tid]
         /\ td_priority' = [td_priority EXCEPT ![s] = p]
         /\ td_state' = [td_state EXCEPT ![s] = "READY"]
         /\ sender_queue' = [sender_queue EXCEPT ![s] = <<>>]

(* The new task is scheduled before its creator. *)
Create(t, p) ==
  /\ CallsAny(t)
  /\ CreateTask(p)
  /\ schedules' = Schedule([schedules EXCEPT ![p] = Append(@, next_tid)], t)
  /\ ReturnToKernel
  /\ UNCHANGED <<send_to, dropped, events, lines>>

CreateFails(t, p) ==
  /\ CallsAny(t)
  /\ ~ValidPriority(p) \/ allocator = <<>>
  /\ Resume(t)

(* exit() first wakes the tasks that queued a message for the caller ... *)
Exit(t) ==
  /\ CallsAny(t)
  /\ td_state' = [td_state EXCEPT ![SlotOf(t)] = "TERMINATED"]
  /\ mode' = "exit"
  /\ UNCHANGED <<table, ipc, schedules, events, lines, running>>

ExitWakeSender(t) ==
  /\ mode = "exit" /\ running = t
  /\ sender_queue[SlotOf(t)] # <<>>
  /\ LET from == Head(sender_queue[SlotOf(t)])
     IN  IF from \in Live
         THEN /\ td_state' = [td_state EXCEPT ![SlotOf(from)] = "READY"]
              /\ schedules' = Schedule(schedules, from)
              /\ send_to' = [send_to EXCEPT ![from] = NoTask]
         ELSE UNCHANGED <<td_state, schedules, send_to>>
  /\ sender_queue' = [sender_queue EXCEPT ![SlotOf(t)] = Tail(@)]
  /\ UNCHANGED <<table, dropped, events, lines, mode, running>>

(* The one-time part of handle_event for the events es, of which the        *)
(* sources in masked are disabled; their waiters are then woken by WakeNext.*)
HandleEvents(es, masked) ==
  /\ unmasked' = unmasked \ masked
  /\ initialized' = initialized \ (Range(es) \cap OneShot)
  /\ draining' = es
  /\ UNCHANGED event_buffers

(* delete_task. *)
DeleteTask(t) ==
  /\ tid_to_descriptor' = Restrict(tid_to_descriptor, Live \ {t})
  /\ allocator' = Append(allocator, SlotOf(t))

(* ... then deletes the descriptor and signals TASK_EXIT.  Tasks waiting    *)
(* for a reply from the caller are left as they are.                        *)
ExitDelete(t) ==
  /\ mode = "exit" /\ running = t
  /\ sender_queue[SlotOf(t)] = <<>>
  /\ DeleteTask(t)
  /\ HandleEvents(<<"TASK_EXIT">>, {})
  /\ ReturnToKernel
  /\ UNCHANGED <<next_tid, td_tid, td_priority, td_state, ipc, schedules, lines>>
-----------------------------------------------------------------------------
(* Send, receive, reply.                                                    *)

SendFailsBlocks(t, to) ==  \* mutant: the error path forgets the caller
  /\ CallsAny(t)
  /\ to \notin Live \/ to = t
  /\ ReturnToKernel
  /\ UNCHANGED <<table, td_state, ipc, schedules, events, lines>>
SendFails(t, to) ==
  /\ CallsAny(t)
  /\ to \notin Live \/ to = t
  /\ Resume(t)

ListeningSwapped(to) == State(to) = "W4_RECEIVE"  \* mutant: the two waits confused
Listening(to) == State(to) = "W4_SEND"

(* The receiver waits in Receive: it gets the message at once. *)
SendToReceiver(t, to) ==
  /\ CallsAny(t)
  /\ to \in Live \ {t}
  /\ Listening(to)
  /\ td_state' = [td_state EXCEPT ![SlotOf(t)] = "W4_REPLY", ![SlotOf(to)] = "READY"]
  /\ send_to' = [send_to EXCEPT ![t] = to]
  /\ schedules' = Schedule(schedules, to)
  /\ ReturnToKernel
  /\ UNCHANGED <<table, sender_queue, dropped, events, lines>>

(* Otherwise the sender queues; a full queue drops it, unnoticed. *)
SendQueued(t, to) ==
  /\ CallsAny(t)
  /\ to \in Live \ {t}
  /\ ~Listening(to)
  /\ td_state' = [td_state EXCEPT ![SlotOf(t)] = "W4_RECEIVE"]
  /\ send_to' = [send_to EXCEPT ![t] = to]
  /\ IF Len(sender_queue[SlotOf(to)]) < SenderCap
     THEN /\ sender_queue' = [sender_queue EXCEPT ![SlotOf(to)] = Append(@, t)]
          /\ UNCHANGED dropped
     ELSE dropped' = dropped \cup {t} /\ UNCHANGED sender_queue
  /\ ReturnToKernel
  /\ UNCHANGED <<table, schedules, events, lines>>

ReceiveQueued(t) ==
  /\ CallsAny(t)
  /\ sender_queue[SlotOf(t)] # <<>>
  /\ sender_queue' = [sender_queue EXCEPT ![SlotOf(t)] = Tail(@)]
  /\ LET from == Head(sender_queue[SlotOf(t)])
     IN  IF from \in Live
         THEN /\ td_state' = [td_state EXCEPT ![SlotOf(from)] = "W4_REPLY",
                                              ![SlotOf(t)] = "READY"]
              /\ schedules' = Schedule(schedules, t)
         ELSE /\ td_state' = [td_state EXCEPT ![SlotOf(t)] = "W4_SEND"]
              /\ UNCHANGED schedules
  /\ ReturnToKernel
  /\ UNCHANGED <<table, send_to, dropped, events, lines>>

ReceiveBlocks(t) ==
  /\ CallsAny(t)
  /\ sender_queue[SlotOf(t)] = <<>>
  /\ td_state' = [td_state EXCEPT ![SlotOf(t)] = "W4_SEND"]
  /\ ReturnToKernel
  /\ UNCHANGED <<table, ipc, schedules, events, lines>>

MayReplyUnchecked(to) == to \in Live  \* mutant: the state is not checked
MayReply(to) == to \in Live /\ State(to) = "W4_REPLY"

ReplyFails(t, to) ==
  /\ CallsAny(t)
  /\ ~MayReply(to)
  /\ Resume(t)

(* Any task may reply to any task that waits for a reply; the woken task is *)
(* scheduled before the replier.                                            *)
Reply(t, to) ==
  /\ CallsAny(t)
  /\ MayReply(to)
  /\ td_state' = [td_state EXCEPT ![SlotOf(to)] = "READY"]
  /\ send_to' = [send_to EXCEPT ![to] = NoTask]
  /\ schedules' = Schedule(Schedule(schedules, to), t)
  /\ ReturnToKernel
  /\ UNCHANGED <<table, sender_queue, dropped, events, lines>>
-----------------------------------------------------------------------------
(* Events and interrupts.                                                   *)

(* await_event: queue the caller and arm the event unless it is armed.  A   *)
(* CAN event whose flag is already set in the controller ("active") is      *)
(* handled at once instead of being unmasked.                               *)
AwaitEvent(t, e) ==
  /\ CallsAny(t)
  /\ event_buffers' = [event_buffers EXCEPT ![e] = Append(@, t)]
  /\ \E active \in BOOLEAN :
       \/ /\ e \in CanEvents \ initialized /\ active
          /\ draining' = <<e>>
          /\ UNCHANGED <<initialized, unmasked>>
       \/ /\ e \notin CanEvents \ initialized \/ ~active
          /\ initialized' = initialized \cup {e}
          /\ unmasked' = IF e \in initialized \cup {"TASK_EXIT"} THEN unmasked
                         ELSE unmasked \cup {e}
          /\ UNCHANGED draining
  /\ ReturnToKernel
  /\ UNCHANGED <<table, td_state, ipc, schedules, lines>>

EmitEvent(t, e) ==
  /\ CallsAny(t)
  /\ HandleEvents(<<e>>, {e} \cap UartEvents)
  /\ mode' = "emit"
  /\ UNCHANGED <<table, td_state, ipc, schedules, lines, running>>

EmitDone(t) ==
  /\ mode = "emit" /\ running = t
  /\ draining = <<>>
  /\ Resume(t)

(* One iteration of the loop in handle_event over the waiters of the event. *)
(* DELAY_5S re-arms its timer while tasks still wait.                       *)
WakeNext ==
  /\ draining # <<>>
  /\ LET e == Head(draining)
         waiters == event_buffers[e]
         t == Head(waiters)
     IN  \/ /\ waiters = <<>>
            /\ draining' = Tail(draining)
            /\ UNCHANGED <<schedules, event_buffers, initialized>>
         \/ /\ waiters # <<>>
            /\ event_buffers' = [event_buffers EXCEPT ![e] = Tail(@)]
            /\ IF t \in Live
               THEN /\ schedules' = Schedule(schedules, t)
                    /\ draining' = IF e \in FirstOnly THEN Tail(draining) ELSE draining
                    /\ initialized' = IF e = "DELAY_5S" /\ Tail(waiters) # <<>>
                                      THEN initialized \cup {e} ELSE initialized
               ELSE UNCHANGED <<schedules, draining, initialized>>
  /\ UNCHANGED <<table, td_state, ipc, unmasked, lines, mode, running>>

(* The running task is interrupted; pending is the set of lines the GIC     *)
(* reports before handle_interrupt reads the spurious id.  Within one batch *)
(* each line is served once: serving it masks it or re-arms it for later.   *)
Interrupt(t) ==
  /\ Calls(t)
  /\ \E pending \in SUBSET {line \in Line : Sources(line) \cap unmasked # {}} :
       pending # {} /\ lines' = pending
  /\ mode' = "irq"
  /\ UNCHANGED <<table, td_state, ipc, schedules, events, running>>

HandleTimerIrq ==
  \E line \in lines \cap {"TIMER_C1", "TIMER_C3"} :
    /\ mode = "irq" /\ draining = <<>>
    /\ lines' = lines \ {line}
    /\ HandleEvents(<<IF line = "TIMER_C1" THEN "CLOCK_TICK" ELSE "DELAY_5S">>, {})
    /\ UNCHANGED <<table, td_state, ipc, schedules, mode, running>>

(* RX is signalled when its masked status says so; both transmit events are *)
(* signalled whatever caused the interrupt.                                 *)
HandleUartIrq ==
  /\ mode = "irq" /\ draining = <<>>
  /\ "UART" \in lines /\ lines' = lines \ {"UART"}
  /\ \/ /\ "UART_RX_IRQ" \in unmasked
        /\ HandleEvents(<<"UART_RX_IRQ", "UART_TX_IRQ", "UART3_TX_IRQ">>, UartEvents)
     \/ HandleEvents(<<"UART_TX_IRQ", "UART3_TX_IRQ">>, UartEvents \ {"UART_RX_IRQ"})
  /\ UNCHANGED <<table, td_state, ipc, schedules, mode, running>>

(* source is what the controller's flag register says.  All of it is masked *)
(* but only one event is signalled: RX wins over TX.                        *)
HandleMcp2515Irq ==
  /\ mode = "irq" /\ draining = <<>>
  /\ "MCP2515" \in lines /\ lines' = lines \ {"MCP2515"}
  /\ \E source \in SUBSET CanEvents :
       /\ source \cap unmasked # {}
       /\ HandleEvents(<<IF "CAN_RX_IRQ" \in source THEN "CAN_RX_IRQ" ELSE "CAN_TX_IRQ">>,
                       source)
  /\ UNCHANGED <<table, td_state, ipc, schedules, mode, running>>

(* The interrupted task yields. *)
EndInterrupt(t) ==
  /\ mode = "irq" /\ running = t
  /\ draining = <<>> /\ lines = {}
  /\ MakeReady(t)
  /\ UNCHANGED <<table, ipc, events, lines>>
-----------------------------------------------------------------------------
Syscall(t) ==
  \/ Query(t) \/ Yield(t) \/ Park(t) \/ Exit(t)
  \/ \E p \in 0..Levels : Create(t, p) \/ CreateFails(t, p)
  \/ \E to \in Tid : \/ SendFails(t, to) \/ SendToReceiver(t, to) \/ SendQueued(t, to)
                     \/ ReplyFails(t, to) \/ Reply(t, to)
  \/ ReceiveQueued(t) \/ ReceiveBlocks(t)
  \/ \E e \in Awaited : AwaitEvent(t, e) \/ EmitEvent(t, e)

KernelStep ==
  \/ \E p \in Priority : Dispatch(p)
  \/ Halt
  \/ WakeNext
  \/ HandleTimerIrq \/ HandleUartIrq \/ HandleMcp2515Irq
  \/ \E t \in Tid : ExitWakeSender(t) \/ ExitDelete(t) \/ EmitDone(t) \/ EndInterrupt(t)

Next == KernelStep \/ \E t \in Tid : Syscall(t) \/ Interrupt(t)

Spec == Init /\ [][Next]_vars

(* The kernel never stops in the middle of its own code, and a task that    *)
(* has the processor ends in a system call or is interrupted by the clock.  *)
FairSpec == Spec /\ WF_vars(KernelStep) /\ WF_vars(\E t \in Tid : Syscall(t) \/ Interrupt(t))
-----------------------------------------------------------------------------
(* Type invariant. *)
TypeOK ==
  /\ next_tid \in 1..MaxTid
  /\ allocator \in Seq(Slot)
  /\ Live \subseteq Tid /\ tid_to_descriptor \in [Live -> Slot]
  /\ td_tid \in [Slot -> Tid]
  /\ td_priority \in [Slot -> Priority]
  /\ td_state \in [Slot -> TaskStatus]
  /\ sender_queue \in [Slot -> Seq(Tid)]
  /\ send_to \in [Tid -> Tid \cup {NoTask}]
  /\ dropped \subseteq Tid
  /\ schedules \in [Priority -> Seq(Tid)]
  /\ event_buffers \in [Event -> Seq(Tid)]
  /\ initialized \subseteq Event
  /\ unmasked \subseteq Event
  /\ draining \in Seq(Event)
  /\ lines \subseteq Line
  /\ mode \in Mode
  /\ running \in Tid \cup {NoTask}
  /\ mode \in {"user", "exit", "emit", "irq"} => running \in Live

(* Every place in the kernel that a live task can be, with its position. *)
QueuePlaces(kind, queues, t) ==
  UNION {{<<kind, q, i>> : i \in {j \in DOMAIN queues[q] : queues[q][j] = t}} : q \in DOMAIN queues}
Places(t) ==
  (IF running = t THEN {<<"running", 0, 0>>} ELSE {})
    \cup (IF State(t) \in {"W4_SEND", "W4_REPLY"} THEN {<<"blocked", 0, 0>>} ELSE {})
    \cup QueuePlaces("ready", schedules, t)
    \cup QueuePlaces("sender", sender_queue, t)
    \cup QueuePlaces("event", event_buffers, t)
(* No live task is in two places at once: a task that runs, is ready, waits *)
(* for an event, waits in a sender queue or is blocked in SRR is only that. *)
(* schedule() is called from eleven sites and checks nothing; a task queued *)
(* twice would run on after a Send that had not been answered.              *)
OnePlace == \A t \in Live : \A x, y \in Places(t) : x = y

(* A live task is nowhere if and only if its Send found a full sender       *)
(* queue, and that takes SenderCap other senders blocked on one receiver:   *)
(* with room for every task but the receiver, no task is ever lost.         *)
NoTaskLost ==
  /\ \A t \in Live : Places(t) = {} <=> t \in dropped
  /\ SenderCap >= MaxTasks - 1 => dropped = {}

(* Every tid that is queued has a descriptor: the loop in kmain never stops *)
(* at "invalid tid in scheduler", and the asserts on sender queues and      *)
(* event buffers never print.                                               *)
QueuedTasksLive ==
  /\ \A p \in Priority : Range(schedules[p]) \subseteq Live
  /\ \A e \in Event : Range(event_buffers[e]) \subseteq Live
  /\ \A t \in Live : Range(sender_queue[SlotOf(t)]) \subseteq Live

(* Reusing slots never mixes tasks up: a live tid finds the descriptor made *)
(* for it, no two tids share one, and the allocator holds each other slot   *)
(* exactly once.                                                            *)
DescriptorsOwned ==
  /\ \A t \in Live : td_tid[SlotOf(t)] = t
  /\ IsInjective(tid_to_descriptor)
  /\ IsInjective(allocator)
  /\ Range(allocator) = Slot \ Range(tid_to_descriptor)

(* The ready queues and event buffers hold at most MAX_TASKS tids, so       *)
(* "scheduler queue full" never panics and no event waiter is dropped,      *)
(* although neither caller checks for room.                                 *)
QueuesNeverFull ==
  /\ \A p \in Priority : Len(schedules[p]) <= MaxTasks
  /\ \A e \in Event : Len(event_buffers[e]) <= MaxTasks

(* A task blocked in Receive has no queued sender: no message waits for a   *)
(* receiver that sleeps.                                                    *)
NoMissedRendezvous ==
  \A t \in Live : State(t) = "W4_SEND" => sender_queue[SlotOf(t)] = <<>>

(* A queued sender waits on the task it addressed, in the state that Exit   *)
(* and Receive assume when they wake it.                                    *)
SendersMatch ==
  \A r \in Live : \A t \in Range(sender_queue[SlotOf(r)]) :
    State(t) = "W4_RECEIVE" /\ send_to[t] = r

(* A task queued on a timer or UART event will be signalled: the event is   *)
(* initialized and its source enabled, or its waiters are being woken now.  *)
(* (The CAN events do not have this; see the README.)                       *)
WaiterArmed ==
  \A e \in Event \ (CanEvents \cup {"TASK_EXIT"}) :
    event_buffers[e] # <<>> /\ e \notin Range(draining)
      => e \in initialized \cap unmasked

(* The inductive invariant behind OnePlace, QueuedTasksLive, SendersMatch   *)
(* and NoMissedRendezvous: what the kernel's queues say of the descriptors, *)
(* and what the kernel's control says of the task that trapped.             *)
ReadyQueuesSound ==
  \A p \in Priority :
    /\ IsInjective(schedules[p])
    /\ \A t \in Range(schedules[p]) :
         /\ t \in Live \ {running}
         /\ td_priority[SlotOf(t)] = p
         /\ State(t) \in {"READY", "RUNNING"}

EventBuffersSound ==
  \A e \in Event :
    /\ IsInjective(event_buffers[e])
    /\ \A t \in Range(event_buffers[e]) :
         /\ t \in Live \ {running}
         /\ State(t) = "RUNNING"
         /\ \A p \in Priority : t \notin Range(schedules[p])
         /\ \A f \in Event \ {e} : t \notin Range(event_buffers[f])

SenderQueuesSound ==
  /\ \A r \in Live :
       /\ IsInjective(sender_queue[SlotOf(r)])
       /\ \A t \in Range(sender_queue[SlotOf(r)]) :
            t \in Live /\ State(t) = "W4_RECEIVE" /\ send_to[t] = r
  /\ \A s \in Slot \ Range(tid_to_descriptor) : sender_queue[s] = <<>>

RunningSound ==
  /\ mode \in {"kernel", "halted"} <=> running = NoTask
  /\ \A t \in Live : State(t) = "TERMINATED" <=> mode = "exit" /\ running = t
  /\ mode \in {"user", "emit", "irq"} => State(running) = "RUNNING"

TidsIssued == \A t \in Live : t < next_tid

IInv ==
  /\ TypeOK /\ DescriptorsOwned /\ TidsIssued
  /\ ReadyQueuesSound /\ EventBuffersSound /\ SenderQueuesSound
  /\ NoMissedRendezvous /\ RunningSound

(* The kernel implements the calls of SRR.  A task's phase is read off its  *)
(* descriptor; a tid that has been handed out and has no descriptor is gone.*)
PhaseIn(state) == CASE state \in {"READY", "RUNNING"} -> "active"
                    [] state = "W4_SEND"    -> "listening"
                    [] state = "W4_RECEIVE" -> "calling"
                    [] state = "W4_REPLY"   -> "served"
                    [] state = "TERMINATED" -> "leaving"
PhaseOf(t) == IF t \in Live THEN PhaseIn(State(t))
              ELSE IF t < next_tid THEN "gone" ELSE "absent"
Phases == [t \in Tid |-> PhaseOf(t)]
Inboxes == [t \in Tid |-> IF t \in Live THEN sender_queue[SlotOf(t)] ELSE <<>>]

Abstract == INSTANCE SRR WITH
  phase <- Phases, to <- send_to, inbox <- Inboxes, Cap <- SenderCap

(* Sends, receives, replies and exits of the kernel are those of SRR, in    *)
(* the same order, whatever the scheduler and the interrupts do in between. *)
ImplementsSRR == Abstract!Spec

(* A task in the queue of the highest priority eventually runs: the queue   *)
(* is a FIFO, every task ahead of it traps, and no loop of the kernel runs  *)
(* forever.                                                                 *)
TopPriorityRuns ==
  \A t \in Tid : (\E i \in DOMAIN schedules[0] : schedules[0][i] = t) ~> (running = t)
=============================================================================
