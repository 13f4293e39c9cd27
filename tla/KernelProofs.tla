---------------------------- MODULE KernelProofs ----------------------------
(***************************************************************************)
(* Theorems about the kernel, for any number of tasks, slots, priorities   *)
(* and any capacity of the sender queues: the types of its variables, its  *)
(* inductive invariant and the safety properties that follow from it, that *)
(* no waiter of a timer or UART event is forgotten, that no task is lost   *)
(* but by a full sender queue, and that the kernel implements the          *)
(* synchronous calls of SRR.                                               *)
(***************************************************************************)
EXTENDS Kernel, QueueLemmas, FunctionTheorems

LEMMA InitTypeOK == Init => TypeOK
<1> SUFFICES ASSUME Init PROVE TypeOK
  OBVIOUS
<1> USE KernelAssumption DEF Init
<1>1. allocator \in Seq(Slot)
  <2>1. allocator \in [1..(MaxTasks - 1) -> Slot]
    BY DEF Slot
  <2> QED BY <2>1, SeqDef
<1>2. <<0>> \in Seq(Tid) /\ <<>> \in Seq(Tid) /\ <<>> \in Seq(Event)
  BY DEF Tid
<1>3. Live \subseteq Tid /\ tid_to_descriptor \in [Live -> Slot]
  BY DEF Live, Tid, Slot
<1>4. schedules \in [Priority -> Seq(Tid)]
  BY <1>2 DEF Priority
<1>5. /\ td_tid \in [Slot -> Tid]
      /\ td_priority \in [Slot -> Priority]
      /\ td_state \in [Slot -> TaskStatus]
      /\ send_to \in [Tid -> Tid \cup {NoTask}]
  BY DEF Tid, Priority, TaskStatus
<1>6. sender_queue \in [Slot -> Seq(Tid)] /\ event_buffers \in [Event -> Seq(Tid)]
  BY <1>2
<1>7. /\ next_tid \in 1..MaxTid
      /\ initialized \subseteq Event /\ unmasked \subseteq Event
      /\ draining \in Seq(Event) /\ lines \subseteq Line
      /\ mode \in Mode /\ running \in Tid \cup {NoTask}
      /\ mode \notin {"user", "exit", "emit", "irq"}
  BY <1>2 DEF Mode
<1> QED
  BY <1>1, <1>3, <1>4, <1>5, <1>6, <1>7 DEF TypeOK

(* schedule() keeps the queues queues of tids. *)
LEMMA ScheduleType ==
  ASSUME TypeOK, NEW queues \in [Priority -> Seq(Tid)], NEW t \in Live
  PROVE  Schedule(queues, t) \in [Priority -> Seq(Tid)]
<1> DEFINE p == td_priority[SlotOf(t)]
<1>1. SlotOf(t) \in Slot
  BY DEF TypeOK, SlotOf
<1>2. p \in Priority /\ td_tid[SlotOf(t)] \in Tid
  BY <1>1 DEF TypeOK
<1>3. Append(queues[p], td_tid[SlotOf(t)]) \in Seq(Tid)
  BY <1>2, AppendProperties
<1> QED BY <1>2, <1>3 DEF Schedule

LEMMA ResumeType ==
  ASSUME TypeOK, NEW t \in Live, Resume(t)
  PROVE  TypeOK'
<1>1. schedules' \in [Priority -> Seq(Tid)]
  BY ScheduleType DEF Resume, TypeOK
<1> QED
  BY <1>1 DEF Resume, ReturnToKernel, TypeOK, table, ipc, events, Live, Mode

LEMMA MakeReadyType ==
  ASSUME TypeOK, NEW t \in Live, MakeReady(t), UNCHANGED <<table, ipc, events, lines>>
  PROVE  TypeOK'
<1>1. schedules' \in [Priority -> Seq(Tid)]
  BY ScheduleType DEF MakeReady, TypeOK
<1>2. td_state' \in [Slot -> TaskStatus]
  BY DEF MakeReady, TypeOK, TaskStatus
<1> QED
  BY <1>1, <1>2 DEF MakeReady, ReturnToKernel, TypeOK, table, ipc, events, Live, Mode

LEMMA CreateType ==
  ASSUME TypeOK, NEW t \in Tid, NEW p \in 0..Levels, Create(t, p)
  PROVE  TypeOK'
<1> DEFINE s == Head(allocator)
           q == [schedules EXCEPT ![p] = Append(@, next_tid)]
<1> USE KernelAssumption
<1>1. t \in Live /\ p \in Priority /\ next_tid \in Tid /\ s \in Slot
  <2>1. t \in Live
    BY DEF Create, CallsAny, Calls, TypeOK
  <2>2. p \in Priority /\ next_tid \in Tid
    BY DEF Create, CreateTask, ValidPriority, TypeOK, Priority, Tid
  <2>3. allocator \in Seq(Slot) /\ allocator # <<>>
    BY DEF Create, CreateTask, TypeOK
  <2> QED BY <2>1, <2>2, <2>3, HeadTailProperties
<1>2. next_tid' \in 1..MaxTid /\ allocator' \in Seq(Slot)
  BY HeadTailProperties DEF Create, CreateTask, TypeOK
<1>3. Live' \subseteq Tid /\ tid_to_descriptor' \in [Live' -> Slot]
  BY <1>1 DEF Create, CreateTask, TypeOK, Live, SlotOf
<1>4. /\ td_tid' \in [Slot -> Tid]
      /\ td_priority' \in [Slot -> Priority]
      /\ td_state' \in [Slot -> TaskStatus]
      /\ sender_queue' \in [Slot -> Seq(Tid)]
  BY <1>1 DEF Create, CreateTask, TypeOK, TaskStatus
<1>5. schedules' \in [Priority -> Seq(Tid)]
  <2>1. Append(schedules[p], next_tid) \in Seq(Tid)
    BY <1>1, AppendProperties DEF TypeOK
  <2>2. q \in [Priority -> Seq(Tid)]
    BY <2>1, <1>1 DEF TypeOK
  <2> QED
    BY <2>2, <1>1, ScheduleType DEF Create
<1> QED
  BY <1>2, <1>3, <1>4, <1>5
  DEF Create, ReturnToKernel, TypeOK, events, Mode

LEMMA HandleEventsType ==
  ASSUME TypeOK, NEW es \in Seq(Event), NEW masked, HandleEvents(es, masked)
  PROVE  /\ event_buffers' \in [Event -> Seq(Tid)]
         /\ initialized' \subseteq Event
         /\ unmasked' \subseteq Event
         /\ draining' \in Seq(Event)
BY DEF HandleEvents, TypeOK

LEMMA ExitType ==
  ASSUME TypeOK, NEW t \in Tid, Exit(t) \/ ExitWakeSender(t) \/ ExitDelete(t)
  PROVE  TypeOK'
<1>1. CASE Exit(t)
  BY <1>1 DEF Exit, CallsAny, Calls, TypeOK, table, ipc, events, Live, SlotOf, TaskStatus, Mode
<1>2. CASE ExitWakeSender(t)
  <2> DEFINE from == Head(sender_queue[SlotOf(t)])
  <2>1. t \in Live /\ SlotOf(t) \in Slot
    BY <1>2 DEF ExitWakeSender, TypeOK, SlotOf
  <2>2. sender_queue' \in [Slot -> Seq(Tid)]
    BY <1>2, <2>1, HeadTailProperties DEF ExitWakeSender, TypeOK
  <2>3. /\ td_state' \in [Slot -> TaskStatus]
        /\ schedules' \in [Priority -> Seq(Tid)]
        /\ send_to' \in [Tid -> Tid \cup {NoTask}]
    <3>1. CASE from \in Live
      <4>1. Schedule(schedules, from) \in [Priority -> Seq(Tid)]
        BY <3>1, ScheduleType DEF TypeOK
      <4> QED
        BY <1>2, <3>1, <4>1 DEF ExitWakeSender, TypeOK, TaskStatus
    <3>2. CASE from \notin Live
      BY <1>2, <3>2 DEF ExitWakeSender, TypeOK
    <3> QED BY <3>1, <3>2
  <2> QED
    BY <1>2, <2>2, <2>3 DEF ExitWakeSender, TypeOK, table, events, Live
<1>3. CASE ExitDelete(t)
  <2>1. t \in Live /\ SlotOf(t) \in Slot
    BY <1>3 DEF ExitDelete, TypeOK, SlotOf
  <2>2. allocator' \in Seq(Slot)
    BY <1>3, <2>1, AppendProperties DEF ExitDelete, DeleteTask, TypeOK
  <2>3. Live' \subseteq Tid /\ tid_to_descriptor' \in [Live' -> Slot]
    BY <1>3 DEF ExitDelete, DeleteTask, Restrict, TypeOK, Live
  <2>4. <<"TASK_EXIT">> \in Seq(Event)
    BY DEF Event
  <2>5. /\ event_buffers' \in [Event -> Seq(Tid)]
        /\ initialized' \subseteq Event
        /\ unmasked' \subseteq Event
        /\ draining' \in Seq(Event)
    BY <1>3, <2>4, HandleEventsType DEF ExitDelete
  <2> QED
    BY <1>3, <2>2, <2>3, <2>5 DEF ExitDelete, ReturnToKernel, TypeOK, ipc, Mode
<1> QED BY <1>1, <1>2, <1>3

LEMMA SendType ==
  ASSUME TypeOK, NEW t \in Tid, NEW to \in Tid,
         SendToReceiver(t, to) \/ SendQueued(t, to)
  PROVE  TypeOK'
<1>1. t \in Live /\ SlotOf(t) \in Slot /\ to \in Live /\ SlotOf(to) \in Slot
  BY DEF SendToReceiver, SendQueued, CallsAny, Calls, TypeOK, SlotOf
<1>2. CASE SendToReceiver(t, to)
  <2>1. schedules' \in [Priority -> Seq(Tid)]
    BY <1>1, <1>2, ScheduleType DEF SendToReceiver, TypeOK
  <2>2. td_state' \in [Slot -> TaskStatus] /\ send_to' \in [Tid -> Tid \cup {NoTask}]
    BY <1>2 DEF SendToReceiver, TypeOK, TaskStatus
  <2> QED
    BY <1>2, <2>1, <2>2 DEF SendToReceiver, ReturnToKernel, TypeOK, table, events, Live, Mode
<1>3. CASE SendQueued(t, to)
  <2>1. sender_queue' \in [Slot -> Seq(Tid)] /\ dropped' \subseteq Tid
    <3>1. Append(sender_queue[SlotOf(to)], t) \in Seq(Tid)
      BY <1>1, AppendProperties DEF TypeOK
    <3>2. [sender_queue EXCEPT ![SlotOf(to)] = Append(@, t)] \in [Slot -> Seq(Tid)]
      BY <1>1, <3>1 DEF TypeOK
    <3>3. sender_queue \in [Slot -> Seq(Tid)] /\ dropped \cup {t} \subseteq Tid
      BY DEF TypeOK
    <3> QED BY <1>3, <3>2, <3>3 DEF SendQueued
  <2>2. td_state' \in [Slot -> TaskStatus] /\ send_to' \in [Tid -> Tid \cup {NoTask}]
    BY <1>3 DEF SendQueued, TypeOK, TaskStatus
  <2> QED
    BY <1>3, <2>1, <2>2 DEF SendQueued, ReturnToKernel, TypeOK, table, events, Live, Mode
<1> QED BY <1>2, <1>3

LEMMA ReceiveType ==
  ASSUME TypeOK, NEW t \in Tid, ReceiveQueued(t) \/ ReceiveBlocks(t)
  PROVE  TypeOK'
<1>1. t \in Live /\ SlotOf(t) \in Slot
  BY DEF ReceiveQueued, ReceiveBlocks, CallsAny, Calls, TypeOK, SlotOf
<1>2. CASE ReceiveQueued(t)
  <2>1. sender_queue' \in [Slot -> Seq(Tid)]
    BY <1>1, <1>2, HeadTailProperties DEF ReceiveQueued, TypeOK
  <2>2. td_state' \in [Slot -> TaskStatus]
    BY <1>2 DEF ReceiveQueued, TypeOK, TaskStatus
  <2>3. schedules' \in [Priority -> Seq(Tid)]
    <3>1. Schedule(schedules, t) \in [Priority -> Seq(Tid)]
      BY <1>1, ScheduleType DEF TypeOK
    <3> QED
      BY <1>2, <3>1 DEF ReceiveQueued, TypeOK
  <2> QED
    BY <1>2, <2>1, <2>2, <2>3
    DEF ReceiveQueued, ReturnToKernel, TypeOK, table, events, Live, Mode
<1>3. CASE ReceiveBlocks(t)
  BY <1>3 DEF ReceiveBlocks, ReturnToKernel, TypeOK, table, ipc, events, Live, Mode, TaskStatus
<1> QED BY <1>2, <1>3

LEMMA ReplyType ==
  ASSUME TypeOK, NEW t \in Tid, NEW to \in Tid, Reply(t, to)
  PROVE  TypeOK'
<1>1. t \in Live /\ to \in Live
  BY DEF Reply, CallsAny, Calls, MayReply, TypeOK
<1>2. Schedule(schedules, to) \in [Priority -> Seq(Tid)]
  BY <1>1, ScheduleType DEF TypeOK
<1>3. schedules' \in [Priority -> Seq(Tid)]
  BY <1>1, <1>2, ScheduleType DEF Reply
<1>4. td_state' \in [Slot -> TaskStatus] /\ send_to' \in [Tid -> Tid \cup {NoTask}]
  BY DEF Reply, TypeOK, TaskStatus
<1> QED
  BY <1>3, <1>4 DEF Reply, ReturnToKernel, TypeOK, table, events, Live, Mode

LEMMA EventCallType ==
  ASSUME TypeOK, NEW t \in Tid, NEW e \in Event, AwaitEvent(t, e) \/ EmitEvent(t, e)
  PROVE  TypeOK'
<1>1. <<e>> \in Seq(Event)
  OBVIOUS
<1>2. CASE AwaitEvent(t, e)
  <2>1. event_buffers' \in [Event -> Seq(Tid)]
    BY <1>2, AppendProperties DEF AwaitEvent, TypeOK
  <2>2. draining' \in Seq(Event) /\ initialized' \subseteq Event /\ unmasked' \subseteq Event
    BY <1>1, <1>2 DEF AwaitEvent, TypeOK
  <2> QED
    BY <1>2, <2>1, <2>2 DEF AwaitEvent, ReturnToKernel, TypeOK, table, ipc, Live, Mode
<1>3. CASE EmitEvent(t, e)
  <2>1. /\ event_buffers' \in [Event -> Seq(Tid)]
        /\ initialized' \subseteq Event
        /\ unmasked' \subseteq Event
        /\ draining' \in Seq(Event)
    BY <1>1, <1>3, HandleEventsType DEF EmitEvent
  <2> QED
    BY <1>3, <2>1 DEF EmitEvent, CallsAny, Calls, TypeOK, table, ipc, Live, Mode
<1> QED BY <1>2, <1>3

LEMMA WakeNextType ==
  ASSUME TypeOK, WakeNext
  PROVE  TypeOK'
<1> DEFINE e == Head(draining)
           t == Head(event_buffers[e])
<1>1. e \in Event /\ Tail(draining) \in Seq(Event)
  BY HeadTailProperties DEF WakeNext, TypeOK
<1>2. event_buffers' \in [Event -> Seq(Tid)]
  <2>1. event_buffers[e] # <<>> => Tail(event_buffers[e]) \in Seq(Tid)
    BY <1>1, HeadTailProperties DEF TypeOK
  <2> QED
    BY <1>1, <2>1 DEF WakeNext, TypeOK
<1>3. schedules' \in [Priority -> Seq(Tid)]
  <2>1. t \in Live => Schedule(schedules, t) \in [Priority -> Seq(Tid)]
    BY ScheduleType DEF TypeOK
  <2> QED
    BY <2>1 DEF WakeNext, TypeOK
<1>4. draining' \in Seq(Event) /\ initialized' \subseteq Event
  BY <1>1 DEF WakeNext, TypeOK
<1> QED
  BY <1>2, <1>3, <1>4 DEF WakeNext, TypeOK, table, ipc, Live

LEMMA IrqType ==
  ASSUME TypeOK, HandleTimerIrq \/ HandleUartIrq \/ HandleMcp2515Irq
  PROVE  TypeOK'
<1>1. lines' \subseteq lines
  BY DEF HandleTimerIrq, HandleUartIrq, HandleMcp2515Irq
<1>2. UNCHANGED <<table, td_state, ipc, schedules, mode, running>>
  BY DEF HandleTimerIrq, HandleUartIrq, HandleMcp2515Irq
<1>3. /\ event_buffers' \in [Event -> Seq(Tid)]
      /\ initialized' \subseteq Event
      /\ unmasked' \subseteq Event
      /\ draining' \in Seq(Event)
  <2>1. CASE HandleTimerIrq
    <3>1. PICK e \in Event : HandleEvents(<<e>>, {})
      BY <2>1 DEF HandleTimerIrq, Event
    <3>2. <<e>> \in Seq(Event)
      OBVIOUS
    <3> QED BY <3>1, <3>2, HandleEventsType
  <2>2. CASE HandleUartIrq
    <3>1. /\ <<"UART_RX_IRQ", "UART_TX_IRQ", "UART3_TX_IRQ">> \in Seq(Event)
          /\ <<"UART_TX_IRQ", "UART3_TX_IRQ">> \in Seq(Event)
      BY DEF Event
    <3> QED BY <2>2, <3>1, HandleEventsType DEF HandleUartIrq
  <2>3. CASE HandleMcp2515Irq
    <3>1. PICK source \in SUBSET CanEvents :
            HandleEvents(<<IF "CAN_RX_IRQ" \in source THEN "CAN_RX_IRQ" ELSE "CAN_TX_IRQ">>,
                         source)
      BY <2>3 DEF HandleMcp2515Irq
    <3>2. <<IF "CAN_RX_IRQ" \in source THEN "CAN_RX_IRQ" ELSE "CAN_TX_IRQ">> \in Seq(Event)
      BY DEF Event
    <3> QED BY <3>1, <3>2, HandleEventsType
  <2> QED BY <2>1, <2>2, <2>3
<1> QED
  BY <1>1, <1>2, <1>3 DEF TypeOK, table, ipc, Live

LEMMA LoopType ==
  ASSUME TypeOK, (\E p \in Priority : Dispatch(p)) \/ Halt
  PROVE  TypeOK'
<1>1. CASE \E p \in Priority : Dispatch(p)
  <2>1. PICK p \in Priority : Dispatch(p)
    BY <1>1
  <2>2. Head(schedules[p]) \in Tid /\ schedules' \in [Priority -> Seq(Tid)]
    BY <2>1, HeadTailProperties DEF Dispatch, TypeOK
  <2>3. td_state' \in [Slot -> TaskStatus]
    BY <2>1 DEF Dispatch, TypeOK, TaskStatus
  <2> QED
    BY <2>1, <2>2, <2>3 DEF Dispatch, TypeOK, table, ipc, events, Live, Mode
<1>2. CASE Halt
  BY <1>2 DEF Halt, TypeOK, table, ipc, events, Live, Mode
<1> QED BY <1>1, <1>2

LEMMA InterruptType ==
  ASSUME TypeOK, NEW t \in Tid, Interrupt(t)
  PROVE  TypeOK'
BY DEF Interrupt, Calls, TypeOK, table, ipc, events, Live, Mode

LEMMA SyscallType ==
  ASSUME TypeOK, NEW t \in Tid, Syscall(t)
  PROVE  TypeOK'
<1> USE DEF CallsAny, Calls
<1>1. t \in Live
  BY DEF Syscall, TypeOK, Query, Yield, Park, Exit, Create, CreateFails, SendFails,
         SendToReceiver, SendQueued, ReplyFails, Reply, ReceiveQueued, ReceiveBlocks,
         AwaitEvent, EmitEvent
<1>2. CASE Query(t)
  BY <1>1, <1>2, ResumeType DEF Query
<1>3. CASE Yield(t) \/ Park(t)
  BY <1>1, <1>3, MakeReadyType DEF Yield, Park
<1>4. CASE Exit(t)
  BY <1>4, ExitType
<1>5. ASSUME NEW p \in 0..Levels, Create(t, p) \/ CreateFails(t, p)
      PROVE  TypeOK'
  BY <1>1, <1>5, CreateType, ResumeType DEF CreateFails
<1>6. ASSUME NEW to \in Tid, \/ SendFails(t, to) \/ SendToReceiver(t, to)
                             \/ SendQueued(t, to) \/ ReplyFails(t, to) \/ Reply(t, to)
      PROVE  TypeOK'
  BY <1>1, <1>6, SendType, ReplyType, ResumeType DEF SendFails, ReplyFails
<1>7. CASE ReceiveQueued(t) \/ ReceiveBlocks(t)
  BY <1>7, ReceiveType
<1>8. ASSUME NEW e \in Awaited, AwaitEvent(t, e) \/ EmitEvent(t, e)
      PROVE  TypeOK'
  BY <1>8, EventCallType, KernelAssumption
<1> QED
  BY <1>2, <1>3, <1>4, <1>5, <1>6, <1>7, <1>8 DEF Syscall

LEMMA NextTypeOK == TypeOK /\ [Next]_vars => TypeOK'
<1> SUFFICES ASSUME TypeOK, [Next]_vars PROVE TypeOK'
  OBVIOUS
<1>1. CASE KernelStep
  <2>1. CASE (\E p \in Priority : Dispatch(p)) \/ Halt
    BY <2>1, LoopType
  <2>2. CASE WakeNext
    BY <2>2, WakeNextType
  <2>3. CASE HandleTimerIrq \/ HandleUartIrq \/ HandleMcp2515Irq
    BY <2>3, IrqType
  <2>4. ASSUME NEW t \in Tid, ExitWakeSender(t) \/ ExitDelete(t)
        PROVE  TypeOK'
    BY <2>4, ExitType
  <2>5. ASSUME NEW t \in Tid, EmitDone(t)
        PROVE  TypeOK'
    <3>1. t \in Live
      BY <2>5 DEF EmitDone, TypeOK
    <3> QED BY <2>5, <3>1, ResumeType DEF EmitDone
  <2>6. ASSUME NEW t \in Tid, EndInterrupt(t)
        PROVE  TypeOK'
    <3>1. t \in Live
      BY <2>6 DEF EndInterrupt, TypeOK
    <3> QED BY <2>6, <3>1, MakeReadyType DEF EndInterrupt
  <2> QED
    BY <1>1, <2>1, <2>2, <2>3, <2>4, <2>5, <2>6 DEF KernelStep
<1>2. ASSUME NEW t \in Tid, Syscall(t) \/ Interrupt(t)
      PROVE  TypeOK'
  BY <1>2, SyscallType, InterruptType
<1>3. CASE UNCHANGED vars
  BY <1>3 DEF vars, table, ipc, events, TypeOK, Live
<1> QED
  BY <1>1, <1>2, <1>3 DEF Next

(* The variables of the kernel keep their types, and the task that trapped  *)
(* has a descriptor, in every reachable state.                              *)
THEOREM KernelTypeCorrect == Spec => []TypeOK
<1> QED BY InitTypeOK, NextTypeOK, PTL DEF Spec
-----------------------------------------------------------------------------
(* A live tid has a descriptor of its own.                                  *)
LEMMA SlotFacts ==
  ASSUME TypeOK, DescriptorsOwned, NEW t \in Live
  PROVE  /\ t \in Tid /\ SlotOf(t) \in Slot
         /\ td_tid[SlotOf(t)] = t
         /\ td_priority[SlotOf(t)] \in Priority
         /\ \A u \in Live : SlotOf(u) = SlotOf(t) => u = t
         /\ SlotOf(t) \in Range(tid_to_descriptor)
         /\ SlotOf(t) \notin Range(allocator)
BY DEF TypeOK, DescriptorsOwned, SlotOf, Live, IsInjective, Range

(* What a task that is in no ready queue adds to them when it is scheduled. *)
Joins(t, queues, p) == IF p = td_priority[SlotOf(t)] THEN Range(queues[p]) \cup {t}
                       ELSE Range(queues[p])

(* schedule() adds the task to the queue of its priority and to no other.   *)
LEMMA ScheduleSound ==
  ASSUME TypeOK, DescriptorsOwned, NEW queues \in [Priority -> Seq(Tid)], NEW t \in Live,
         \A p \in Priority : IsInjective(queues[p]) /\ t \notin Range(queues[p])
  PROVE  \A p \in Priority :
           /\ IsInjective(Schedule(queues, t)[p])
           /\ Range(Schedule(queues, t)[p]) = Joins(t, queues, p)
<1> SUFFICES ASSUME NEW p \in Priority
             PROVE  /\ IsInjective(Schedule(queues, t)[p])
                    /\ Range(Schedule(queues, t)[p]) = Joins(t, queues, p)
  OBVIOUS
<1>1. td_tid[SlotOf(t)] = t /\ t \in Tid
  BY SlotFacts
<1>2. Schedule(queues, t)[p] =
        IF p = td_priority[SlotOf(t)] THEN Append(queues[p], t) ELSE queues[p]
  BY <1>1 DEF Schedule
<1>3. queues[p] \in Seq(Tid)
  OBVIOUS
<1>4. /\ Range(Append(queues[p], t)) = Range(queues[p]) \cup {t}
      /\ IsInjective(Append(queues[p], t))
  BY <1>1, <1>3, QueueAppend
<1> QED BY <1>2, <1>4 DEF Joins

(* Writing the state of one task leaves the state of every other.           *)
LEMMA StateUpdate ==
  ASSUME TypeOK, DescriptorsOwned, NEW t \in Live, NEW st,
         td_state' = [td_state EXCEPT ![SlotOf(t)] = st],
         tid_to_descriptor' = tid_to_descriptor
  PROVE  State(t)' = st /\ \A u \in Live \ {t} : State(u)' = State(u)
<1>1. SlotOf(t) \in Slot /\ \A u \in Live \ {t} : SlotOf(u) # SlotOf(t)
  BY SlotFacts
<1>2. td_state \in [Slot -> TaskStatus] /\ \A u \in Live : SlotOf(u) \in Slot
  BY DEF TypeOK, SlotOf
<1> QED BY <1>1, <1>2 DEF State, SlotOf

LEMMA StateUpdate2 ==
  ASSUME TypeOK, DescriptorsOwned, NEW t \in Live, NEW v \in Live \ {t}, NEW st, NEW sv,
         td_state' = [td_state EXCEPT ![SlotOf(t)] = st, ![SlotOf(v)] = sv],
         tid_to_descriptor' = tid_to_descriptor
  PROVE  /\ State(t)' = st /\ State(v)' = sv
         /\ \A u \in Live \ {t, v} : State(u)' = State(u)
<1>1. /\ SlotOf(t) \in Slot /\ SlotOf(v) \in Slot /\ SlotOf(t) # SlotOf(v)
      /\ \A u \in Live \ {t, v} : SlotOf(u) # SlotOf(t) /\ SlotOf(u) # SlotOf(v)
  BY SlotFacts
<1>2. td_state \in [Slot -> TaskStatus] /\ \A u \in Live : SlotOf(u) \in Slot
  BY DEF TypeOK, SlotOf
<1> QED BY <1>1, <1>2 DEF State, SlotOf

(* The kernel resumes the caller: nothing but the ready queues changes.     *)
LEMMA ResumeInv ==
  ASSUME IInv, NEW t \in Live, running = t, mode \in {"user", "emit"}, Resume(t)
  PROVE  IInv'
<1>1. TypeOK'
  BY ResumeType DEF IInv
<1>2. /\ UNCHANGED <<table, td_state, ipc, events, lines>>
      /\ schedules' = Schedule(schedules, t)
      /\ mode' = "kernel" /\ running' = NoTask
  BY DEF Resume, ReturnToKernel
<1>3. /\ UNCHANGED <<next_tid, allocator, tid_to_descriptor, td_tid, td_priority>>
      /\ UNCHANGED <<sender_queue, send_to, event_buffers>>
      /\ Live' = Live
      /\ \A u \in Live : State(u)' = State(u) /\ u # running'
  BY <1>2, KernelAssumption DEF table, ipc, events, Live, State, SlotOf, IInv, TypeOK
<1>4. DescriptorsOwned' /\ TidsIssued' /\ SenderQueuesSound' /\ NoMissedRendezvous'
  BY <1>3 DEF IInv, DescriptorsOwned, TidsIssued, SenderQueuesSound, NoMissedRendezvous, SlotOf
<1>5. /\ State(t) = "RUNNING"
      /\ \A p \in Priority : IsInjective(schedules[p]) /\ t \notin Range(schedules[p])
  BY DEF IInv, RunningSound, ReadyQueuesSound
<1>6. \A p \in Priority :
           /\ IsInjective(schedules'[p])
           /\ Range(schedules'[p]) = Joins(t, schedules, p)
  BY <1>2, <1>5, ScheduleSound DEF IInv, TypeOK
<1>7. ReadyQueuesSound'
  <2> SUFFICES ASSUME NEW p \in Priority, NEW u \in Range(schedules'[p])
               PROVE  /\ u \in Live /\ td_priority[SlotOf(u)] = p
                      /\ State(u) \in {"READY", "RUNNING"}
    BY <1>3, <1>6 DEF ReadyQueuesSound, SlotOf
  <2>1. u \in Range(schedules[p]) \/ (u = t /\ p = td_priority[SlotOf(t)])
    BY <1>6 DEF Joins
  <2> QED BY <1>5, <2>1 DEF IInv, ReadyQueuesSound
<1>8. EventBuffersSound'
  <2>1. \A p \in Priority : Range(schedules'[p]) \subseteq Range(schedules[p]) \cup {t}
    BY <1>6 DEF Joins
  <2>2. EventBuffersSound
    BY DEF IInv
  <2>3. \A e \in Event : IsInjective(event_buffers'[e])
    BY <1>3, <2>2 DEF EventBuffersSound
  <2> SUFFICES ASSUME NEW e \in Event, NEW u \in Range(event_buffers[e])
               PROVE  /\ u \in Live' \ {running'} /\ State(u)' = "RUNNING"
                      /\ \A p \in Priority : u \notin Range(schedules'[p])
                      /\ \A g \in Event \ {e} : u \notin Range(event_buffers'[g])
    BY <1>3, <2>3 DEF EventBuffersSound
  <2>4. u \in Live \ {t} /\ State(u) = "RUNNING"
    BY <2>2 DEF EventBuffersSound
  <2>5. u \in Live' \ {running'} /\ State(u)' = "RUNNING"
    BY <1>3, <2>4
  <2>6. \A p \in Priority : u \notin Range(schedules'[p])
    BY <2>1, <2>2, <2>4 DEF EventBuffersSound
  <2>7. \A g \in Event \ {e} : u \notin Range(event_buffers'[g])
    BY <1>3, <2>2 DEF EventBuffersSound
  <2> QED BY <2>5, <2>6, <2>7
<1>9. RunningSound'
  BY <1>2, <1>3, <1>5 DEF IInv, RunningSound
<1> QED BY <1>1, <1>4, <1>7, <1>8, <1>9 DEF IInv

(* The running task yields, parks, or is back from its interrupts.          *)
LEMMA MakeReadyInv ==
  ASSUME IInv, NEW t \in Live, running = t, mode \in {"user", "irq"},
         MakeReady(t), UNCHANGED <<table, ipc, events, lines>>
  PROVE  IInv'
<1>1. TypeOK'
  BY MakeReadyType DEF IInv
<1>2. /\ schedules' = Schedule(schedules, t)
      /\ mode' = "kernel" /\ running' = NoTask
  BY DEF MakeReady, ReturnToKernel
<1>3. /\ UNCHANGED <<next_tid, allocator, tid_to_descriptor, td_tid, td_priority>>
      /\ UNCHANGED <<sender_queue, send_to, event_buffers>>
      /\ Live' = Live
      /\ \A u \in Live : u # running'
  BY <1>2, KernelAssumption DEF table, ipc, events, Live, IInv, TypeOK
<1>4. State(t)' = "READY" /\ \A u \in Live \ {t} : State(u)' = State(u)
  BY <1>3, StateUpdate DEF MakeReady, IInv
<1>5. DescriptorsOwned' /\ TidsIssued'
  BY <1>3 DEF IInv, DescriptorsOwned, TidsIssued, SlotOf
<1>6. /\ State(t) = "RUNNING"
      /\ \A p \in Priority : IsInjective(schedules[p]) /\ t \notin Range(schedules[p])
      /\ \A e \in Event : t \notin Range(event_buffers[e])
  BY DEF IInv, RunningSound, ReadyQueuesSound, EventBuffersSound
<1>7. \A p \in Priority :
           /\ IsInjective(schedules'[p])
           /\ Range(schedules'[p]) = Joins(t, schedules, p)
  BY <1>2, <1>6, ScheduleSound DEF IInv, TypeOK
<1>8. ReadyQueuesSound'
  <2> SUFFICES ASSUME NEW p \in Priority, NEW u \in Range(schedules'[p])
               PROVE  /\ u \in Live /\ td_priority[SlotOf(u)] = p
                      /\ State(u)' \in {"READY", "RUNNING"}
    BY <1>3, <1>7 DEF ReadyQueuesSound, SlotOf
  <2>1. u \in Range(schedules[p]) \/ (u = t /\ p = td_priority[SlotOf(t)])
    BY <1>7 DEF Joins
  <2> QED BY <1>4, <2>1 DEF IInv, ReadyQueuesSound
<1>9. EventBuffersSound'
  <2> SUFFICES ASSUME NEW e \in Event, NEW u \in Range(event_buffers[e])
               PROVE  /\ u \in Live /\ State(u)' = "RUNNING"
                      /\ \A p \in Priority : u \notin Range(schedules'[p])
    BY <1>3 DEF IInv, EventBuffersSound
  <2>1. u \in Live \ {t} /\ State(u) = "RUNNING"
        /\ \A p \in Priority : u \notin Range(schedules[p])
    BY <1>6 DEF IInv, EventBuffersSound
  <2> QED BY <1>4, <1>7, <2>1 DEF Joins
<1>10. SenderQueuesSound' /\ NoMissedRendezvous'
  BY <1>3, <1>4, <1>6 DEF IInv, SenderQueuesSound, NoMissedRendezvous, SlotOf
<1>11. RunningSound'
  BY <1>2, <1>3, <1>4 DEF IInv, RunningSound
<1> QED BY <1>1, <1>5, <1>8, <1>9, <1>10, <1>11 DEF IInv

(* A new task takes a slot that no live tid maps to, and a tid never used.  *)
LEMMA CreateInv ==
  ASSUME IInv, NEW t \in Tid, NEW p \in 0..Levels, Create(t, p)
  PROVE  IInv'
<1>a. PICK n, s : n = next_tid /\ s = Head(allocator)
  OBVIOUS
<1> DEFINE queues == [schedules EXCEPT ![p] = Append(@, n)]
<1>1. TypeOK'
  BY CreateType DEF IInv
<1>2. /\ t \in Live /\ running = t /\ mode = "user"
      /\ p \in Priority /\ n \in Tid /\ n \notin Live
      /\ allocator \in Seq(Slot) /\ allocator # <<>>
  BY <1>a, KernelAssumption DEF Create, CreateTask, CallsAny, Calls, ValidPriority, IInv, TypeOK,
     Priority, Tid, TidsIssued
<1>3. /\ s \in Slot /\ s \in Range(allocator) /\ IsInjective(allocator')
      /\ Range(allocator') = Range(allocator) \ {s}
      /\ s \notin Range(tid_to_descriptor)
  BY <1>a, <1>2, QueueTail, HeadTailProperties DEF Create, CreateTask, IInv, DescriptorsOwned
<1>4. /\ Live' = Live \cup {n}
      /\ SlotOf(n)' = s
      /\ \A u \in Live : SlotOf(u)' = SlotOf(u) /\ SlotOf(u) # s /\ SlotOf(u) \in Slot
  BY <1>a, <1>2, <1>3 DEF Create, CreateTask, Live, SlotOf, Range, IInv, TypeOK
<1>5. /\ td_tid'[s] = n /\ td_priority'[s] = p /\ td_state'[s] = "READY"
      /\ sender_queue'[s] = <<>>
      /\ \A r \in Slot \ {s} : /\ td_tid'[r] = td_tid[r] /\ td_priority'[r] = td_priority[r]
                               /\ td_state'[r] = td_state[r]
                               /\ sender_queue'[r] = sender_queue[r]
  BY <1>a, <1>3 DEF Create, CreateTask, IInv, TypeOK
<1>6. /\ schedules' = Schedule(queues, t)
      /\ mode' = "kernel" /\ running' = NoTask
      /\ UNCHANGED <<send_to, event_buffers>>
      /\ \A u \in Tid : u # running'
  BY <1>a, KernelAssumption DEF Create, ReturnToKernel, events
<1>7. State(n)' = "READY" /\ \A u \in Live : State(u)' = State(u)
  BY <1>4, <1>5 DEF State
<1>8. Range(tid_to_descriptor') = Range(tid_to_descriptor) \cup {s}
  <2>1. \A x \in Live \cup {n} : tid_to_descriptor'[x] = IF x = n THEN s ELSE tid_to_descriptor[x]
    BY <1>2, <1>4 DEF SlotOf
  <2>2. DOMAIN tid_to_descriptor' = Live \cup {n} /\ DOMAIN tid_to_descriptor = Live
    BY <1>4 DEF Live
  <2> QED BY <1>2, <2>1, <2>2 DEF Range
<1>9. DescriptorsOwned'
  <2>1. \A u \in Live \cup {n} : td_tid'[SlotOf(u)'] = u
    BY <1>4, <1>5 DEF IInv, DescriptorsOwned
  <2>2. IsInjective(tid_to_descriptor')
    BY <1>4, <2>1 DEF IsInjective, Live, SlotOf
  <2>3. Range(allocator') = Slot \ Range(tid_to_descriptor')
    BY <1>3, <1>8 DEF IInv, DescriptorsOwned
  <2> QED BY <1>3, <1>4, <2>1, <2>2, <2>3 DEF DescriptorsOwned
<1>10. TidsIssued'
  <2>1. next_tid' = n + 1 /\ n \in Nat /\ \A u \in Live : u \in Nat
    BY <1>a, <1>2 DEF Create, CreateTask, Tid, IInv, TypeOK
  <2>2. \A u \in Live : u < n
    BY <1>a DEF IInv, TidsIssued
  <2>3. \A u \in Live \cup {n} : u < n + 1
    BY <2>1, <2>2
  <2> QED BY <1>4, <2>1, <2>3 DEF TidsIssued
<1>11. /\ queues \in [Priority -> Seq(Tid)]
       /\ \A q \in Priority : /\ IsInjective(queues[q]) /\ t \notin Range(queues[q])
                              /\ Range(queues[q]) = IF q = p THEN Range(schedules[q]) \cup {n}
                                                    ELSE Range(schedules[q])
  <2>1. schedules \in [Priority -> Seq(Tid)]
    BY DEF IInv, TypeOK
  <2>2. Append(schedules[p], n) \in Seq(Tid) /\ queues[p] = Append(schedules[p], n)
    BY <1>2, <2>1, AppendProperties
  <2>3. n \notin Range(schedules[p])
    BY <1>2 DEF IInv, ReadyQueuesSound
  <2>4. /\ Range(queues[p]) = Range(schedules[p]) \cup {n}
        /\ IsInjective(queues[p])
    BY <1>2, <2>1, <2>2, <2>3, QueueAppend DEF IInv, ReadyQueuesSound
  <2>5. \A q \in Priority \ {p} : queues[q] = schedules[q]
    BY <2>1
  <2>6. queues \in [Priority -> Seq(Tid)]
    BY <1>2, <2>1, <2>2
  <2> HIDE DEF queues
  <2> QED BY <1>2, <2>4, <2>5, <2>6 DEF IInv, ReadyQueuesSound
<1>12. \A q \in Priority : /\ IsInjective(schedules'[q])
                           /\ Range(schedules'[q]) = Joins(t, queues, q)
  <2> HIDE DEF queues
  <2> QED BY <1>2, <1>6, <1>11, ScheduleSound DEF IInv
<1> HIDE DEF queues
<1>13. ReadyQueuesSound'
  <2> SUFFICES ASSUME NEW q \in Priority, NEW u \in Range(schedules'[q])
               PROVE  /\ u \in Live \cup {n} /\ td_priority'[SlotOf(u)'] = q
                      /\ State(u)' \in {"READY", "RUNNING"}
    BY <1>1, <1>2, <1>4, <1>6, <1>12 DEF ReadyQueuesSound, IInv, TypeOK
  <2>1. \/ u \in Range(schedules[q])
        \/ u = n /\ q = p
        \/ u = t /\ q = td_priority[SlotOf(t)]
    BY <1>11, <1>12 DEF Joins
  <2>2. CASE u \in Range(schedules[q])
    BY <1>4, <1>5, <1>7, <2>2 DEF IInv, ReadyQueuesSound
  <2>3. CASE u = n /\ q = p
    BY <1>4, <1>5, <1>7, <2>3
  <2>4. CASE u = t /\ q = td_priority[SlotOf(t)]
    BY <1>2, <1>4, <1>5, <1>7, <2>4 DEF IInv, RunningSound
  <2> QED BY <2>1, <2>2, <2>3, <2>4
<1>14. EventBuffersSound'
  <2> SUFFICES ASSUME NEW e \in Event, NEW u \in Range(event_buffers[e])
               PROVE  /\ u \in Live /\ State(u)' = "RUNNING"
                      /\ \A q \in Priority : u \notin Range(schedules'[q])
    BY <1>1, <1>4, <1>6 DEF IInv, EventBuffersSound, TypeOK
  <2>1. /\ u \in Live \ {t} /\ u # n /\ State(u) = "RUNNING"
        /\ \A q \in Priority : u \notin Range(schedules[q])
    BY <1>2 DEF IInv, EventBuffersSound
  <2> QED BY <1>7, <1>11, <1>12, <2>1 DEF Joins
<1>15. SenderQueuesSound'
  <2>1. \A r \in Live : /\ sender_queue'[SlotOf(r)'] = sender_queue[SlotOf(r)]
    BY <1>4, <1>5
  <2>2. sender_queue'[SlotOf(n)'] = <<>>
    BY <1>4, <1>5
  <2>3. ASSUME NEW r \in Live'
        PROVE  /\ IsInjective(sender_queue'[SlotOf(r)'])
               /\ \A u \in Range(sender_queue'[SlotOf(r)']) :
                    u \in Live' /\ State(u)' = "W4_RECEIVE" /\ send_to'[u] = r
    BY <1>4, <1>6, <1>7, <2>1, <2>2, QueueEmpty DEF IInv, SenderQueuesSound
  <2>4. \A r \in Slot \ Range(tid_to_descriptor') : sender_queue'[r] = <<>>
    BY <1>5, <1>8 DEF IInv, SenderQueuesSound
  <2> QED BY <2>3, <2>4 DEF SenderQueuesSound
<1>16. NoMissedRendezvous'
  BY <1>4, <1>5, <1>7 DEF IInv, NoMissedRendezvous
<1>17. RunningSound'
  BY <1>2, <1>4, <1>6, <1>7 DEF IInv, RunningSound
<1> QED BY <1>1, <1>9, <1>10, <1>13, <1>14, <1>15, <1>16, <1>17 DEF IInv

(* exit(): the caller is TERMINATED while its queued senders are woken ...  *)
LEMMA ExitInv ==
  ASSUME IInv, NEW t \in Tid, Exit(t)
  PROVE  IInv'
<1>1. TypeOK'
  BY ExitType DEF IInv
<1>2. t \in Live /\ running = t /\ mode = "user" /\ running' = t /\ mode' = "exit"
  BY DEF Exit, CallsAny, Calls, IInv, TypeOK
<1>3. /\ UNCHANGED <<next_tid, allocator, tid_to_descriptor, td_tid, td_priority>>
      /\ UNCHANGED <<sender_queue, send_to, event_buffers, schedules>>
      /\ Live' = Live
  BY DEF Exit, table, ipc, events, Live
<1>4. State(t)' = "TERMINATED" /\ \A u \in Live \ {t} : State(u)' = State(u)
  BY <1>2, <1>3, StateUpdate DEF Exit, IInv
<1>5. /\ State(t) = "RUNNING"
      /\ \A p \in Priority : t \notin Range(schedules[p])
      /\ \A e \in Event : t \notin Range(event_buffers[e])
  BY <1>2 DEF IInv, RunningSound, ReadyQueuesSound, EventBuffersSound
<1>6. DescriptorsOwned' /\ TidsIssued'
  BY <1>3 DEF IInv, DescriptorsOwned, TidsIssued, SlotOf
<1>7. ReadyQueuesSound' /\ EventBuffersSound'
  BY <1>2, <1>3, <1>4, <1>5 DEF IInv, ReadyQueuesSound, EventBuffersSound, SlotOf
<1>8. SenderQueuesSound' /\ NoMissedRendezvous'
  BY <1>2, <1>3, <1>4, <1>5 DEF IInv, SenderQueuesSound, NoMissedRendezvous, SlotOf
<1>9. RunningSound'
  BY <1>2, <1>3, <1>4, KernelAssumption DEF IInv, RunningSound
<1> QED BY <1>1, <1>6, <1>7, <1>8, <1>9 DEF IInv

LEMMA ExitWakeSenderInv ==
  ASSUME IInv, NEW t \in Tid, ExitWakeSender(t)
  PROVE  IInv'
<1>1. TypeOK'
  BY ExitType DEF IInv
<1>2. /\ t \in Live /\ running = t /\ mode = "exit" /\ running' = t /\ mode' = "exit"
      /\ State(t) = "TERMINATED"
  BY DEF ExitWakeSender, RunningSound, IInv, TypeOK
<1>3. PICK from : from = Head(sender_queue[SlotOf(t)])
  OBVIOUS
<1>4. /\ SlotOf(t) \in Slot
      /\ sender_queue[SlotOf(t)] \in Seq(Tid) /\ sender_queue[SlotOf(t)] # <<>>
      /\ IsInjective(sender_queue[SlotOf(t)])
  BY <1>2, SlotFacts DEF ExitWakeSender, IInv, TypeOK, SenderQueuesSound
<1>5. /\ from \in Range(sender_queue[SlotOf(t)])
      /\ IsInjective(Tail(sender_queue[SlotOf(t)]))
      /\ Range(Tail(sender_queue[SlotOf(t)])) = Range(sender_queue[SlotOf(t)]) \ {from}
  BY <1>3, <1>4, QueueTail
<1>6. from \in Live \ {t} /\ State(from) = "W4_RECEIVE" /\ send_to[from] = t
  BY <1>2, <1>5 DEF IInv, SenderQueuesSound
<1>7. /\ UNCHANGED <<next_tid, allocator, tid_to_descriptor, td_tid, td_priority>>
      /\ event_buffers' = event_buffers /\ Live' = Live
      /\ schedules' = Schedule(schedules, from)
      /\ td_state' = [td_state EXCEPT ![SlotOf(from)] = "READY"]
      /\ send_to' = [send_to EXCEPT ![from] = NoTask]
      /\ sender_queue' = [sender_queue EXCEPT ![SlotOf(t)] = Tail(@)]
  BY <1>3, <1>6 DEF ExitWakeSender, table, events, Live
<1>8. State(from)' = "READY" /\ \A u \in Live \ {from} : State(u)' = State(u)
  BY <1>6, <1>7, StateUpdate DEF IInv
<1>9. DescriptorsOwned' /\ TidsIssued'
  BY <1>7 DEF IInv, DescriptorsOwned, TidsIssued, SlotOf
<1>10. /\ \A p \in Priority : IsInjective(schedules[p]) /\ from \notin Range(schedules[p])
       /\ \A e \in Event : from \notin Range(event_buffers[e])
  BY <1>6 DEF IInv, ReadyQueuesSound, EventBuffersSound
<1>11. \A p \in Priority : /\ IsInjective(schedules'[p])
                           /\ Range(schedules'[p]) = Joins(from, schedules, p)
  BY <1>6, <1>7, <1>10, ScheduleSound DEF IInv, TypeOK
<1>12. ReadyQueuesSound'
  <2> SUFFICES ASSUME NEW p \in Priority, NEW u \in Range(schedules'[p])
               PROVE  /\ u \in Live \ {t} /\ td_priority[SlotOf(u)] = p
                      /\ State(u)' \in {"READY", "RUNNING"}
    BY <1>2, <1>7, <1>11 DEF ReadyQueuesSound, SlotOf
  <2>1. u \in Range(schedules[p]) \/ (u = from /\ p = td_priority[SlotOf(from)])
    BY <1>11 DEF Joins
  <2> QED BY <1>2, <1>6, <1>8, <2>1 DEF IInv, ReadyQueuesSound
<1>13. EventBuffersSound'
  <2> SUFFICES ASSUME NEW e \in Event, NEW u \in Range(event_buffers[e])
               PROVE  /\ State(u)' = "RUNNING"
                      /\ \A p \in Priority : u \notin Range(schedules'[p])
    BY <1>2, <1>7 DEF IInv, EventBuffersSound
  <2>1. u \in Live \ {from} /\ State(u) = "RUNNING"
        /\ \A p \in Priority : u \notin Range(schedules[p])
    BY <1>10 DEF IInv, EventBuffersSound
  <2> QED BY <1>8, <1>11, <2>1 DEF Joins
<1>14. /\ sender_queue'[SlotOf(t)] = Tail(sender_queue[SlotOf(t)])
       /\ \A s \in Slot \ {SlotOf(t)} : sender_queue'[s] = sender_queue[s]
       /\ \A r \in Live \ {t} : sender_queue'[SlotOf(r)] = sender_queue[SlotOf(r)]
       /\ \A u \in Live \ {from} : send_to'[u] = send_to[u]
  BY <1>2, <1>4, <1>6, <1>7, SlotFacts DEF IInv, TypeOK
<1>15. SenderQueuesSound'
  <2>1. \A r \in Live : /\ IsInjective(sender_queue'[SlotOf(r)])
                        /\ Range(sender_queue'[SlotOf(r)]) =
                              Range(sender_queue[SlotOf(r)]) \ {from}
    BY <1>5, <1>6, <1>14 DEF IInv, SenderQueuesSound
  <2>2. \A r \in Live : \A u \in Range(sender_queue'[SlotOf(r)]) :
          u \in Live /\ State(u)' = "W4_RECEIVE" /\ send_to'[u] = r
    BY <1>8, <1>14, <2>1 DEF IInv, SenderQueuesSound
  <2>3. \A s \in Slot \ Range(tid_to_descriptor) : sender_queue'[s] = <<>>
    BY <1>2, <1>14, SlotFacts DEF IInv, SenderQueuesSound
  <2> QED BY <1>7, <2>1, <2>2, <2>3 DEF SenderQueuesSound, SlotOf
<1>16. NoMissedRendezvous'
  BY <1>2, <1>6, <1>7, <1>8, <1>14 DEF IInv, NoMissedRendezvous, SlotOf
<1>17. RunningSound'
  BY <1>2, <1>6, <1>7, <1>8 DEF IInv, RunningSound
<1> QED BY <1>1, <1>9, <1>12, <1>13, <1>15, <1>16, <1>17 DEF IInv

(* ... and then its slot goes back to the allocator.                        *)
LEMMA ExitDeleteInv ==
  ASSUME IInv, NEW t \in Tid, ExitDelete(t)
  PROVE  IInv'
<1>1. TypeOK'
  BY ExitType DEF IInv
<1>2. /\ t \in Live /\ running = t /\ mode = "exit"
      /\ running' = NoTask /\ mode' = "kernel"
      /\ State(t) = "TERMINATED" /\ sender_queue[SlotOf(t)] = <<>>
      /\ \A u \in Tid : u # running'
  BY KernelAssumption DEF ExitDelete, ReturnToKernel, RunningSound, IInv, TypeOK
<1>3. /\ UNCHANGED <<next_tid, td_tid, td_priority, td_state, sender_queue, send_to>>
      /\ UNCHANGED <<schedules, event_buffers>>
  BY DEF ExitDelete, HandleEvents, ipc
<1>4. /\ Live' = Live \ {t}
      /\ \A u \in Live \ {t} : /\ SlotOf(u)' = SlotOf(u) /\ State(u)' = State(u)
                               /\ SlotOf(u) # SlotOf(t)
  BY <1>2, <1>3, SlotFacts DEF ExitDelete, DeleteTask, Restrict, Live, SlotOf, State, IInv
<1>5. Range(tid_to_descriptor') = Range(tid_to_descriptor) \ {SlotOf(t)}
  BY <1>2, <1>4 DEF Range, Live, SlotOf
<1>6. DescriptorsOwned'
  <2>1. \A u \in Live' : td_tid'[SlotOf(u)'] = u
    BY <1>3, <1>4 DEF IInv, DescriptorsOwned
  <2>2. IsInjective(tid_to_descriptor')
    BY <1>4, <2>1 DEF IsInjective, Live, SlotOf
  <2>3. SlotOf(t) \in Slot /\ SlotOf(t) \notin Range(allocator)
        /\ SlotOf(t) \in Range(tid_to_descriptor)
    BY <1>2, SlotFacts DEF IInv
  <2>4. /\ IsInjective(allocator')
        /\ Range(allocator') = Range(allocator) \cup {SlotOf(t)}
    BY <2>3, QueueAppend DEF ExitDelete, DeleteTask, IInv, TypeOK, DescriptorsOwned
  <2>5. Range(allocator') = Slot \ Range(tid_to_descriptor')
    BY <1>5, <2>3, <2>4 DEF IInv, DescriptorsOwned
  <2> QED BY <2>1, <2>2, <2>4, <2>5 DEF DescriptorsOwned
<1>7. TidsIssued'
  BY <1>3, <1>4 DEF IInv, TidsIssued
<1>8. ReadyQueuesSound'
  BY <1>1, <1>2, <1>3, <1>4 DEF IInv, ReadyQueuesSound, TypeOK
<1>9. EventBuffersSound'
  BY <1>1, <1>2, <1>3, <1>4 DEF IInv, EventBuffersSound, TypeOK
<1>10. SenderQueuesSound'
  <2>1. \A r \in Live' : /\ IsInjective(sender_queue'[SlotOf(r)'])
                         /\ \A u \in Range(sender_queue'[SlotOf(r)']) :
                              u \in Live' /\ State(u)' = "W4_RECEIVE" /\ send_to'[u] = r
    BY <1>2, <1>3, <1>4 DEF IInv, SenderQueuesSound
  <2>2. \A s \in Slot \ Range(tid_to_descriptor') : sender_queue'[s] = <<>>
    BY <1>2, <1>3, <1>5 DEF IInv, SenderQueuesSound
  <2> QED BY <2>1, <2>2 DEF SenderQueuesSound
<1>11. NoMissedRendezvous'
  BY <1>3, <1>4 DEF IInv, NoMissedRendezvous
<1>12. RunningSound'
  BY <1>2, <1>4 DEF IInv, RunningSound
<1> QED BY <1>1, <1>6, <1>7, <1>8, <1>9, <1>10, <1>11, <1>12 DEF IInv

LEMMA SendToReceiverInv ==
  ASSUME IInv, NEW t \in Tid, NEW to \in Tid, SendToReceiver(t, to)
  PROVE  IInv'
<1>1. TypeOK'
  BY SendType DEF IInv
<1>2. /\ t \in Live /\ to \in Live \ {t} /\ running = t /\ mode = "user"
      /\ State(t) = "RUNNING" /\ State(to) = "W4_SEND"
  BY DEF SendToReceiver, CallsAny, Calls, Listening, RunningSound, IInv, TypeOK
<1>3. /\ UNCHANGED <<next_tid, allocator, tid_to_descriptor, td_tid, td_priority>>
      /\ UNCHANGED <<sender_queue, event_buffers>>
      /\ Live' = Live /\ mode' = "kernel" /\ \A u \in Live : u # running'
      /\ running' = NoTask
  BY KernelAssumption DEF SendToReceiver, ReturnToKernel, table, ipc, events, Live, IInv, TypeOK
<1>4. /\ State(t)' = "W4_REPLY" /\ State(to)' = "READY"
      /\ \A u \in Live \ {t, to} : State(u)' = State(u)
  BY <1>2, <1>3, StateUpdate2 DEF SendToReceiver, IInv
<1>5. DescriptorsOwned' /\ TidsIssued'
  BY <1>3 DEF IInv, DescriptorsOwned, TidsIssued, SlotOf
<1>6. \A p \in Priority : /\ IsInjective(schedules[p])
                          /\ t \notin Range(schedules[p]) /\ to \notin Range(schedules[p])
  BY <1>2 DEF IInv, ReadyQueuesSound
<1>7. \A p \in Priority : /\ IsInjective(schedules'[p])
                          /\ Range(schedules'[p]) = Joins(to, schedules, p)
  BY <1>2, <1>6, ScheduleSound DEF SendToReceiver, IInv, TypeOK
<1>8. ReadyQueuesSound'
  <2> SUFFICES ASSUME NEW p \in Priority, NEW u \in Range(schedules'[p])
               PROVE  /\ u \in Live /\ td_priority[SlotOf(u)] = p
                      /\ State(u)' \in {"READY", "RUNNING"}
    BY <1>3, <1>7 DEF ReadyQueuesSound, SlotOf
  <2>1. u \in Range(schedules[p]) \/ (u = to /\ p = td_priority[SlotOf(to)])
    BY <1>7 DEF Joins
  <2> QED BY <1>2, <1>4, <1>6, <2>1 DEF IInv, ReadyQueuesSound
<1>9. EventBuffersSound'
  <2> SUFFICES ASSUME NEW e \in Event, NEW u \in Range(event_buffers[e])
               PROVE  /\ State(u)' = "RUNNING"
                      /\ \A p \in Priority : u \notin Range(schedules'[p])
    BY <1>3 DEF IInv, EventBuffersSound
  <2>1. u \in Live \ {t, to} /\ State(u) = "RUNNING"
        /\ \A p \in Priority : u \notin Range(schedules[p])
    BY <1>2 DEF IInv, EventBuffersSound
  <2> QED BY <1>4, <1>7, <2>1 DEF Joins
<1>10. \A u \in Live \ {t} : send_to'[u] = send_to[u]
  BY <1>2 DEF SendToReceiver, IInv, TypeOK
<1>11. SenderQueuesSound' /\ NoMissedRendezvous'
  BY <1>2, <1>3, <1>4, <1>10 DEF IInv, SenderQueuesSound, NoMissedRendezvous, SlotOf
<1>12. RunningSound'
  BY <1>2, <1>3, <1>4 DEF IInv, RunningSound
<1> QED BY <1>1, <1>5, <1>8, <1>9, <1>11, <1>12 DEF IInv

LEMMA SendQueuedInv ==
  ASSUME IInv, NEW t \in Tid, NEW to \in Tid, SendQueued(t, to)
  PROVE  IInv'
<1>1. TypeOK'
  BY SendType DEF IInv
<1>2. /\ t \in Live /\ to \in Live \ {t} /\ running = t /\ mode = "user"
      /\ State(t) = "RUNNING" /\ State(to) # "W4_SEND"
  BY DEF SendQueued, CallsAny, Calls, Listening, RunningSound, IInv, TypeOK
<1>3. /\ UNCHANGED <<next_tid, allocator, tid_to_descriptor, td_tid, td_priority>>
      /\ UNCHANGED <<schedules, event_buffers>>
      /\ Live' = Live /\ mode' = "kernel" /\ \A u \in Live : u # running'
      /\ running' = NoTask
  BY KernelAssumption DEF SendQueued, ReturnToKernel, table, ipc, events, Live, IInv, TypeOK
<1>4. /\ State(t)' = "W4_RECEIVE"
      /\ \A u \in Live \ {t} : State(u)' = State(u)
  BY <1>2, <1>3, StateUpdate DEF SendQueued, IInv
<1>5. DescriptorsOwned' /\ TidsIssued'
  BY <1>3 DEF IInv, DescriptorsOwned, TidsIssued, SlotOf
<1>6. /\ \A p \in Priority : t \notin Range(schedules[p])
      /\ \A e \in Event : t \notin Range(event_buffers[e])
      /\ \A r \in Live : t \notin Range(sender_queue[SlotOf(r)])
  BY <1>2 DEF IInv, ReadyQueuesSound, EventBuffersSound, SenderQueuesSound
<1>7. ReadyQueuesSound'
  BY <1>2, <1>3, <1>4, <1>6 DEF IInv, ReadyQueuesSound, SlotOf
<1>8. EventBuffersSound'
  BY <1>2, <1>3, <1>4, <1>6 DEF IInv, EventBuffersSound
<1>9. /\ \A u \in Live \ {t} : send_to'[u] = send_to[u]
      /\ send_to'[t] = to
  BY <1>2 DEF SendQueued, IInv, TypeOK
<1>10. PICK pushed \in {Append(sender_queue[SlotOf(to)], t), sender_queue[SlotOf(to)]} :
         sender_queue' = [sender_queue EXCEPT ![SlotOf(to)] = pushed]
  <2>1. sender_queue = [sender_queue EXCEPT ![SlotOf(to)] = sender_queue[SlotOf(to)]]
    BY DEF IInv, TypeOK
  <2> QED BY <2>1 DEF SendQueued
<1>11. /\ IsInjective(pushed)
       /\ Range(pushed) \subseteq Range(sender_queue[SlotOf(to)]) \cup {t}
  <2>1. sender_queue[SlotOf(to)] \in Seq(Tid) /\ IsInjective(sender_queue[SlotOf(to)])
    BY <1>2, SlotFacts DEF IInv, TypeOK, SenderQueuesSound
  <2>2. /\ Range(Append(sender_queue[SlotOf(to)], t)) = Range(sender_queue[SlotOf(to)]) \cup {t}
        /\ IsInjective(Append(sender_queue[SlotOf(to)], t))
    BY <1>2, <1>6, <2>1, QueueAppend
  <2> QED BY <1>10, <2>1, <2>2
<1>12. /\ sender_queue'[SlotOf(to)] = pushed
       /\ \A s \in Slot \ {SlotOf(to)} : sender_queue'[s] = sender_queue[s]
       /\ \A r \in Live \ {to} : sender_queue'[SlotOf(r)] = sender_queue[SlotOf(r)]
  BY <1>2, <1>10, SlotFacts DEF IInv, TypeOK
<1>13. SenderQueuesSound'
  <2>1. ASSUME NEW r \in Live
        PROVE  /\ IsInjective(sender_queue'[SlotOf(r)])
               /\ \A u \in Range(sender_queue'[SlotOf(r)]) :
                    u \in Live /\ State(u)' = "W4_RECEIVE" /\ send_to'[u] = r
    <3>1. CASE r = to
      BY <1>2, <1>4, <1>6, <1>9, <1>11, <1>12, <3>1 DEF IInv, SenderQueuesSound
    <3>2. CASE r # to
      BY <1>2, <1>4, <1>6, <1>9, <1>12, <3>2 DEF IInv, SenderQueuesSound
    <3> QED BY <3>1, <3>2
  <2>2. \A s \in Slot \ Range(tid_to_descriptor) : sender_queue'[s] = <<>>
    BY <1>2, <1>12, SlotFacts DEF IInv, SenderQueuesSound
  <2> QED BY <1>3, <2>1, <2>2 DEF SenderQueuesSound, SlotOf
<1>14. NoMissedRendezvous'
  BY <1>2, <1>3, <1>4, <1>12 DEF IInv, NoMissedRendezvous, SlotOf
<1>15. RunningSound'
  BY <1>2, <1>3, <1>4 DEF IInv, RunningSound
<1> QED BY <1>1, <1>5, <1>7, <1>8, <1>13, <1>14, <1>15 DEF IInv

LEMMA ReceiveQueuedInv ==
  ASSUME IInv, NEW t \in Tid, ReceiveQueued(t)
  PROVE  IInv'
<1>1. TypeOK'
  BY ReceiveType DEF IInv
<1>2. t \in Live /\ running = t /\ mode = "user" /\ State(t) = "RUNNING"
  BY DEF ReceiveQueued, CallsAny, Calls, RunningSound, IInv, TypeOK
<1>3. /\ UNCHANGED <<next_tid, allocator, tid_to_descriptor, td_tid, td_priority>>
      /\ UNCHANGED <<send_to, event_buffers>>
      /\ Live' = Live /\ mode' = "kernel" /\ \A u \in Live : u # running'
      /\ running' = NoTask
  BY KernelAssumption DEF ReceiveQueued, ReturnToKernel, table, ipc, events, Live, IInv, TypeOK
<1>4. PICK from : from = Head(sender_queue[SlotOf(t)])
  OBVIOUS
<1>5. DescriptorsOwned' /\ TidsIssued'
  BY <1>3 DEF IInv, DescriptorsOwned, TidsIssued, SlotOf
<1>6. /\ SlotOf(t) \in Slot
      /\ sender_queue[SlotOf(t)] \in Seq(Tid) /\ sender_queue[SlotOf(t)] # <<>>
      /\ IsInjective(sender_queue[SlotOf(t)])
  BY <1>2, SlotFacts DEF ReceiveQueued, IInv, TypeOK, SenderQueuesSound
<1>7. /\ from \in Range(sender_queue[SlotOf(t)])
      /\ IsInjective(Tail(sender_queue[SlotOf(t)]))
      /\ Range(Tail(sender_queue[SlotOf(t)])) = Range(sender_queue[SlotOf(t)]) \ {from}
  BY <1>4, <1>6, QueueTail
<1>8. from \in Live \ {t} /\ State(from) = "W4_RECEIVE" /\ send_to[from] = t
  BY <1>2, <1>7 DEF IInv, SenderQueuesSound
<1>9. /\ State(from)' = "W4_REPLY" /\ State(t)' = "READY"
      /\ \A u \in Live \ {t, from} : State(u)' = State(u)
  <2>1. td_state' = [td_state EXCEPT ![SlotOf(from)] = "W4_REPLY", ![SlotOf(t)] = "READY"]
    BY <1>4, <1>8 DEF ReceiveQueued
  <2>2. /\ SlotOf(t) \in Slot /\ SlotOf(from) \in Slot /\ SlotOf(t) # SlotOf(from)
        /\ \A u \in Live \ {t, from} : /\ SlotOf(u) # SlotOf(t) /\ SlotOf(u) # SlotOf(from)
                                     /\ SlotOf(u) \in Slot
    BY <1>2, <1>8, SlotFacts DEF IInv
  <2>3. td_state \in [Slot -> TaskStatus] /\ tid_to_descriptor' = tid_to_descriptor
    BY <1>3 DEF IInv, TypeOK
  <2> QED BY <2>1, <2>2, <2>3 DEF State, SlotOf
<1>10. \A p \in Priority : /\ IsInjective(schedules[p])
                           /\ t \notin Range(schedules[p]) /\ from \notin Range(schedules[p])
  BY <1>2, <1>8 DEF IInv, ReadyQueuesSound
<1>11. \A p \in Priority : /\ IsInjective(schedules'[p])
                           /\ Range(schedules'[p]) = Joins(t, schedules, p)
  <2>1. schedules' = Schedule(schedules, t)
    BY <1>4, <1>8 DEF ReceiveQueued
  <2> QED BY <1>2, <1>10, <2>1, ScheduleSound DEF IInv, TypeOK
<1>12. ReadyQueuesSound'
  <2> SUFFICES ASSUME NEW p \in Priority, NEW u \in Range(schedules'[p])
               PROVE  /\ u \in Live /\ td_priority[SlotOf(u)] = p
                      /\ State(u)' \in {"READY", "RUNNING"}
    BY <1>3, <1>11 DEF ReadyQueuesSound, SlotOf
  <2>1. u \in Range(schedules[p]) \/ (u = t /\ p = td_priority[SlotOf(t)])
    BY <1>11 DEF Joins
  <2> QED BY <1>2, <1>9, <1>10, <2>1 DEF IInv, ReadyQueuesSound
<1>13. EventBuffersSound'
  <2> SUFFICES ASSUME NEW e \in Event, NEW u \in Range(event_buffers[e])
               PROVE  /\ State(u)' = "RUNNING"
                      /\ \A p \in Priority : u \notin Range(schedules'[p])
    BY <1>3 DEF IInv, EventBuffersSound
  <2>1. u \in Live \ {t, from} /\ State(u) = "RUNNING"
        /\ \A p \in Priority : u \notin Range(schedules[p])
    BY <1>2, <1>8 DEF IInv, EventBuffersSound
  <2> QED BY <1>9, <1>11, <2>1 DEF Joins
<1>14. /\ sender_queue'[SlotOf(t)] = Tail(sender_queue[SlotOf(t)])
       /\ \A s \in Slot \ {SlotOf(t)} : sender_queue'[s] = sender_queue[s]
       /\ \A r \in Live \ {t} : sender_queue'[SlotOf(r)] = sender_queue[SlotOf(r)]
  BY <1>2, <1>6, SlotFacts DEF ReceiveQueued, IInv, TypeOK
<1>15. SenderQueuesSound'
  <2>1. \A r \in Live : /\ IsInjective(sender_queue'[SlotOf(r)])
                        /\ Range(sender_queue'[SlotOf(r)]) =
                              Range(sender_queue[SlotOf(r)]) \ {from}
    BY <1>7, <1>8, <1>14 DEF IInv, SenderQueuesSound
  <2>2. \A r \in Live : \A u \in Range(sender_queue'[SlotOf(r)]) :
          u \in Live /\ State(u)' = "W4_RECEIVE" /\ send_to[u] = r
    BY <1>2, <1>9, <2>1 DEF IInv, SenderQueuesSound
  <2>3. \A s \in Slot \ Range(tid_to_descriptor) : sender_queue'[s] = <<>>
    BY <1>2, <1>14, SlotFacts DEF IInv, SenderQueuesSound
  <2> QED BY <1>3, <2>1, <2>2, <2>3 DEF SenderQueuesSound, SlotOf
<1>16. NoMissedRendezvous'
  BY <1>2, <1>3, <1>8, <1>9, <1>14 DEF IInv, NoMissedRendezvous, SlotOf
<1>17. RunningSound'
  BY <1>2, <1>3, <1>9 DEF IInv, RunningSound
<1> QED BY <1>1, <1>5, <1>12, <1>13, <1>15, <1>16, <1>17 DEF IInv

LEMMA ReceiveBlocksInv ==
  ASSUME IInv, NEW t \in Tid, ReceiveBlocks(t)
  PROVE  IInv'
<1>1. TypeOK'
  BY ReceiveType DEF IInv
<1>2. /\ t \in Live /\ running = t /\ mode = "user" /\ State(t) = "RUNNING"
      /\ sender_queue[SlotOf(t)] = <<>>
  BY DEF ReceiveBlocks, CallsAny, Calls, RunningSound, IInv, TypeOK
<1>3. /\ UNCHANGED <<next_tid, allocator, tid_to_descriptor, td_tid, td_priority>>
      /\ UNCHANGED <<schedules, sender_queue, send_to, event_buffers>>
      /\ Live' = Live /\ mode' = "kernel" /\ \A u \in Live : u # running'
      /\ running' = NoTask
  BY KernelAssumption DEF ReceiveBlocks, ReturnToKernel, table, ipc, events, Live, IInv, TypeOK
<1>4. State(t)' = "W4_SEND" /\ \A u \in Live \ {t} : State(u)' = State(u)
  BY <1>2, <1>3, StateUpdate DEF ReceiveBlocks, IInv
<1>5. DescriptorsOwned' /\ TidsIssued'
  BY <1>3 DEF IInv, DescriptorsOwned, TidsIssued, SlotOf
<1>6. /\ \A p \in Priority : t \notin Range(schedules[p])
      /\ \A e \in Event : t \notin Range(event_buffers[e])
  BY <1>2 DEF IInv, ReadyQueuesSound, EventBuffersSound
<1>7. ReadyQueuesSound' /\ EventBuffersSound'
  BY <1>2, <1>3, <1>4, <1>6 DEF IInv, ReadyQueuesSound, EventBuffersSound, SlotOf
<1>8. SenderQueuesSound' /\ NoMissedRendezvous'
  BY <1>2, <1>3, <1>4 DEF IInv, SenderQueuesSound, NoMissedRendezvous, SlotOf
<1>9. RunningSound'
  BY <1>2, <1>3, <1>4 DEF IInv, RunningSound
<1> QED BY <1>1, <1>5, <1>7, <1>8, <1>9 DEF IInv

LEMMA ReplyInv ==
  ASSUME IInv, NEW t \in Tid, NEW to \in Tid, Reply(t, to)
  PROVE  IInv'
<1>1. TypeOK'
  BY ReplyType DEF IInv
<1>2. /\ t \in Live /\ to \in Live \ {t} /\ running = t /\ mode = "user"
      /\ State(t) = "RUNNING" /\ State(to) = "W4_REPLY"
  BY DEF Reply, CallsAny, Calls, MayReply, RunningSound, IInv, TypeOK
<1>3. /\ UNCHANGED <<next_tid, allocator, tid_to_descriptor, td_tid, td_priority>>
      /\ UNCHANGED <<sender_queue, event_buffers>>
      /\ Live' = Live /\ mode' = "kernel" /\ \A u \in Live : u # running'
      /\ running' = NoTask
  BY KernelAssumption DEF Reply, ReturnToKernel, table, ipc, events, Live, IInv, TypeOK
<1>4. State(to)' = "READY" /\ \A u \in Live \ {to} : State(u)' = State(u)
  BY <1>2, <1>3, StateUpdate DEF Reply, IInv
<1>5. DescriptorsOwned' /\ TidsIssued'
  BY <1>3 DEF IInv, DescriptorsOwned, TidsIssued, SlotOf
<1>6. \A p \in Priority : /\ IsInjective(schedules[p])
                          /\ t \notin Range(schedules[p]) /\ to \notin Range(schedules[p])
  BY <1>2 DEF IInv, ReadyQueuesSound
<1>7. \A p \in Priority : /\ IsInjective(Schedule(schedules, to)[p])
                          /\ Range(Schedule(schedules, to)[p]) = Joins(to, schedules, p)
  BY <1>2, <1>6, ScheduleSound DEF IInv, TypeOK
<1>8. /\ Schedule(schedules, to) \in [Priority -> Seq(Tid)]
      /\ \A p \in Priority : t \notin Range(Schedule(schedules, to)[p])
  BY <1>2, <1>6, <1>7, ScheduleType DEF Joins, IInv, TypeOK
<1>9. \A p \in Priority : /\ IsInjective(schedules'[p])
                          /\ Range(schedules'[p]) = Joins(t, Schedule(schedules, to), p)
  BY <1>2, <1>7, <1>8, ScheduleSound DEF Reply, IInv
<1>10. ReadyQueuesSound'
  <2> SUFFICES ASSUME NEW p \in Priority, NEW u \in Range(schedules'[p])
               PROVE  /\ u \in Live /\ td_priority[SlotOf(u)] = p
                      /\ State(u)' \in {"READY", "RUNNING"}
    BY <1>3, <1>9 DEF ReadyQueuesSound, SlotOf
  <2>1. \/ u \in Range(schedules[p])
        \/ u = to /\ p = td_priority[SlotOf(to)]
        \/ u = t /\ p = td_priority[SlotOf(t)]
    BY <1>7, <1>9 DEF Joins
  <2> QED BY <1>2, <1>4, <2>1 DEF IInv, ReadyQueuesSound
<1>11. EventBuffersSound'
  <2> SUFFICES ASSUME NEW e \in Event, NEW u \in Range(event_buffers[e])
               PROVE  /\ State(u)' = "RUNNING"
                      /\ \A p \in Priority : u \notin Range(schedules'[p])
    BY <1>3 DEF IInv, EventBuffersSound
  <2>1. u \in Live \ {t, to} /\ State(u) = "RUNNING"
        /\ \A p \in Priority : u \notin Range(schedules[p])
    BY <1>2 DEF IInv, EventBuffersSound
  <2> QED BY <1>4, <1>7, <1>9, <2>1 DEF Joins
<1>12. \A u \in Live \ {to} : send_to'[u] = send_to[u]
  BY <1>2 DEF Reply, IInv, TypeOK
<1>13. SenderQueuesSound' /\ NoMissedRendezvous'
  BY <1>2, <1>3, <1>4, <1>12 DEF IInv, SenderQueuesSound, NoMissedRendezvous, SlotOf
<1>14. RunningSound'
  BY <1>2, <1>3, <1>4 DEF IInv, RunningSound
<1> QED BY <1>1, <1>5, <1>10, <1>11, <1>13, <1>14 DEF IInv

(* Events: the waiters of an event keep the state RUNNING they trapped in.  *)
LEMMA AwaitEventInv ==
  ASSUME IInv, NEW t \in Tid, NEW e \in Event, AwaitEvent(t, e)
  PROVE  IInv'
<1>1. TypeOK'
  BY EventCallType DEF IInv
<1>2. t \in Live /\ running = t /\ mode = "user" /\ State(t) = "RUNNING"
  BY DEF AwaitEvent, CallsAny, Calls, RunningSound, IInv, TypeOK
<1>3. /\ UNCHANGED <<next_tid, allocator, tid_to_descriptor, td_tid, td_priority>>
      /\ UNCHANGED <<td_state, schedules, sender_queue, send_to>>
      /\ Live' = Live /\ mode' = "kernel" /\ \A u \in Live : u # running'
      /\ running' = NoTask
      /\ \A u \in Live : State(u)' = State(u)
  BY KernelAssumption DEF AwaitEvent, ReturnToKernel, table, ipc, Live, State, SlotOf, IInv, TypeOK
<1>4. DescriptorsOwned' /\ TidsIssued'
  BY <1>3 DEF IInv, DescriptorsOwned, TidsIssued, SlotOf
<1>5. ReadyQueuesSound' /\ SenderQueuesSound' /\ NoMissedRendezvous'
  BY <1>3 DEF IInv, ReadyQueuesSound, SenderQueuesSound, NoMissedRendezvous, SlotOf
<1>6. /\ \A p \in Priority : t \notin Range(schedules[p])
      /\ \A f \in Event : t \notin Range(event_buffers[f])
  BY <1>2 DEF IInv, ReadyQueuesSound, EventBuffersSound
<1>7. /\ event_buffers[e] \in Seq(Tid)
      /\ event_buffers'[e] = Append(event_buffers[e], t)
      /\ \A f \in Event \ {e} : event_buffers'[f] = event_buffers[f]
  BY DEF AwaitEvent, IInv, TypeOK
<1>8. /\ Range(event_buffers'[e]) = Range(event_buffers[e]) \cup {t}
      /\ IsInjective(event_buffers'[e])
  BY <1>2, <1>6, <1>7, QueueAppend DEF IInv, EventBuffersSound
<1>9. EventBuffersSound'
  <2> SUFFICES ASSUME NEW f \in Event
               PROVE  /\ IsInjective(event_buffers'[f])
                      /\ \A u \in Range(event_buffers'[f]) :
                           /\ u \in Live /\ State(u) = "RUNNING"
                           /\ \A p \in Priority : u \notin Range(schedules[p])
                           /\ \A g \in Event \ {f} : u \notin Range(event_buffers'[g])
    BY <1>3 DEF EventBuffersSound
  <2>1. \A g \in Event :
          /\ IsInjective(event_buffers[g])
          /\ \A u \in Range(event_buffers[g]) :
               /\ u \in Live /\ State(u) = "RUNNING"
               /\ \A p \in Priority : u \notin Range(schedules[p])
               /\ \A h \in Event \ {g} : u \notin Range(event_buffers[h])
    BY DEF IInv, EventBuffersSound
  <2>2. \A g \in Event : Range(event_buffers'[g]) = IF g = e THEN Range(event_buffers[e]) \cup {t}
                                                            ELSE Range(event_buffers[g])
    BY <1>7, <1>8
  <2>3. IsInjective(event_buffers'[f])
    BY <1>7, <1>8, <2>1
  <2>4. ASSUME NEW u \in Range(event_buffers'[f])
        PROVE  /\ u \in Live /\ State(u) = "RUNNING"
               /\ \A p \in Priority : u \notin Range(schedules[p])
    <3>1. CASE u = t
      BY <1>2, <1>6, <3>1
    <3>2. CASE u # t
      BY <2>1, <2>2, <2>4, <3>2
    <3> QED BY <3>1, <3>2
  <2>5. ASSUME NEW u \in Range(event_buffers'[f]), NEW g \in Event \ {f}
        PROVE  u \notin Range(event_buffers'[g])
    <3>1. CASE u = t
      BY <1>6, <2>2, <2>5, <3>1
    <3>2. CASE u # t
      BY <2>1, <2>2, <2>5, <3>2
    <3> QED BY <3>1, <3>2
  <2> QED BY <2>3, <2>4, <2>5
<1>10. RunningSound'
  BY <1>2, <1>3 DEF IInv, RunningSound
<1> QED BY <1>1, <1>4, <1>5, <1>9, <1>10 DEF IInv

(* A waiter leaves its event buffer in the step that schedules it.          *)
LEMMA WakeNextInv ==
  ASSUME IInv, WakeNext
  PROVE  IInv'
<1>1. TypeOK'
  BY WakeNextType DEF IInv
<1>2. /\ UNCHANGED <<next_tid, allocator, tid_to_descriptor, td_tid, td_priority>>
      /\ UNCHANGED <<td_state, sender_queue, send_to, mode, running>>
      /\ Live' = Live
      /\ State(running)' = State(running) /\ \A u \in Live : State(u)' = State(u)
  BY DEF WakeNext, table, ipc, Live, State, SlotOf
<1>3. DescriptorsOwned' /\ TidsIssued' /\ SenderQueuesSound' /\ NoMissedRendezvous'
  BY <1>2 DEF IInv, DescriptorsOwned, TidsIssued, SenderQueuesSound, NoMissedRendezvous, SlotOf
<1>4. RunningSound'
  BY <1>2 DEF IInv, RunningSound
<1>5. PICK e \in Event : e = Head(draining)
  BY HeadTailProperties DEF WakeNext, IInv, TypeOK
<1>6. CASE event_buffers[e] = <<>>
  <2>1. schedules' = schedules /\ event_buffers' = event_buffers
    BY <1>5, <1>6 DEF WakeNext
  <2>2. ReadyQueuesSound' /\ EventBuffersSound'
    BY <1>2, <2>1 DEF IInv, ReadyQueuesSound, EventBuffersSound, SlotOf
  <2> QED BY <1>1, <1>3, <1>4, <2>2 DEF IInv
<1>7. CASE event_buffers[e] # <<>>
  <2>1. PICK t : t = Head(event_buffers[e])
    OBVIOUS
  <2>2. event_buffers[e] \in Seq(Tid) /\ IsInjective(event_buffers[e])
    BY DEF IInv, TypeOK, EventBuffersSound
  <2>3. /\ t \in Range(event_buffers[e]) /\ IsInjective(Tail(event_buffers[e]))
        /\ Range(Tail(event_buffers[e])) = Range(event_buffers[e]) \ {t}
    BY <1>7, <2>1, <2>2, QueueTail
  <2>4. /\ t \in Live \ {running} /\ State(t) = "RUNNING"
        /\ \A p \in Priority : t \notin Range(schedules[p])
        /\ \A f \in Event \ {e} : t \notin Range(event_buffers[f])
    BY <2>3 DEF IInv, EventBuffersSound
  <2>5. /\ schedules' = Schedule(schedules, t)
        /\ event_buffers'[e] = Tail(event_buffers[e])
        /\ \A f \in Event \ {e} : event_buffers'[f] = event_buffers[f]
    BY <1>5, <1>7, <2>1, <2>4 DEF WakeNext, IInv, TypeOK
  <2>6. \A p \in Priority : /\ IsInjective(schedules'[p])
                            /\ Range(schedules'[p]) = Joins(t, schedules, p)
    BY <2>4, <2>5, ScheduleSound DEF IInv, TypeOK, ReadyQueuesSound
  <2>7. ReadyQueuesSound'
    <3> SUFFICES ASSUME NEW p \in Priority, NEW u \in Range(schedules'[p])
                 PROVE  /\ u \in Live \ {running} /\ td_priority[SlotOf(u)] = p
                        /\ State(u) \in {"READY", "RUNNING"}
      BY <1>2, <2>6 DEF ReadyQueuesSound, SlotOf
    <3>1. u \in Range(schedules[p]) \/ (u = t /\ p = td_priority[SlotOf(t)])
      BY <2>6 DEF Joins
    <3> QED BY <2>4, <3>1 DEF IInv, ReadyQueuesSound
  <2>8. EventBuffersSound'
    <3> SUFFICES ASSUME NEW f \in Event
                 PROVE  /\ IsInjective(event_buffers'[f])
                        /\ \A u \in Range(event_buffers'[f]) :
                             /\ u \in Live \ {running} /\ State(u) = "RUNNING"
                             /\ \A p \in Priority : u \notin Range(schedules'[p])
                             /\ \A g \in Event \ {f} : u \notin Range(event_buffers'[g])
      BY <1>2 DEF EventBuffersSound
    <3>1. /\ IsInjective(event_buffers'[f])
          /\ \A g \in Event : Range(event_buffers'[g]) \subseteq Range(event_buffers[g])
          /\ t \notin Range(event_buffers'[f])
      BY <2>3, <2>4, <2>5 DEF IInv, EventBuffersSound
    <3>2. ASSUME NEW u \in Range(event_buffers'[f])
          PROVE  /\ u \in Live \ {running} /\ State(u) = "RUNNING" /\ u # t
                 /\ \A p \in Priority : u \notin Range(schedules[p])
                 /\ \A g \in Event \ {f} : u \notin Range(event_buffers[g])
      BY <3>1, <3>2 DEF IInv, EventBuffersSound
    <3>3. \A u \in Range(event_buffers'[f]) : \A p \in Priority : u \notin Range(schedules'[p])
      BY <2>6, <3>2 DEF Joins
    <3>4. \A u \in Range(event_buffers'[f]) :
            \A g \in Event \ {f} : u \notin Range(event_buffers'[g])
      BY <3>1, <3>2
    <3> QED BY <3>1, <3>2, <3>3, <3>4
  <2> QED BY <1>1, <1>3, <1>4, <2>7, <2>8 DEF IInv
<1> QED BY <1>6, <1>7

(* The steps that move only the control of the kernel.                      *)
LEMMA ControlInv ==
  ASSUME IInv, TypeOK', UNCHANGED <<table, td_state, ipc, schedules, event_buffers>>,
         \/ UNCHANGED <<mode, running>>
         \/ mode = "user" /\ mode' \in {"emit", "irq"} /\ UNCHANGED running
         \/ mode = "kernel" /\ mode' = "halted" /\ UNCHANGED running
  PROVE  IInv'
<1>1. /\ UNCHANGED <<next_tid, allocator, tid_to_descriptor, td_tid, td_priority>>
      /\ UNCHANGED <<sender_queue, send_to, running>>
      /\ Live' = Live
      /\ \A u \in Live : State(u)' = State(u) /\ SlotOf(u)' = SlotOf(u)
  BY DEF table, ipc, Live, State, SlotOf
<1>2. DescriptorsOwned' /\ TidsIssued' /\ SenderQueuesSound' /\ NoMissedRendezvous'
  BY <1>1 DEF IInv, DescriptorsOwned, TidsIssued, SenderQueuesSound, NoMissedRendezvous
<1>3. ReadyQueuesSound' /\ EventBuffersSound'
  BY <1>1 DEF IInv, ReadyQueuesSound, EventBuffersSound
<1>4. RunningSound'
  <2>1. State(running)' = State(running)
    BY <1>1 DEF State, SlotOf
  <2> QED BY <1>1, <2>1, KernelAssumption DEF IInv, RunningSound, TypeOK
<1> QED BY <1>2, <1>3, <1>4 DEF IInv

(* The dispatched task leaves its ready queue, and was in no other place.   *)
LEMMA DispatchInv ==
  ASSUME IInv, NEW p \in Priority, Dispatch(p)
  PROVE  IInv'
<1>1. TypeOK'
  BY LoopType DEF IInv
<1>2. PICK t : t = Head(schedules[p])
  OBVIOUS
<1>3. schedules[p] \in Seq(Tid) /\ schedules[p] # <<>> /\ IsInjective(schedules[p])
  BY DEF Dispatch, IInv, TypeOK, ReadyQueuesSound
<1>4. /\ t \in Range(schedules[p]) /\ IsInjective(Tail(schedules[p]))
      /\ Range(Tail(schedules[p])) = Range(schedules[p]) \ {t}
  BY <1>2, <1>3, QueueTail
<1>5. /\ t \in Live /\ td_priority[SlotOf(t)] = p /\ State(t) \in {"READY", "RUNNING"}
      /\ mode = "kernel" /\ running = NoTask
      /\ \A e \in Event : t \notin Range(event_buffers[e])
  BY <1>4 DEF Dispatch, IInv, ReadyQueuesSound, EventBuffersSound, RunningSound
<1>6. /\ UNCHANGED <<next_tid, allocator, tid_to_descriptor, td_tid, td_priority>>
      /\ UNCHANGED <<sender_queue, send_to, event_buffers>>
      /\ Live' = Live /\ mode' = "user" /\ running' = t
  BY <1>2, <1>5 DEF Dispatch, table, ipc, events, Live
<1>7. State(t)' = "RUNNING" /\ \A u \in Live \ {t} : State(u)' = State(u)
  BY <1>2, <1>5, <1>6, StateUpdate DEF Dispatch, IInv
<1>8. \A q \in Priority : /\ IsInjective(schedules'[q])
                          /\ Range(schedules'[q]) = Range(schedules[q]) \ {t}
  <2>1. schedules'[p] = Tail(schedules[p]) /\ \A q \in Priority \ {p} : schedules'[q] = schedules[q]
    BY DEF Dispatch, IInv, TypeOK
  <2> QED BY <1>4, <1>5, <2>1 DEF IInv, ReadyQueuesSound
<1>9. DescriptorsOwned' /\ TidsIssued'
  BY <1>6 DEF IInv, DescriptorsOwned, TidsIssued, SlotOf
<1>10. ReadyQueuesSound'
  BY <1>6, <1>7, <1>8 DEF IInv, ReadyQueuesSound, SlotOf
<1>11. EventBuffersSound'
  BY <1>5, <1>6, <1>7, <1>8 DEF IInv, EventBuffersSound
<1>12. SenderQueuesSound' /\ NoMissedRendezvous'
  BY <1>5, <1>6, <1>7 DEF IInv, SenderQueuesSound, NoMissedRendezvous, SlotOf
<1>13. RunningSound'
  BY <1>1, <1>5, <1>6, <1>7, KernelAssumption DEF IInv, RunningSound, TypeOK
<1> QED BY <1>1, <1>9, <1>10, <1>11, <1>12, <1>13 DEF IInv
-----------------------------------------------------------------------------
LEMMA InitIInv == Init => IInv
<1> SUFFICES ASSUME Init PROVE IInv
  OBVIOUS
<1>1. TypeOK
  BY InitTypeOK
<1>2. /\ Live = {0} /\ SlotOf(0) = 0 /\ State(0) = "READY" /\ 0 \in Tid /\ 0 \in Slot
      /\ running = NoTask /\ mode = "kernel" /\ 0 # NoTask
  BY KernelAssumption DEF Init, Live, SlotOf, State, Tid, Slot
<1>3. DescriptorsOwned
  <2>1. Range(tid_to_descriptor) = {0}
    BY <1>2 DEF Range, Live, SlotOf
  <2>2. Range(allocator) = Slot \ {0}
    <3>1. DOMAIN allocator = 1..(MaxTasks - 1) /\ \A i \in DOMAIN allocator : allocator[i] = i
      BY DEF Init
    <3>2. 1..(MaxTasks - 1) = Slot \ {0}
      BY KernelAssumption DEF Slot
    <3> QED BY <3>1, <3>2 DEF Range
  <2>3. IsInjective(allocator)
    BY DEF Init, IsInjective
  <2>4. td_tid[0] = 0
    BY <1>2 DEF Init
  <2> QED BY <1>2, <2>1, <2>2, <2>3, <2>4 DEF DescriptorsOwned, IsInjective, Live
<1>4. TidsIssued
  BY <1>2 DEF TidsIssued, Init
<1>5. ReadyQueuesSound
  <2>1. Range(<<0>>) = {0} /\ IsInjective(<<0>>)
    BY DEF Range, IsInjective
  <2>2. \A p \in Priority : schedules[p] = IF p = 0 THEN <<0>> ELSE <<>>
    BY DEF Init
  <2>3. \A p \in Priority : td_priority[0] = 0
    BY <1>2 DEF Init
  <2> QED BY <1>2, <2>1, <2>2, <2>3, QueueEmpty DEF ReadyQueuesSound
<1>6. EventBuffersSound
  BY QueueEmpty DEF Init, EventBuffersSound
<1>7. SenderQueuesSound
  BY <1>2, QueueEmpty DEF Init, SenderQueuesSound, SlotOf
<1>8. NoMissedRendezvous /\ RunningSound
  BY <1>2 DEF NoMissedRendezvous, RunningSound
<1> QED BY <1>1, <1>3, <1>4, <1>5, <1>6, <1>7, <1>8 DEF IInv

LEMMA NextIInv == IInv /\ [Next]_vars => IInv'
<1> SUFFICES ASSUME IInv, [Next]_vars PROVE IInv'
  OBVIOUS
<1>1. TypeOK /\ TypeOK'
  BY NextTypeOK DEF IInv
<1>2. ASSUME NEW t \in Tid, Syscall(t)
      PROVE  IInv'
  <2>1. t \in Live /\ running = t /\ mode = "user"
    BY <1>1, <1>2 DEF Syscall, Query, Yield, Park, Exit, Create, CreateFails, SendFails,
       SendToReceiver, SendQueued, ReplyFails, Reply, ReceiveQueued, ReceiveBlocks,
       AwaitEvent, EmitEvent, CallsAny, Calls, TypeOK
  <2>2. CASE Resume(t)
    BY <2>1, <2>2, ResumeInv
  <2>3. CASE Yield(t) \/ Park(t)
    BY <2>1, <2>3, MakeReadyInv DEF Yield, Park
  <2>4. CASE Exit(t)
    BY <2>4, ExitInv
  <2>5. ASSUME NEW p \in 0..Levels, Create(t, p)
        PROVE  IInv'
    BY <2>5, CreateInv
  <2>6. ASSUME NEW to \in Tid, SendToReceiver(t, to) \/ SendQueued(t, to) \/ Reply(t, to)
        PROVE  IInv'
    BY <2>6, SendToReceiverInv, SendQueuedInv, ReplyInv
  <2>7. CASE ReceiveQueued(t) \/ ReceiveBlocks(t)
    BY <2>7, ReceiveQueuedInv, ReceiveBlocksInv
  <2>8. ASSUME NEW e \in Event, AwaitEvent(t, e)
        PROVE  IInv'
    BY <2>8, AwaitEventInv
  <2>9. ASSUME NEW e \in Event, EmitEvent(t, e)
        PROVE  IInv'
    BY <1>1, <2>1, <2>9, ControlInv DEF EmitEvent, HandleEvents
  <2> QED
    BY <1>2, <2>2, <2>3, <2>4, <2>5, <2>6, <2>7, <2>8, <2>9, KernelAssumption
    DEF Syscall, Query, CreateFails, SendFails, ReplyFails
<1>3. ASSUME NEW t \in Tid, Interrupt(t)
      PROVE  IInv'
  BY <1>1, <1>3, ControlInv DEF Interrupt, Calls, events
<1>4. CASE KernelStep
  <2>1. CASE \E p \in Priority : Dispatch(p)
    BY <2>1, DispatchInv
  <2>2. CASE Halt
    BY <1>1, <2>2, ControlInv DEF Halt, events
  <2>3. CASE WakeNext
    BY <2>3, WakeNextInv
  <2>4. CASE HandleTimerIrq \/ HandleUartIrq \/ HandleMcp2515Irq
    <3>1. event_buffers' = event_buffers
      BY <2>4 DEF HandleTimerIrq, HandleUartIrq, HandleMcp2515Irq, HandleEvents
    <3> QED BY <1>1, <2>4, <3>1, ControlInv
            DEF HandleTimerIrq, HandleUartIrq, HandleMcp2515Irq
  <2>5. ASSUME NEW t \in Tid, ExitWakeSender(t) \/ ExitDelete(t)
        PROVE  IInv'
    BY <2>5, ExitWakeSenderInv, ExitDeleteInv
  <2>6. ASSUME NEW t \in Tid, EmitDone(t)
        PROVE  IInv'
    BY <1>1, <2>6, ResumeInv DEF EmitDone, TypeOK
  <2>7. ASSUME NEW t \in Tid, EndInterrupt(t)
        PROVE  IInv'
    BY <1>1, <2>7, MakeReadyInv DEF EndInterrupt, TypeOK
  <2> QED BY <1>4, <2>1, <2>2, <2>3, <2>4, <2>5, <2>6, <2>7 DEF KernelStep
<1>5. CASE UNCHANGED vars
  BY <1>1, <1>5, ControlInv DEF vars, events
<1> QED BY <1>2, <1>3, <1>4, <1>5 DEF Next

(* The kernel's queues and descriptors agree with one another, and with     *)
(* what the kernel's control says of the task that trapped, in every        *)
(* reachable state of a kernel of any size.                                 *)
THEOREM KernelInvariant == Spec => []IInv
<1> QED BY InitIInv, NextIInv, PTL DEF Spec

(* No two tasks ever share a descriptor and no slot is leaked or handed out *)
(* twice, however often create and exit reuse the table.                    *)
THEOREM KernelDescriptorsOwned == Spec => []DescriptorsOwned
<1>1. IInv => DescriptorsOwned
  BY DEF IInv
<1> QED BY <1>1, KernelInvariant, PTL

(* The kernel never stops at a tid without a descriptor, and every waiter   *)
(* and queued sender it wakes is alive.                                     *)
THEOREM KernelQueuedTasksLive == Spec => []QueuedTasksLive
<1>1. IInv => QueuedTasksLive
  BY DEF IInv, ReadyQueuesSound, EventBuffersSound, SenderQueuesSound, QueuedTasksLive
<1> QED BY <1>1, KernelInvariant, PTL

(* A queued sender waits on the task it addressed.                          *)
THEOREM KernelSendersMatch == Spec => []SendersMatch
<1>1. IInv => SendersMatch
  BY DEF IInv, SenderQueuesSound, SendersMatch
<1> QED BY <1>1, KernelInvariant, PTL

(* No message waits for a receiver that sleeps.                             *)
THEOREM KernelNoMissedRendezvous == Spec => []NoMissedRendezvous
<1>1. IInv => NoMissedRendezvous
  BY DEF IInv
<1> QED BY <1>1, KernelInvariant, PTL
-----------------------------------------------------------------------------
(* A queue of live tids with no tid twice maps one-to-one into the slots.   *)
LEMMA QueueBounded ==
  ASSUME TypeOK, DescriptorsOwned, NEW q \in Seq(Tid), IsInjective(q), Range(q) \subseteq Live
  PROVE  Len(q) <= MaxTasks
<1> DEFINE f == [i \in 1..Len(q) |-> SlotOf(q[i]) + 1]
<1>1. Len(q) \in Nat /\ DOMAIN q = 1..Len(q) /\ MaxTasks \in Nat
  BY LenProperties, KernelAssumption
<1>2. \A i \in 1..Len(q) : q[i] \in Live /\ SlotOf(q[i]) \in Slot
  BY <1>1, SlotFacts DEF Range
<1>3. f \in [1..Len(q) -> 1..MaxTasks]
  BY <1>1, <1>2 DEF Slot
<1>4. \A i, j \in 1..Len(q) : f[i] = f[j] => i = j
  <2> SUFFICES ASSUME NEW i \in 1..Len(q), NEW j \in 1..Len(q), f[i] = f[j] PROVE i = j
    OBVIOUS
  <2>1. SlotOf(q[i]) = SlotOf(q[j])
    BY <1>2 DEF Slot
  <2>2. q[i] = q[j]
    BY <1>2, <2>1, SlotFacts
  <2> QED BY <1>1, <2>2 DEF IsInjective
<1> HIDE DEF f
<1>5. f \in Injection(1..Len(q), 1..MaxTasks)
  BY <1>3, <1>4 DEF Injection, IsInjective
<1> QED BY <1>1, <1>5, Fun_NatInjLeq DEF ExistsInjection

(* Neither the ready queues nor the event buffers can overflow: schedule()  *)
(* never panics and await_event() drops no waiter.                          *)
THEOREM KernelQueuesNeverFull == Spec => []QueuesNeverFull
<1>1. IInv => QueuesNeverFull
  <2> SUFFICES ASSUME IInv PROVE QueuesNeverFull
    OBVIOUS
  <2>1. ASSUME NEW p \in Priority PROVE Len(schedules[p]) <= MaxTasks
    <3>1. /\ schedules[p] \in Seq(Tid) /\ IsInjective(schedules[p])
          /\ Range(schedules[p]) \subseteq Live
      BY DEF IInv, TypeOK, ReadyQueuesSound
    <3> QED BY <3>1, QueueBounded DEF IInv
  <2>2. ASSUME NEW e \in Event PROVE Len(event_buffers[e]) <= MaxTasks
    <3>1. /\ event_buffers[e] \in Seq(Tid) /\ IsInjective(event_buffers[e])
          /\ Range(event_buffers[e]) \subseteq Live
      BY DEF IInv, TypeOK, EventBuffersSound
    <3> QED BY <3>1, QueueBounded DEF IInv
  <2> QED BY <2>1, <2>2 DEF QueuesNeverFull
<1> QED BY <1>1, KernelInvariant, PTL

(* Where a live task can be, read off the inductive invariant: the five     *)
(* kinds of place exclude one another, and none is taken twice.             *)
LEMMA QueuePlaceKind ==
  ASSUME NEW kind, NEW queues, NEW t, NEW x \in QueuePlaces(kind, queues, t)
  PROVE  \E q \in DOMAIN queues : \E i \in DOMAIN queues[q] :
           x = <<kind, q, i>> /\ queues[q][i] = t
BY DEF QueuePlaces

LEMMA PlaceKinds ==
  ASSUME TypeOK, NEW t, NEW x \in Places(t)
  PROVE  \/ x = <<"running", 0, 0>> /\ running = t
         \/ x = <<"blocked", 0, 0>> /\ State(t) \in {"W4_SEND", "W4_REPLY"}
         \/ \E p \in Priority : \E i \in DOMAIN schedules[p] :
              x = <<"ready", p, i>> /\ schedules[p][i] = t
         \/ \E s \in Slot : \E i \in DOMAIN sender_queue[s] :
              x = <<"sender", s, i>> /\ sender_queue[s][i] = t
         \/ \E e \in Event : \E i \in DOMAIN event_buffers[e] :
              x = <<"event", e, i>> /\ event_buffers[e][i] = t
<1>1. \/ x = <<"running", 0, 0>> /\ running = t
      \/ x = <<"blocked", 0, 0>> /\ State(t) \in {"W4_SEND", "W4_REPLY"}
      \/ x \in QueuePlaces("ready", schedules, t)
      \/ x \in QueuePlaces("sender", sender_queue, t)
      \/ x \in QueuePlaces("event", event_buffers, t)
  BY DEF Places
<1>2. /\ DOMAIN schedules = Priority /\ DOMAIN sender_queue = Slot
      /\ DOMAIN event_buffers = Event
  BY DEF TypeOK
<1>3. CASE x \in QueuePlaces("ready", schedules, t)
  BY <1>2, <1>3, QueuePlaceKind
<1>4. CASE x \in QueuePlaces("sender", sender_queue, t)
  BY <1>2, <1>4, QueuePlaceKind
<1>5. CASE x \in QueuePlaces("event", event_buffers, t)
  BY <1>2, <1>5, QueuePlaceKind
<1> QED BY <1>1, <1>3, <1>4, <1>5

LEMMA PlacesUnique == IInv => OnePlace
<1> SUFFICES ASSUME IInv, NEW t \in Live, NEW x \in Places(t), NEW y \in Places(t)
             PROVE  x = y
  BY DEF OnePlace
<1>0. TypeOK
  BY DEF IInv
<1>1. running = t => /\ State(t) \in {"RUNNING", "TERMINATED"}
                     /\ \A p \in Priority : t \notin Range(schedules[p])
                     /\ \A e \in Event : t \notin Range(event_buffers[e])
  BY KernelAssumption DEF IInv, TypeOK, RunningSound, ReadyQueuesSound, EventBuffersSound, Mode
<1>2. ASSUME NEW p \in Priority, t \in Range(schedules[p])
      PROVE  /\ State(t) \in {"READY", "RUNNING"} /\ td_priority[SlotOf(t)] = p
             /\ IsInjective(schedules[p])
             /\ \A e \in Event : t \notin Range(event_buffers[e])
  BY <1>2 DEF IInv, ReadyQueuesSound, EventBuffersSound
<1>3. ASSUME NEW e \in Event, t \in Range(event_buffers[e])
      PROVE  /\ State(t) = "RUNNING" /\ IsInjective(event_buffers[e])
             /\ \A f \in Event : t \in Range(event_buffers[f]) => f = e
  BY <1>3 DEF IInv, EventBuffersSound
<1>4. ASSUME NEW s \in Slot, t \in Range(sender_queue[s])
      PROVE  /\ State(t) = "W4_RECEIVE" /\ IsInjective(sender_queue[s])
             /\ s = SlotOf(send_to[t])
  <2>1. s \in Range(tid_to_descriptor)
    BY <1>4, QueueEmpty DEF IInv, SenderQueuesSound
  <2>2. PICK r \in Live : s = SlotOf(r)
    BY <2>1 DEF Range, Live, SlotOf
  <2> QED BY <1>4, <2>2 DEF IInv, SenderQueuesSound
<1>5. \A q : \A i : i \in DOMAIN q /\ q[i] = t => t \in Range(q)
  BY DEF Range
<1>6. CASE x = <<"running", 0, 0>> /\ running = t
  BY <1>1, <1>4, <1>5, <1>6, <1>0, PlaceKinds
<1>7. CASE x = <<"blocked", 0, 0>> /\ State(t) \in {"W4_SEND", "W4_REPLY"}
  BY <1>1, <1>2, <1>3, <1>4, <1>5, <1>7, <1>0, PlaceKinds
<1>8. ASSUME NEW p \in Priority, NEW i \in DOMAIN schedules[p],
             x = <<"ready", p, i>>, schedules[p][i] = t
      PROVE  x = y
  <2>1. t \in Range(schedules[p])
    BY <1>5, <1>8
  <2>2. PICK q, j :
          q \in Priority /\ j \in DOMAIN schedules[q] /\ y = <<"ready", q, j>> /\ schedules[q][j] = t
    BY <1>1, <1>2, <1>4, <1>5, <2>1, <1>0, PlaceKinds
  <2>3. q = p
    BY <1>2, <1>5, <2>1, <2>2
  <2> QED BY <1>2, <1>8, <2>1, <2>2, <2>3 DEF IsInjective
<1>9. ASSUME NEW s \in Slot, NEW i \in DOMAIN sender_queue[s],
             x = <<"sender", s, i>>, sender_queue[s][i] = t
      PROVE  x = y
  <2>1. t \in Range(sender_queue[s])
    BY <1>5, <1>9
  <2>2. PICK r, j :
          r \in Slot /\ j \in DOMAIN sender_queue[r] /\ y = <<"sender", r, j>> /\ sender_queue[r][j] = t
    BY <1>1, <1>2, <1>3, <1>4, <1>5, <2>1, <1>0, PlaceKinds
  <2>3. r = s
    BY <1>4, <1>5, <2>1, <2>2
  <2> QED BY <1>4, <1>9, <2>1, <2>2, <2>3 DEF IsInjective
<1>10. ASSUME NEW e \in Event, NEW i \in DOMAIN event_buffers[e],
              x = <<"event", e, i>>, event_buffers[e][i] = t
       PROVE  x = y
  <2>1. t \in Range(event_buffers[e])
    BY <1>5, <1>10
  <2>2. PICK f, j :
          f \in Event /\ j \in DOMAIN event_buffers[f] /\ y = <<"event", f, j>> /\ event_buffers[f][j] = t
    BY <1>1, <1>2, <1>3, <1>4, <1>5, <2>1, <1>0, PlaceKinds
  <2>3. f = e
    BY <1>3, <1>5, <2>1, <2>2
  <2> QED BY <1>3, <1>10, <2>1, <2>2, <2>3 DEF IsInjective
<1> QED BY <1>6, <1>7, <1>8, <1>9, <1>10, <1>0, PlaceKinds

(* No live task is ever in two places of the kernel at once.                *)
THEOREM KernelOnePlace == Spec => []OnePlace
<1> QED BY PlacesUnique, KernelInvariant, PTL
-----------------------------------------------------------------------------
(* What WaiterArmed needs to be inductive: an initialized event is enabled  *)
(* in its device, the event that handle_event re-arms has never been        *)
(* masked, and no batch of events is half handled while a task calls.       *)
EventsArmed ==
  /\ \A e \in Event \ (CanEvents \cup {"TASK_EXIT"}) :
       /\ e \in initialized => e \in unmasked
       /\ event_buffers[e] # <<>> /\ e \notin Range(draining) => e \in initialized
  /\ event_buffers["DELAY_5S"] # <<>> => "DELAY_5S" \in unmasked
  /\ mode \in {"user", "exit"} => draining = <<>>

(* The ways in which a task can be accounted for.                           *)
Ready(t) == \E p \in Priority : t \in Range(schedules[p])
Waiting(t) == \E e \in Event : t \in Range(event_buffers[e])
Blocked(t) == State(t) \in {"W4_SEND", "W4_REPLY"}
Queued(t) == \E r \in Live : t \in Range(sender_queue[SlotOf(r)])

(* What NoTaskLost needs to be inductive: every task is accounted for or    *)
(* dropped, never both, and no task waits for itself.                       *)
TasksPlaced ==
  /\ \A t \in Live \ dropped : running = t \/ Ready(t) \/ Waiting(t) \/ Blocked(t) \/ Queued(t)
  /\ \A t \in dropped : t \in Live /\ State(t) = "W4_RECEIVE" /\ ~Queued(t)
  /\ \A r \in Live : r \notin Range(sender_queue[SlotOf(r)])
  /\ SenderCap >= MaxTasks - 1 => dropped = {}
-----------------------------------------------------------------------------
(* Events.                                                                  *)

LEMMA ArmedKept ==
  ASSUME EventsArmed, UNCHANGED events, mode' \in {"user", "exit"} => draining = <<>>
  PROVE  EventsArmed'
BY DEF EventsArmed, events

(* handle_event un-initializes what it masks, and wakes what it             *)
(* un-initializes.                                                          *)
LEMMA HandleEventsArmed ==
  ASSUME EventsArmed, draining = <<>>, mode' \notin {"user", "exit"},
         NEW es \in Seq(Event), NEW masked \in SUBSET (UartEvents \cup CanEvents),
         masked \cap UartEvents \subseteq Range(es),
         HandleEvents(es, masked)
  PROVE  EventsArmed'
<1>1. /\ unmasked' = unmasked \ masked
      /\ initialized' = initialized \ (Range(es) \cap OneShot)
      /\ draining' = es /\ event_buffers' = event_buffers
  BY DEF HandleEvents
<1>2. ASSUME NEW e \in Event \ (CanEvents \cup {"TASK_EXIT"})
      PROVE  /\ e \in initialized' => e \in unmasked'
             /\ event_buffers'[e] # <<>> /\ e \notin Range(draining') => e \in initialized'
  <2>1. /\ e \in initialized => e \in unmasked
        /\ event_buffers[e] # <<>> => e \in initialized
    BY QueueEmpty DEF EventsArmed
  <2>2. e \in masked => e \in Range(es) \cap OneShot
    BY DEF OneShot
  <2> QED BY <1>1, <2>1, <2>2
<1>3. "DELAY_5S" \notin masked
  BY DEF UartEvents, CanEvents
<1> QED BY <1>1, <1>2, <1>3 DEF EventsArmed

LEMMA AwaitEventArmed ==
  ASSUME IInv, EventsArmed, NEW t \in Tid, NEW e \in Event, AwaitEvent(t, e)
  PROVE  EventsArmed'
<1>1. /\ draining = <<>> /\ mode' = "kernel"
      /\ event_buffers' = [event_buffers EXCEPT ![e] = Append(@, t)]
      /\ event_buffers \in [Event -> Seq(Tid)]
  BY DEF AwaitEvent, CallsAny, Calls, ReturnToKernel, EventsArmed, IInv, TypeOK
<1>2. CASE e \in CanEvents /\ draining' = <<e>> /\ UNCHANGED <<initialized, unmasked>>
  <2>1. \A f \in Event \ CanEvents : event_buffers'[f] = event_buffers[f]
    BY <1>1, <1>2
  <2>2. "DELAY_5S" \in Event \ CanEvents
    BY DEF Event, CanEvents
  <2> QED BY <1>1, <1>2, <2>1, <2>2, QueueEmpty DEF EventsArmed
<1>3. CASE /\ initialized' = initialized \cup {e}
           /\ unmasked' = IF e \in initialized \cup {"TASK_EXIT"} THEN unmasked
                          ELSE unmasked \cup {e}
           /\ UNCHANGED draining
  <2>1. \A f \in Event \ {e} : event_buffers'[f] = event_buffers[f]
    BY <1>1
  <2>2. ASSUME NEW f \in Event \ (CanEvents \cup {"TASK_EXIT"})
        PROVE  /\ f \in initialized' => f \in unmasked'
               /\ event_buffers'[f] # <<>> /\ f \notin Range(draining') => f \in initialized'
    BY <1>3, <2>1 DEF EventsArmed
  <2>3. /\ "DELAY_5S" \in Event \ (CanEvents \cup {"TASK_EXIT"})
    BY DEF Event, CanEvents
  <2>4. event_buffers'["DELAY_5S"] # <<>> => "DELAY_5S" \in unmasked'
    BY <1>3, <2>1, <2>2, <2>3 DEF EventsArmed
  <2> QED BY <1>1, <1>3, <2>2, <2>4 DEF EventsArmed
<1> QED BY <1>2, <1>3 DEF AwaitEvent

(* A waiter leaves its buffer only while its event is being handled; when   *)
(* handle_event stops after the first one, DELAY_5S is initialized again.   *)
LEMMA WakeNextArmed ==
  ASSUME IInv, EventsArmed, WakeNext
  PROVE  EventsArmed'
<1>1. PICK e \in Event : e = Head(draining)
  BY HeadTailProperties DEF WakeNext, IInv, TypeOK
<1>2. /\ draining \in Seq(Event) /\ draining # <<>>
      /\ Range(draining) = Range(Tail(draining)) \cup {e}
      /\ mode' = mode /\ unmasked' = unmasked /\ mode \notin {"user", "exit"}
  BY <1>1, QueueTail DEF WakeNext, IInv, TypeOK, EventsArmed
<1>3. CASE event_buffers[e] = <<>>
  <2>1. /\ draining' = Tail(draining)
        /\ UNCHANGED <<event_buffers, initialized>>
    BY <1>1, <1>3 DEF WakeNext
  <2> QED BY <1>2, <1>3, <2>1 DEF EventsArmed
<1>4. CASE event_buffers[e] # <<>>
  <2>1. PICK t : t = Head(event_buffers[e])
    OBVIOUS
  <2>2. t \in Live
    <3>1. event_buffers[e] \in Seq(Tid)
      BY DEF IInv, TypeOK
    <3>2. t \in Range(event_buffers[e])
      BY <1>4, <2>1, <3>1, QueueTail
    <3> QED BY <3>2 DEF IInv, EventBuffersSound
  <2>3. /\ draining' = IF e \in FirstOnly THEN Tail(draining) ELSE draining
        /\ initialized' = IF e = "DELAY_5S" /\ Tail(event_buffers[e]) # <<>>
                          THEN initialized \cup {e} ELSE initialized
        /\ event_buffers'[e] = Tail(event_buffers[e])
        /\ \A f \in Event \ {e} : event_buffers'[f] = event_buffers[f]
    BY <1>1, <1>4, <2>1, <2>2 DEF WakeNext, IInv, TypeOK
  <2>4. ASSUME NEW f \in Event \ (CanEvents \cup {"TASK_EXIT"})
        PROVE  /\ f \in initialized' => f \in unmasked'
               /\ event_buffers'[f] # <<>> /\ f \notin Range(draining') => f \in initialized'
    <3>1. CASE f # e
      BY <1>2, <2>3, <3>1 DEF EventsArmed
    <3>2. CASE f = e /\ e = "DELAY_5S"
      BY <1>2, <1>4, <2>3, <3>2 DEF EventsArmed
    <3>3. CASE f = e /\ e # "DELAY_5S"
      <4>1. e \notin FirstOnly
        BY <3>3 DEF FirstOnly, CanEvents
      <4> QED BY <1>2, <2>3, <3>3, <4>1 DEF EventsArmed
    <3> QED BY <3>1, <3>2, <3>3
  <2>5. event_buffers'["DELAY_5S"] # <<>> => "DELAY_5S" \in unmasked'
    <3>1. "DELAY_5S" \in Event
      BY DEF Event
    <3> QED BY <1>2, <1>4, <2>3, <3>1 DEF EventsArmed
  <2> QED BY <1>2, <2>4, <2>5 DEF EventsArmed
<1> QED BY <1>3, <1>4

LEMMA IrqArmed ==
  ASSUME IInv, EventsArmed, HandleTimerIrq \/ HandleUartIrq \/ HandleMcp2515Irq
  PROVE  EventsArmed'
<1>1. draining = <<>> /\ mode' \notin {"user", "exit"}
  BY DEF HandleTimerIrq, HandleUartIrq, HandleMcp2515Irq
<1>2. CASE HandleTimerIrq
  <2>1. PICK e \in Event : HandleEvents(<<e>>, {})
    BY <1>2 DEF HandleTimerIrq, Event
  <2>2. <<e>> \in Seq(Event)
    OBVIOUS
  <2> QED BY <1>1, <2>1, <2>2, HandleEventsArmed
<1>3. CASE HandleUartIrq
  <2> DEFINE all == <<"UART_RX_IRQ", "UART_TX_IRQ", "UART3_TX_IRQ">>
             tx == <<"UART_TX_IRQ", "UART3_TX_IRQ">>
  <2>1. all \in Seq(Event) /\ tx \in Seq(Event)
    BY DEF Event
  <2>2. Range(all) = UartEvents /\ Range(tx) = UartEvents \ {"UART_RX_IRQ"}
    BY DEF Range, UartEvents
  <2>3. HandleEvents(all, UartEvents) \/ HandleEvents(tx, UartEvents \ {"UART_RX_IRQ"})
    BY <1>3 DEF HandleUartIrq
  <2> HIDE DEF all, tx
  <2> QED BY <1>1, <2>1, <2>2, <2>3, HandleEventsArmed
<1>4. CASE HandleMcp2515Irq
  <2>1. PICK source \in SUBSET CanEvents : \E e \in Event : HandleEvents(<<e>>, source)
    BY <1>4 DEF HandleMcp2515Irq, Event
  <2>2. PICK e \in Event : HandleEvents(<<e>>, source)
    BY <2>1
  <2>3. <<e>> \in Seq(Event) /\ source \cap UartEvents = {}
    BY DEF CanEvents, UartEvents
  <2> QED BY <1>1, <2>2, <2>3, HandleEventsArmed
<1> QED BY <1>2, <1>3, <1>4

LEMMA NextEventsArmed ==
  ASSUME IInv, EventsArmed, [Next]_vars
  PROVE  EventsArmed'
<1> USE DEF CallsAny, Calls, ReturnToKernel
<1>1. ASSUME NEW t \in Tid, Syscall(t)
      PROVE  EventsArmed'
  <2>1. ASSUME NEW e \in Event, AwaitEvent(t, e) PROVE EventsArmed'
    BY <2>1, AwaitEventArmed
  <2>2. ASSUME NEW e \in Event, EmitEvent(t, e) PROVE EventsArmed'
    <3>1. <<e>> \in Seq(Event) /\ {e} \cap UartEvents \subseteq Range(<<e>>)
      BY DEF Range
    <3>2. HandleEvents(<<e>>, {e} \cap UartEvents) /\ mode = "user" /\ mode' = "emit"
      BY <2>2 DEF EmitEvent
    <3> HIDE DEF CallsAny, Calls, ReturnToKernel
    <3> QED BY <3>1, <3>2, HandleEventsArmed DEF EventsArmed
  <2>3. CASE UNCHANGED events /\ mode = "user"
    BY <2>3, ArmedKept DEF EventsArmed
  <2> QED
    BY <1>1, <2>1, <2>2, <2>3, KernelAssumption
    DEF Syscall, Query, Yield, Park, MakeReady, Resume, Exit, Create, CreateFails, SendFails,
        SendToReceiver, SendQueued, ReplyFails, Reply, ReceiveQueued, ReceiveBlocks
<1>2. ASSUME NEW t \in Tid, Interrupt(t)
      PROVE  EventsArmed'
  BY <1>2, ArmedKept DEF Interrupt
<1>3. CASE KernelStep
  <2>1. CASE (\E p \in Priority : Dispatch(p)) \/ Halt
    BY <2>1, ArmedKept DEF Dispatch, Halt
  <2>2. CASE WakeNext
    BY <2>2, WakeNextArmed
  <2>3. CASE HandleTimerIrq \/ HandleUartIrq \/ HandleMcp2515Irq
    BY <2>3, IrqArmed
  <2>4. ASSUME NEW t \in Tid, ExitWakeSender(t)
        PROVE  EventsArmed'
    BY <2>4, ArmedKept DEF ExitWakeSender, EventsArmed
  <2>5. ASSUME NEW t \in Tid, ExitDelete(t)
        PROVE  EventsArmed'
    <3>1. <<"TASK_EXIT">> \in Seq(Event)
      BY DEF Event
    <3> QED BY <2>5, <3>1, HandleEventsArmed DEF ExitDelete, EventsArmed
  <2>6. ASSUME NEW t \in Tid, EmitDone(t) \/ EndInterrupt(t)
        PROVE  EventsArmed'
    BY <2>6, ArmedKept DEF EmitDone, EndInterrupt, Resume, MakeReady
  <2> QED BY <1>3, <2>1, <2>2, <2>3, <2>4, <2>5, <2>6 DEF KernelStep
<1>4. CASE UNCHANGED vars
  BY <1>4, ArmedKept DEF vars, EventsArmed
<1> QED BY <1>1, <1>2, <1>3, <1>4 DEF Next

(* A task that waits for a timer or UART event is never forgotten: its      *)
(* event is initialized and its interrupt enabled, whatever other tasks     *)
(* await, emit or are interrupted by.                                       *)
THEOREM KernelWaiterArmed == Spec => []WaiterArmed
<1>1. Init => EventsArmed
  BY DEF Init, EventsArmed, Event, CanEvents
<1>2. EventsArmed => WaiterArmed
  BY DEF EventsArmed, WaiterArmed
<1> QED BY <1>1, <1>2, NextEventsArmed, KernelInvariant, PTL DEF Spec
-----------------------------------------------------------------------------
(* Lost tasks.                                                              *)

LEMMA ScheduleRange ==
  ASSUME TypeOK, DescriptorsOwned, NEW queues \in [Priority -> Seq(Tid)], NEW t \in Live
  PROVE  /\ \A p \in Priority : Range(Schedule(queues, t)[p]) = Joins(t, queues, p)
         /\ \E p \in Priority : t \in Range(Schedule(queues, t)[p])
         /\ Schedule(queues, t) \in [Priority -> Seq(Tid)]
<1>1. /\ td_tid[SlotOf(t)] = t /\ t \in Tid
      /\ td_priority[SlotOf(t)] \in Priority
  BY SlotFacts
<1>2. \A p \in Priority :
        Schedule(queues, t)[p] =
          IF p = td_priority[SlotOf(t)] THEN Append(queues[p], t) ELSE queues[p]
  BY <1>1 DEF Schedule
<1>3. \A p \in Priority : Range(Append(queues[p], t)) = Range(queues[p]) \cup {t}
  BY <1>1, QueueAppend
<1>4. \A p \in Priority : Range(Schedule(queues, t)[p]) = Joins(t, queues, p)
  BY <1>2, <1>3 DEF Joins
<1> QED BY <1>1, <1>4, ScheduleType DEF Joins

(* A step that moves only the tasks of M, none of them a queued sender, and *)
(* leaves the sender queues as they are.                                    *)
LEMMA PlacedKept ==
  ASSUME IInv, TasksPlaced, UNCHANGED <<tid_to_descriptor, sender_queue, dropped>>,
         NEW M,
         \A t \in Live \ M : /\ State(t)' = State(t)
                             /\ running = t => running' = t
                             /\ Ready(t) => Ready(t)'
                             /\ Waiting(t) => Waiting(t)',
         \A t \in Live \cap M : /\ State(t) # "W4_RECEIVE"
                                /\ running' = t \/ Ready(t)' \/ Waiting(t)' \/ Blocked(t)'
  PROVE  TasksPlaced'
<1>1. Live' = Live /\ \A t \in Live : SlotOf(t)' = SlotOf(t)
  BY DEF Live, SlotOf
<1>2. \A t : Queued(t)' = Queued(t)
  BY <1>1 DEF Queued
<1>3. \A t \in Live \ M : Blocked(t)' = Blocked(t)
  BY DEF Blocked
<1> QED BY <1>1, <1>2, <1>3 DEF TasksPlaced

LEMMA ResumePlaced ==
  ASSUME IInv, TasksPlaced, NEW t \in Live, running = t, State(t) = "RUNNING",
         \/ Resume(t)
         \/ MakeReady(t) /\ UNCHANGED <<table, ipc, events, lines>>
  PROVE  TasksPlaced'
<1>1. /\ UNCHANGED <<tid_to_descriptor, sender_queue, dropped, event_buffers>>
      /\ schedules' = Schedule(schedules, t)
  BY DEF Resume, MakeReady, table, ipc, events
<1>2. \A u \in Live \ {t} : State(u)' = State(u)
  <2>1. CASE Resume(t)
    BY <2>1 DEF Resume, State, SlotOf, table
  <2>2. CASE MakeReady(t)
    BY <1>1, <2>2, StateUpdate DEF MakeReady, IInv
  <2> QED BY <2>1, <2>2
<1>3. /\ \A p \in Priority : Range(schedules'[p]) = Joins(t, schedules, p)
      /\ \E p \in Priority : t \in Range(schedules'[p])
  BY <1>1, ScheduleRange DEF IInv, TypeOK
<1>4. Ready(t)' /\ \A u \in Live : Ready(u) => Ready(u)'
  BY <1>3 DEF Ready, Joins
<1>5. \A u \in Live : Waiting(u) => Waiting(u)'
  BY <1>1 DEF Waiting
<1>6. \A u \in Live \ {t} : /\ State(u)' = State(u)
                            /\ running = u => running' = u
                            /\ Ready(u) => Ready(u)'
                            /\ Waiting(u) => Waiting(u)'
  BY <1>2, <1>4, <1>5
<1>7. \A u \in Live \cap {t} :
        /\ State(u) # "W4_RECEIVE"
        /\ running' = u \/ Ready(u)' \/ Waiting(u)' \/ Blocked(u)'
  BY <1>4
<1> QED BY <1>1, <1>6, <1>7, PlacedKept

LEMMA CreatePlaced ==
  ASSUME IInv, TasksPlaced, NEW t \in Tid, NEW p \in 0..Levels, Create(t, p)
  PROVE  TasksPlaced'
<1>a. PICK n, s : n = next_tid /\ s = Head(allocator)
  OBVIOUS
<1> DEFINE queues == [schedules EXCEPT ![p] = Append(@, n)]
<1>1. /\ t \in Live /\ running = t /\ p \in Priority /\ n \in Tid /\ n \notin Live
      /\ s \in Slot /\ s \notin Range(tid_to_descriptor)
  <2>1. /\ t \in Live /\ running = t /\ p \in Priority /\ n \in Tid /\ n \notin Live
        /\ allocator \in Seq(Slot) /\ allocator # <<>>
    BY <1>a, KernelAssumption DEF Create, CreateTask, CallsAny, Calls, ValidPriority, IInv,
       TypeOK, Priority, Tid, TidsIssued
  <2> QED BY <1>a, <2>1, QueueTail DEF IInv, DescriptorsOwned
<1>2. /\ Live' = Live \cup {n} /\ SlotOf(n)' = s
      /\ \A u \in Live : SlotOf(u)' = SlotOf(u) /\ SlotOf(u) # s
      /\ td_state' = [td_state EXCEPT ![s] = "READY"]
      /\ sender_queue' = [sender_queue EXCEPT ![s] = <<>>]
      /\ UNCHANGED <<dropped, event_buffers>>
  BY <1>a, <1>1 DEF Create, CreateTask, Live, SlotOf, Range, events
<1>3. \A u \in Live : /\ State(u)' = State(u)
                      /\ sender_queue'[SlotOf(u)'] = sender_queue[SlotOf(u)]
  BY <1>2 DEF State, IInv, TypeOK
<1>4. sender_queue'[SlotOf(n)'] = <<>>
  BY <1>1, <1>2 DEF IInv, TypeOK
<1>5. \A u \in Live : Queued(u)' <=> Queued(u)
  BY <1>2, <1>3, <1>4, QueueEmpty DEF Queued
<1>6. /\ queues \in [Priority -> Seq(Tid)]
      /\ \A q \in Priority : Range(schedules[q]) \subseteq Range(queues[q])
      /\ n \in Range(queues[p])
  <2>1. schedules \in [Priority -> Seq(Tid)]
    BY DEF IInv, TypeOK
  <2>2. /\ Append(schedules[p], n) \in Seq(Tid)
        /\ Range(Append(schedules[p], n)) = Range(schedules[p]) \cup {n}
    BY <1>1, <2>1, QueueAppend, AppendProperties
  <2> QED BY <1>1, <2>1, <2>2
<1>7. schedules' = Schedule(queues, t)
  BY <1>a DEF Create
<1> HIDE DEF queues
<1>8. /\ \A q \in Priority : Range(schedules'[q]) = Joins(t, queues, q)
      /\ \E q \in Priority : t \in Range(schedules'[q])
  BY <1>1, <1>6, <1>7, ScheduleRange DEF IInv
<1>9. Ready(t)' /\ Ready(n)' /\ \A u \in Live : Ready(u) => Ready(u)'
  BY <1>1, <1>6, <1>8 DEF Ready, Joins
<1>10. \A u \in Live : (Waiting(u) => Waiting(u)') /\ (Blocked(u) => Blocked(u)')
  BY <1>2, <1>3 DEF Waiting, Blocked
<1>11. n \notin Range(sender_queue'[SlotOf(n)'])
  BY <1>4, QueueEmpty
<1> QED BY <1>1, <1>2, <1>3, <1>5, <1>9, <1>10, <1>11 DEF TasksPlaced

(* The woken sender leaves the queue that it was in.                        *)
LEMMA DequeuePlaced ==
  ASSUME IInv, IInv', TasksPlaced, NEW t \in Live, sender_queue[SlotOf(t)] # <<>>,
         UNCHANGED <<tid_to_descriptor, dropped, event_buffers>>,
         sender_queue' = [sender_queue EXCEPT ![SlotOf(t)] = Tail(@)],
         running = t, running' = t \/ Ready(t)', State(t) # "W4_RECEIVE",
         \A u \in Live : Ready(u) => Ready(u)',
         NEW from, from = Head(sender_queue[SlotOf(t)]),
         \A u \in Live \ {t, from} : State(u)' = State(u),
         Ready(from)' \/ Blocked(from)'
  PROVE  TasksPlaced'
<1>1. /\ Live' = Live /\ \A u \in Live : SlotOf(u)' = SlotOf(u)
      /\ SlotOf(t) \in Slot /\ sender_queue[SlotOf(t)] \in Seq(Tid)
  BY SlotFacts DEF Live, SlotOf, IInv, TypeOK
<1>2. /\ from \in Range(sender_queue[SlotOf(t)])
      /\ Range(Tail(sender_queue[SlotOf(t)])) = Range(sender_queue[SlotOf(t)]) \ {from}
  BY <1>1, QueueTail DEF IInv, SenderQueuesSound
<1>3. \A r \in Live : Range(sender_queue'[SlotOf(r)]) = Range(sender_queue[SlotOf(r)]) \ {from}
  <2>1. sender_queue'[SlotOf(t)] = Tail(sender_queue[SlotOf(t)])
        /\ \A r \in Live \ {t} : sender_queue'[SlotOf(r)] = sender_queue[SlotOf(r)]
    BY <1>1, SlotFacts DEF IInv, TypeOK
  <2>2. \A r \in Live \ {t} : from \notin Range(sender_queue[SlotOf(r)])
    BY <1>2 DEF IInv, SenderQueuesSound
  <2> QED BY <1>2, <2>1, <2>2
<1>4. /\ \A u : Queued(u) /\ u # from => Queued(u)'
      /\ \A u : Queued(u)' => Queued(u)
  BY <1>1, <1>3 DEF Queued
<1>5. from \in Live /\ from \notin dropped /\ t \notin dropped
  BY <1>2 DEF IInv, SenderQueuesSound, TasksPlaced, Queued
<1>6. \A u \in Live \ {t, from} : /\ Blocked(u) => Blocked(u)'
                                  /\ Waiting(u) => Waiting(u)'
                                  /\ State(u)' = State(u)
  BY DEF Blocked, Waiting
<1>7. \A u \in Live' \ dropped' :
        \/ running' = u \/ Ready(u)' \/ Waiting(u)' \/ Blocked(u)' \/ Queued(u)'
  BY <1>1, <1>4, <1>6 DEF TasksPlaced
<1>8. \A u \in dropped' : u \in Live' /\ State(u)' = "W4_RECEIVE" /\ ~Queued(u)'
  BY <1>1, <1>4, <1>5, <1>6 DEF TasksPlaced
<1>9. \A r \in Live' : r \notin Range(sender_queue'[SlotOf(r)'])
  BY <1>1, <1>3 DEF TasksPlaced
<1> QED BY <1>7, <1>8, <1>9 DEF TasksPlaced

(* The sender is queued, or the queue is full and the sender is dropped; a  *)
(* queue that can hold every task but the receiver is never full.           *)
LEMMA SendQueuedPlaced ==
  ASSUME IInv, IInv', TasksPlaced, NEW t \in Tid, NEW to \in Tid, SendQueued(t, to)
  PROVE  TasksPlaced'
<1>1. /\ t \in Live /\ to \in Live \ {t} /\ running = t /\ State(t) = "RUNNING"
      /\ td_state' = [td_state EXCEPT ![SlotOf(t)] = "W4_RECEIVE"]
      /\ UNCHANGED <<tid_to_descriptor, schedules, event_buffers>>
  BY DEF SendQueued, CallsAny, Calls, RunningSound, IInv, TypeOK, table, events
<1>2. /\ Live' = Live /\ \A u \in Live : SlotOf(u)' = SlotOf(u)
      /\ State(t)' = "W4_RECEIVE" /\ \A u \in Live \ {t} : State(u)' = State(u)
  BY <1>1, StateUpdate DEF Live, SlotOf, IInv
<1>3. /\ \A u \in Live \ {t} : Blocked(u)' = Blocked(u)
      /\ \A u : Ready(u)' = Ready(u) /\ Waiting(u)' = Waiting(u)
  BY <1>1, <1>2 DEF Blocked, Ready, Waiting
<1>4. ~Queued(t) /\ t \notin dropped
  BY <1>1 DEF Queued, TasksPlaced, IInv, SenderQueuesSound
<1>5. PICK q : q = sender_queue[SlotOf(to)]
  OBVIOUS
<1>6. /\ q \in Seq(Tid) /\ Len(q) \in Nat /\ IsInjective(q) /\ Range(q) \subseteq Live
      /\ t \notin Range(q) /\ to \notin Range(q) /\ to \in Tid /\ SlotOf(to) \in Slot
  BY <1>1, <1>4, <1>5, SlotFacts, LenProperties
  DEF Queued, TasksPlaced, IInv, TypeOK, SenderQueuesSound
<1>7. CASE Len(q) < SenderCap
  <2>1. sender_queue' = [sender_queue EXCEPT ![SlotOf(to)] = Append(q, t)] /\ dropped' = dropped
    BY <1>5, <1>7 DEF SendQueued
  <2>2. Range(Append(q, t)) = Range(q) \cup {t}
    BY <1>6, QueueAppend
  <2>3. /\ Range(sender_queue'[SlotOf(to)]) = Range(sender_queue[SlotOf(to)]) \cup {t}
        /\ \A r \in Live \ {to} : sender_queue'[SlotOf(r)] = sender_queue[SlotOf(r)]
    <3>1. sender_queue'[SlotOf(to)] = Append(q, t)
      BY <1>6, <2>1 DEF IInv, TypeOK
    <3>2. \A r \in Live \ {to} : SlotOf(r) \in Slot /\ SlotOf(r) # SlotOf(to)
      BY <1>1, SlotFacts DEF IInv
    <3>3. \A r \in Live \ {to} : sender_queue'[SlotOf(r)] = sender_queue[SlotOf(r)]
      BY <2>1, <3>2 DEF IInv, TypeOK
    <3> QED BY <1>5, <2>2, <3>1, <3>3
  <2>4. Queued(t)' /\ \A u \in Live \ {t} : Queued(u)' <=> Queued(u)
    BY <1>1, <1>2, <2>3 DEF Queued
  <2>5. \A r \in Live : r \notin Range(sender_queue'[SlotOf(r)])
    BY <1>1, <2>3 DEF TasksPlaced
  <2> QED BY <1>1, <1>2, <1>3, <1>4, <2>1, <2>4, <2>5 DEF TasksPlaced
<1>8. CASE ~(Len(q) < SenderCap)
  <2>1. sender_queue' = sender_queue /\ dropped' = dropped \cup {t}
    BY <1>5, <1>8 DEF SendQueued
  <2>2. \A u : Queued(u)' = Queued(u)
    BY <1>2, <2>1 DEF Queued
  <2>3. ~(SenderCap >= MaxTasks - 1)
    <3> DEFINE a == Append(q, t)
               b == Append(a, to)
    <3>1. /\ a \in Seq(Tid) /\ IsInjective(a) /\ Range(a) = Range(q) \cup {t}
          /\ Len(a) = Len(q) + 1
      BY <1>6, QueueAppend, AppendProperties
    <3> HIDE DEF a
    <3>2. /\ b \in Seq(Tid) /\ IsInjective(b) /\ Range(b) = Range(a) \cup {to}
          /\ Len(b) = Len(a) + 1
      BY <1>1, <1>6, <3>1, QueueAppend, AppendProperties
    <3> HIDE DEF b
    <3>3. Len(b) <= MaxTasks
      BY <1>1, <1>6, <3>1, <3>2, QueueBounded DEF IInv
    <3> QED BY <1>6, <1>8, <3>1, <3>2, <3>3, KernelAssumption
  <2> QED BY <1>1, <1>2, <1>3, <1>4, <2>1, <2>2, <2>3 DEF TasksPlaced
<1> QED BY <1>7, <1>8

LEMMA ExitPlaced ==
  ASSUME IInv, IInv', TasksPlaced, NEW t \in Tid,
         Exit(t) \/ ExitWakeSender(t) \/ ExitDelete(t)
  PROVE  TasksPlaced'
<1>1. /\ t \in Live /\ running = t /\ State(t) \in {"RUNNING", "TERMINATED"}
      /\ SlotOf(t) \in Slot
  BY SlotFacts DEF Exit, ExitWakeSender, ExitDelete, CallsAny, Calls, RunningSound, IInv, TypeOK
<1>2. CASE Exit(t)
  <2>1. /\ UNCHANGED <<tid_to_descriptor, sender_queue, dropped, schedules, event_buffers>>
        /\ running' = t
        /\ td_state' = [td_state EXCEPT ![SlotOf(t)] = "TERMINATED"]
    BY <1>1, <1>2 DEF Exit, table, ipc, events
  <2>2. \A u \in Live \ {t} : State(u)' = State(u)
    BY <1>1, <2>1, StateUpdate DEF IInv
  <2>3. \A u : Ready(u)' = Ready(u) /\ Waiting(u)' = Waiting(u)
    BY <2>1 DEF Ready, Waiting
  <2>4. \A u \in Live \ {t} : /\ State(u)' = State(u)
                              /\ running = u => running' = u
                              /\ Ready(u) => Ready(u)'
                              /\ Waiting(u) => Waiting(u)'
    BY <1>1, <2>2, <2>3
  <2>5. \A u \in Live \cap {t} :
          /\ State(u) # "W4_RECEIVE"
          /\ running' = u \/ Ready(u)' \/ Waiting(u)' \/ Blocked(u)'
    BY <1>1, <2>1
  <2> QED BY <2>1, <2>4, <2>5, PlacedKept
<1>3. CASE ExitWakeSender(t)
  <2>1. PICK from : from = Head(sender_queue[SlotOf(t)])
    OBVIOUS
  <2>2. /\ sender_queue[SlotOf(t)] # <<>> /\ sender_queue[SlotOf(t)] \in Seq(Tid)
        /\ from \in Range(sender_queue[SlotOf(t)])
    BY <1>1, <1>3, <2>1, QueueTail DEF ExitWakeSender, IInv, TypeOK
  <2>3. from \in Live
    BY <1>1, <2>2 DEF IInv, SenderQueuesSound
  <2>4. /\ UNCHANGED <<tid_to_descriptor, dropped, event_buffers>> /\ running' = t
        /\ td_state' = [td_state EXCEPT ![SlotOf(from)] = "READY"]
        /\ schedules' = Schedule(schedules, from)
        /\ sender_queue' = [sender_queue EXCEPT ![SlotOf(t)] = Tail(@)]
    BY <1>1, <1>3, <2>1, <2>3 DEF ExitWakeSender, table, events
  <2>5. \A u \in Live \ {t, from} : State(u)' = State(u)
    BY <2>3, <2>4, StateUpdate DEF IInv
  <2>6. /\ \A p \in Priority : Range(schedules'[p]) = Joins(from, schedules, p)
        /\ \E p \in Priority : from \in Range(schedules'[p])
    BY <2>3, <2>4, ScheduleRange DEF IInv, TypeOK
  <2>7. Ready(from)' /\ \A u \in Live : Ready(u) => Ready(u)'
    BY <2>6 DEF Ready, Joins
  <2> QED BY <1>1, <2>1, <2>2, <2>4, <2>5, <2>7, DequeuePlaced
<1>4. CASE ExitDelete(t)
  <2>1. /\ UNCHANGED <<sender_queue, dropped, schedules, event_buffers, td_state>>
        /\ Live' = Live \ {t} /\ sender_queue[SlotOf(t)] = <<>> /\ State(t) = "TERMINATED"
        /\ \A u \in Live \ {t} : SlotOf(u)' = SlotOf(u) /\ State(u)' = State(u)
    BY <1>1, <1>4 DEF ExitDelete, DeleteTask, HandleEvents, Restrict, Live, SlotOf, State, ipc,
       RunningSound, IInv
  <2>2. \A u : Ready(u)' = Ready(u) /\ Waiting(u)' = Waiting(u)
    BY <2>1 DEF Ready, Waiting
  <2>3. \A u : Queued(u)' <=> Queued(u)
    <3>1. \A r \in Live \ {t} : sender_queue'[SlotOf(r)'] = sender_queue[SlotOf(r)]
      BY <2>1
    <3>2. Range(sender_queue[SlotOf(t)]) = {}
      BY <2>1, QueueEmpty
    <3> QED BY <1>1, <2>1, <3>1, <3>2 DEF Queued
  <2>4. \A u \in Live \ {t} : Blocked(u)' = Blocked(u)
    BY <2>1 DEF Blocked
  <2> QED BY <1>1, <2>1, <2>2, <2>3, <2>4 DEF TasksPlaced
<1> QED BY <1>2, <1>3, <1>4

LEMMA ReceivePlaced ==
  ASSUME IInv, IInv', TasksPlaced, NEW t \in Tid, ReceiveQueued(t) \/ ReceiveBlocks(t)
  PROVE  TasksPlaced'
<1>1. /\ t \in Live /\ running = t /\ State(t) = "RUNNING" /\ SlotOf(t) \in Slot
      /\ UNCHANGED <<tid_to_descriptor, dropped, event_buffers>>
  BY SlotFacts DEF ReceiveQueued, ReceiveBlocks, CallsAny, Calls, RunningSound, IInv, TypeOK,
     table, ipc, events
<1>2. CASE ReceiveQueued(t)
  <2>1. PICK from : from = Head(sender_queue[SlotOf(t)])
    OBVIOUS
  <2>2. /\ sender_queue[SlotOf(t)] # <<>> /\ sender_queue[SlotOf(t)] \in Seq(Tid)
        /\ from \in Range(sender_queue[SlotOf(t)])
    BY <1>1, <1>2, <2>1, QueueTail DEF ReceiveQueued, IInv, TypeOK
  <2>3. from \in Live \ {t}
    BY <1>1, <2>2 DEF IInv, SenderQueuesSound
  <2>4. /\ td_state' = [td_state EXCEPT ![SlotOf(from)] = "W4_REPLY", ![SlotOf(t)] = "READY"]
        /\ schedules' = Schedule(schedules, t)
        /\ sender_queue' = [sender_queue EXCEPT ![SlotOf(t)] = Tail(@)]
    BY <1>2, <2>1, <2>3 DEF ReceiveQueued
  <2>5. State(from)' = "W4_REPLY" /\ \A u \in Live \ {t, from} : State(u)' = State(u)
    <3>1. from \in Live /\ t \in Live \ {from}
      BY <1>1, <2>3
    <3> QED BY <1>1, <2>4, <3>1, StateUpdate2 DEF IInv
  <2>6. /\ \A p \in Priority : Range(schedules'[p]) = Joins(t, schedules, p)
        /\ \E p \in Priority : t \in Range(schedules'[p])
    <3>1. TypeOK /\ DescriptorsOwned /\ schedules \in [Priority -> Seq(Tid)]
      BY DEF IInv, TypeOK
    <3> QED BY <1>1, <2>4, <3>1, ScheduleRange
  <2>7. Ready(t)' /\ \A u \in Live : Ready(u) => Ready(u)'
    BY <2>6 DEF Ready, Joins
  <2>8. Blocked(from)'
    BY <2>5 DEF Blocked
  <2> QED BY <1>1, <2>1, <2>2, <2>4, <2>5, <2>7, <2>8, DequeuePlaced
<1>3. CASE ReceiveBlocks(t)
  <2>1. /\ td_state' = [td_state EXCEPT ![SlotOf(t)] = "W4_SEND"]
        /\ UNCHANGED <<sender_queue, schedules>>
    BY <1>3 DEF ReceiveBlocks, ipc
  <2>2. State(t)' = "W4_SEND" /\ \A u \in Live \ {t} : State(u)' = State(u)
    BY <1>1, <2>1, StateUpdate DEF IInv
  <2>3. \A u : Ready(u)' = Ready(u) /\ Waiting(u)' = Waiting(u)
    BY <1>1, <2>1 DEF Ready, Waiting
  <2>4. \A u \in Live \ {t} : /\ State(u)' = State(u)
                              /\ running = u => running' = u
                              /\ Ready(u) => Ready(u)'
                              /\ Waiting(u) => Waiting(u)'
    BY <1>1, <2>2, <2>3
  <2>5. \A u \in Live \cap {t} :
          /\ State(u) # "W4_RECEIVE"
          /\ running' = u \/ Ready(u)' \/ Waiting(u)' \/ Blocked(u)'
    BY <1>1, <2>2 DEF Blocked
  <2> QED BY <1>1, <2>1, <2>4, <2>5, PlacedKept
<1> QED BY <1>2, <1>3

(* A message or an answer that wakes its addressee.                         *)
LEMMA HandOverPlaced ==
  ASSUME IInv, TasksPlaced, NEW t \in Tid, NEW to \in Tid, SendToReceiver(t, to) \/ Reply(t, to)
  PROVE  TasksPlaced'
<1>1. /\ t \in Live /\ running = t /\ State(t) = "RUNNING"
      /\ to \in Live /\ State(to) \in {"W4_SEND", "W4_REPLY"}
      /\ UNCHANGED <<tid_to_descriptor, sender_queue, dropped, event_buffers>>
  BY DEF SendToReceiver, Reply, Listening, MayReply, CallsAny, Calls, RunningSound, IInv, TypeOK,
     table, events
<1>2. /\ \A p \in Priority : Range(Schedule(schedules, to)[p]) = Joins(to, schedules, p)
      /\ \E p \in Priority : to \in Range(Schedule(schedules, to)[p])
      /\ Schedule(schedules, to) \in [Priority -> Seq(Tid)]
  BY <1>1, ScheduleRange DEF IInv, TypeOK
<1>3. /\ \A u \in Live \ {t, to} : State(u)' = State(u) /\ (Ready(u) => Ready(u)')
      /\ Ready(to)'
      /\ Ready(t)' \/ Blocked(t)'
  <2>1. CASE SendToReceiver(t, to)
    <3>1. /\ td_state' = [td_state EXCEPT ![SlotOf(t)] = "W4_REPLY", ![SlotOf(to)] = "READY"]
          /\ schedules' = Schedule(schedules, to) /\ to \in Live \ {t}
      BY <2>1 DEF SendToReceiver
    <3>2. State(t)' = "W4_REPLY" /\ \A u \in Live \ {t, to} : State(u)' = State(u)
      BY <1>1, <3>1, StateUpdate2 DEF IInv
    <3> QED BY <1>2, <3>1, <3>2 DEF Blocked, Ready, Joins
  <2>2. CASE Reply(t, to)
    <3>1. /\ td_state' = [td_state EXCEPT ![SlotOf(to)] = "READY"]
          /\ schedules' = Schedule(Schedule(schedules, to), t)
      BY <2>2 DEF Reply
    <3>2. \A u \in Live \ {t, to} : State(u)' = State(u)
      BY <1>1, <3>1, StateUpdate DEF IInv
    <3>3. /\ \A p \in Priority : Range(schedules'[p]) = Joins(t, Schedule(schedules, to), p)
          /\ \E p \in Priority : t \in Range(schedules'[p])
      BY <1>1, <1>2, <3>1, ScheduleRange DEF IInv
    <3> QED BY <1>2, <3>2, <3>3 DEF Ready, Joins
  <2> QED BY <2>1, <2>2
<1>4. \A u \in Live : Waiting(u) => Waiting(u)'
  BY <1>1 DEF Waiting
<1>5. \A u \in Live \ {t, to} : /\ State(u)' = State(u)
                                /\ running = u => running' = u
                                /\ Ready(u) => Ready(u)'
                                /\ Waiting(u) => Waiting(u)'
  BY <1>1, <1>3, <1>4
<1>6. \A u \in Live \cap {t, to} :
        /\ State(u) # "W4_RECEIVE"
        /\ running' = u \/ Ready(u)' \/ Waiting(u)' \/ Blocked(u)'
  BY <1>1, <1>3
<1> QED BY <1>1, <1>5, <1>6, PlacedKept

LEMMA AwaitEventPlaced ==
  ASSUME IInv, TasksPlaced, NEW t \in Tid, NEW e \in Event, AwaitEvent(t, e)
  PROVE  TasksPlaced'
<1>1. /\ t \in Live /\ running = t /\ State(t) = "RUNNING"
      /\ UNCHANGED <<tid_to_descriptor, td_state, sender_queue, dropped, schedules>>
      /\ event_buffers' = [event_buffers EXCEPT ![e] = Append(@, t)]
      /\ event_buffers \in [Event -> Seq(Tid)]
  BY DEF AwaitEvent, CallsAny, Calls, RunningSound, IInv, TypeOK, table, ipc
<1>2. /\ Range(event_buffers'[e]) = Range(event_buffers[e]) \cup {t}
      /\ \A f \in Event \ {e} : event_buffers'[f] = event_buffers[f]
  BY <1>1, QueueAppend
<1>3. Waiting(t)' /\ \A u \in Live : Waiting(u) => Waiting(u)'
  BY <1>2 DEF Waiting
<1>4. \A u \in Live : State(u)' = State(u) /\ (Ready(u) => Ready(u)')
  BY <1>1 DEF State, SlotOf, Ready
<1>5. \A u \in Live \ {t} : /\ State(u)' = State(u)
                            /\ running = u => running' = u
                            /\ Ready(u) => Ready(u)'
                            /\ Waiting(u) => Waiting(u)'
  BY <1>1, <1>3, <1>4
<1>6. \A u \in Live \cap {t} :
        /\ State(u) # "W4_RECEIVE"
        /\ running' = u \/ Ready(u)' \/ Waiting(u)' \/ Blocked(u)'
  BY <1>1, <1>3
<1> QED BY <1>1, <1>5, <1>6, PlacedKept

LEMMA WakeNextPlaced ==
  ASSUME IInv, TasksPlaced, WakeNext
  PROVE  TasksPlaced'
<1>1. /\ UNCHANGED <<tid_to_descriptor, sender_queue, dropped, running>>
      /\ \A u \in Live : State(u)' = State(u)
  BY DEF WakeNext, table, ipc, State, SlotOf
<1>2. PICK e \in Event : e = Head(draining)
  BY HeadTailProperties DEF WakeNext, IInv, TypeOK
<1>3. CASE event_buffers[e] = <<>>
  <2>1. schedules' = schedules /\ event_buffers' = event_buffers
    BY <1>2, <1>3 DEF WakeNext
  <2>2. \A u \in Live \ {} : /\ State(u)' = State(u)
                             /\ running = u => running' = u
                             /\ Ready(u) => Ready(u)'
                             /\ Waiting(u) => Waiting(u)'
    BY <1>1, <2>1 DEF Ready, Waiting
  <2>3. \A u \in Live \cap {} :
          /\ State(u) # "W4_RECEIVE"
          /\ running' = u \/ Ready(u)' \/ Waiting(u)' \/ Blocked(u)'
    OBVIOUS
  <2> QED BY <1>1, <2>2, <2>3, PlacedKept
<1>4. CASE event_buffers[e] # <<>>
  <2>1. PICK t : t = Head(event_buffers[e])
    OBVIOUS
  <2>2. event_buffers[e] \in Seq(Tid)
    BY DEF IInv, TypeOK
  <2>3. t \in Range(event_buffers[e])
        /\ Range(event_buffers[e]) = Range(Tail(event_buffers[e])) \cup {t}
    BY <1>4, <2>1, <2>2, QueueTail
  <2>4. t \in Live /\ State(t) = "RUNNING"
    BY <2>3 DEF IInv, EventBuffersSound
  <2>5. /\ schedules' = Schedule(schedules, t)
        /\ event_buffers'[e] = Tail(event_buffers[e])
        /\ \A f \in Event \ {e} : event_buffers'[f] = event_buffers[f]
    BY <1>2, <1>4, <2>1, <2>4 DEF WakeNext, IInv, TypeOK
  <2>6. /\ \A p \in Priority : Range(schedules'[p]) = Joins(t, schedules, p)
        /\ \E p \in Priority : t \in Range(schedules'[p])
    <3>1. TypeOK /\ DescriptorsOwned /\ schedules \in [Priority -> Seq(Tid)]
      BY DEF IInv, TypeOK
    <3> QED BY <2>4, <2>5, <3>1, ScheduleRange
  <2>7. Ready(t)' /\ \A u \in Live : Ready(u) => Ready(u)'
    BY <2>6 DEF Ready, Joins
  <2>8. \A u \in Live \ {t} : Waiting(u) => Waiting(u)'
    BY <2>3, <2>5 DEF Waiting
  <2>9. \A u \in Live \ {t} : /\ State(u)' = State(u)
                              /\ running = u => running' = u
                              /\ Ready(u) => Ready(u)'
                              /\ Waiting(u) => Waiting(u)'
    BY <1>1, <2>7, <2>8
  <2>10. \A u \in Live \cap {t} :
           /\ State(u) # "W4_RECEIVE"
           /\ running' = u \/ Ready(u)' \/ Waiting(u)' \/ Blocked(u)'
    BY <2>4, <2>7
  <2> QED BY <1>1, <2>9, <2>10, PlacedKept
<1> QED BY <1>3, <1>4

LEMMA DispatchPlaced ==
  ASSUME IInv, TasksPlaced, NEW p \in Priority, Dispatch(p)
  PROVE  TasksPlaced'
<1>1. PICK t : t = Head(schedules[p])
  OBVIOUS
<1>2. schedules[p] \in Seq(Tid) /\ schedules[p] # <<>>
  BY DEF Dispatch, IInv, TypeOK
<1>3. t \in Range(schedules[p]) /\ Range(schedules[p]) = Range(Tail(schedules[p])) \cup {t}
  BY <1>1, <1>2, QueueTail
<1>4. t \in Live /\ State(t) \in {"READY", "RUNNING"} /\ running = NoTask
  BY <1>3 DEF Dispatch, IInv, ReadyQueuesSound, RunningSound
<1>5. /\ UNCHANGED <<tid_to_descriptor, sender_queue, dropped, event_buffers>>
      /\ running' = t
      /\ schedules' = [schedules EXCEPT ![p] = Tail(@)]
      /\ td_state' = [td_state EXCEPT ![SlotOf(t)] = "RUNNING"]
  BY <1>1, <1>4 DEF Dispatch, table, ipc, events
<1>6. \A u \in Live \ {t} : State(u)' = State(u)
  BY <1>4, <1>5, StateUpdate DEF IInv
<1>7. \A q \in Priority : Range(schedules[q]) \subseteq Range(schedules'[q]) \cup {t}
  BY <1>3, <1>5 DEF IInv, TypeOK
<1>8. \A u \in Live \ {t} : u # running
  BY <1>4, KernelAssumption DEF IInv, TypeOK
<1>9. \A u \in Live \ {t} : /\ State(u)' = State(u)
                            /\ running = u => running' = u
                            /\ Ready(u) => Ready(u)'
                            /\ Waiting(u) => Waiting(u)'
  BY <1>5, <1>6, <1>7, <1>8 DEF Ready, Waiting
<1>10. \A u \in Live \cap {t} :
         /\ State(u) # "W4_RECEIVE"
         /\ running' = u \/ Ready(u)' \/ Waiting(u)' \/ Blocked(u)'
  BY <1>4, <1>5
<1> QED BY <1>5, <1>9, <1>10, PlacedKept

(* The steps that move only the control of the kernel. *)
LEMMA ControlPlaced ==
  ASSUME IInv, TasksPlaced,
         UNCHANGED <<table, td_state, ipc, schedules, event_buffers, running>>
  PROVE  TasksPlaced'
<1>1. /\ UNCHANGED <<tid_to_descriptor, sender_queue, dropped, schedules, event_buffers, running>>
      /\ \A u \in Live : State(u)' = State(u)
  BY DEF table, ipc, State, SlotOf
<1>2. \A u \in Live \ {} : /\ State(u)' = State(u)
                           /\ running = u => running' = u
                           /\ Ready(u) => Ready(u)'
                           /\ Waiting(u) => Waiting(u)'
  BY <1>1 DEF Ready, Waiting
<1>3. \A u \in Live \cap {} :
        /\ State(u) # "W4_RECEIVE"
        /\ running' = u \/ Ready(u)' \/ Waiting(u)' \/ Blocked(u)'
  OBVIOUS
<1> QED BY <1>1, <1>2, <1>3, PlacedKept

LEMMA NextTasksPlaced ==
  ASSUME IInv, IInv', TasksPlaced, [Next]_vars
  PROVE  TasksPlaced'
<1>1. ASSUME NEW t \in Tid, Syscall(t)
      PROVE  TasksPlaced'
  <2>1. t \in Live /\ running = t /\ State(t) = "RUNNING"
    BY <1>1 DEF Syscall, Query, Yield, Park, Exit, Create, CreateFails, SendFails,
       SendToReceiver, SendQueued, ReplyFails, Reply, ReceiveQueued, ReceiveBlocks,
       AwaitEvent, EmitEvent, CallsAny, Calls, IInv, TypeOK, RunningSound
  <2>2. CASE Resume(t) \/ Yield(t) \/ Park(t)
    BY <2>1, <2>2, ResumePlaced DEF Yield, Park
  <2>3. CASE Exit(t)
    BY <2>3, ExitPlaced
  <2>4. ASSUME NEW p \in 0..Levels, Create(t, p)
        PROVE  TasksPlaced'
    BY <2>4, CreatePlaced
  <2>5. ASSUME NEW to \in Tid, SendToReceiver(t, to) \/ SendQueued(t, to) \/ Reply(t, to)
        PROVE  TasksPlaced'
    BY <2>5, HandOverPlaced, SendQueuedPlaced
  <2>6. CASE ReceiveQueued(t) \/ ReceiveBlocks(t)
    BY <2>6, ReceivePlaced
  <2>7. ASSUME NEW e \in Event, AwaitEvent(t, e)
        PROVE  TasksPlaced'
    BY <2>7, AwaitEventPlaced
  <2>8. ASSUME NEW e \in Event, EmitEvent(t, e)
        PROVE  TasksPlaced'
    BY <2>8, ControlPlaced DEF EmitEvent, HandleEvents
  <2> QED
    BY <1>1, <2>2, <2>3, <2>4, <2>5, <2>6, <2>7, <2>8, KernelAssumption
    DEF Syscall, Query, CreateFails, SendFails, ReplyFails
<1>2. ASSUME NEW t \in Tid, Interrupt(t)
      PROVE  TasksPlaced'
  BY <1>2, ControlPlaced DEF Interrupt, events
<1>3. CASE KernelStep
  <2>1. CASE \E p \in Priority : Dispatch(p)
    BY <2>1, DispatchPlaced
  <2>2. CASE Halt
    BY <2>2, ControlPlaced DEF Halt, events
  <2>3. CASE WakeNext
    BY <2>3, WakeNextPlaced
  <2>4. CASE HandleTimerIrq \/ HandleUartIrq \/ HandleMcp2515Irq
    BY <2>4, ControlPlaced DEF HandleTimerIrq, HandleUartIrq, HandleMcp2515Irq, HandleEvents
  <2>5. ASSUME NEW t \in Tid, ExitWakeSender(t) \/ ExitDelete(t)
        PROVE  TasksPlaced'
    BY <2>5, ExitPlaced
  <2>6. ASSUME NEW t \in Tid, EmitDone(t) \/ EndInterrupt(t)
        PROVE  TasksPlaced'
    BY <2>6, ResumePlaced DEF EmitDone, EndInterrupt, IInv, TypeOK, RunningSound
  <2> QED BY <1>3, <2>1, <2>2, <2>3, <2>4, <2>5, <2>6 DEF KernelStep
<1>4. CASE UNCHANGED vars
  BY <1>4, ControlPlaced DEF vars, events
<1> QED BY <1>1, <1>2, <1>3, <1>4 DEF Next

LEMMA InitTasksPlaced == Init => TasksPlaced
<1> SUFFICES ASSUME Init PROVE TasksPlaced
  OBVIOUS
<1>1. /\ Live = {0} /\ dropped = {} /\ SlotOf(0) = 0 /\ 0 \in Slot /\ 0 \in Priority
      /\ schedules[0] = <<0>> /\ sender_queue[0] = <<>>
  BY KernelAssumption DEF Init, Live, SlotOf, Slot, Priority
<1>2. Range(<<0>>) = {0} /\ Range(<<>>) = {}
  BY DEF Range
<1> QED BY <1>1, <1>2 DEF TasksPlaced, Ready

(* A place in a queue is a place.                                           *)
LEMMA PlacesFound ==
  ASSUME TypeOK, NEW t \in Live, running = t \/ Ready(t) \/ Waiting(t) \/ Blocked(t) \/ Queued(t)
  PROVE  Places(t) # {}
<1>1. ASSUME NEW kind, NEW queues, NEW q \in DOMAIN queues, t \in Range(queues[q])
      PROVE  QueuePlaces(kind, queues, t) # {}
  <2>1. PICK i \in DOMAIN queues[q] : queues[q][i] = t
    BY <1>1 DEF Range
  <2>2. <<kind, q, i>> \in QueuePlaces(kind, queues, t)
    BY <2>1 DEF QueuePlaces
  <2> QED BY <2>2
<1>2. /\ DOMAIN schedules = Priority /\ DOMAIN event_buffers = Event
      /\ DOMAIN sender_queue = Slot /\ \A r \in Live : SlotOf(r) \in Slot
  BY DEF TypeOK, SlotOf
<1>3. CASE running = t \/ Blocked(t)
  BY <1>3 DEF Places, Blocked
<1>4. CASE Ready(t)
  BY <1>1, <1>2, <1>4 DEF Places, Ready
<1>5. CASE Waiting(t)
  BY <1>1, <1>2, <1>5 DEF Places, Waiting
<1>6. CASE Queued(t)
  BY <1>1, <1>2, <1>6 DEF Places, Queued
<1> QED BY <1>3, <1>4, <1>5, <1>6

LEMMA DroppedNowhere ==
  ASSUME IInv, TasksPlaced, NEW t \in dropped
  PROVE  Places(t) = {}
<1>1. t \in Live /\ State(t) = "W4_RECEIVE" /\ ~Queued(t)
  BY DEF TasksPlaced
<1>2. running # t
  BY <1>1, KernelAssumption DEF IInv, RunningSound, TypeOK, Mode
<1>3. /\ \A p \in Priority : t \notin Range(schedules[p])
      /\ \A e \in Event : t \notin Range(event_buffers[e])
  BY <1>1 DEF IInv, ReadyQueuesSound, EventBuffersSound
<1>4. \A s \in Slot : t \notin Range(sender_queue[s])
  <2> SUFFICES ASSUME NEW s \in Slot, t \in Range(sender_queue[s]) PROVE FALSE
    OBVIOUS
  <2>1. s \in Range(tid_to_descriptor)
    BY QueueEmpty DEF IInv, SenderQueuesSound
  <2>2. PICK r \in Live : s = SlotOf(r)
    BY <2>1 DEF Range, Live, SlotOf
  <2> QED BY <1>1, <2>2 DEF Queued
<1>5. \A q : \A i : i \in DOMAIN q /\ q[i] = t => t \in Range(q)
  BY DEF Range
<1>6. TypeOK
  BY DEF IInv
<1> SUFFICES ASSUME NEW x \in Places(t) PROVE FALSE
  OBVIOUS
<1> QED BY <1>1, <1>2, <1>3, <1>4, <1>5, <1>6, PlaceKinds

(* The only task that the kernel ever loses is a sender that found the      *)
(* sender queue of its receiver full, and no sender does when the queues    *)
(* have room for every other task.                                          *)
THEOREM KernelNoTaskLost == Spec => []NoTaskLost
<1>1. IInv /\ TasksPlaced => NoTaskLost
  <2> SUFFICES ASSUME IInv, TasksPlaced PROVE NoTaskLost
    OBVIOUS
  <2>1. TypeOK
    BY DEF IInv
  <2>2. \A t \in Live \ dropped : Places(t) # {}
    BY <2>1, PlacesFound DEF TasksPlaced
  <2> QED BY <2>2, DroppedNowhere DEF NoTaskLost, TasksPlaced
<1>2. IInv /\ IInv' /\ TasksPlaced /\ [Next]_vars => TasksPlaced'
  BY NextTasksPlaced
<1> QED BY <1>1, <1>2, InitTasksPlaced, KernelInvariant, PTL DEF Spec
-----------------------------------------------------------------------------
(* The refinement of SRR.                                                   *)

LEMMA PhaseNames ==
  /\ PhaseIn("READY") = "active" /\ PhaseIn("RUNNING") = "active"
  /\ PhaseIn("W4_SEND") = "listening" /\ PhaseIn("W4_RECEIVE") = "calling"
  /\ PhaseIn("W4_REPLY") = "served" /\ PhaseIn("TERMINATED") = "leaving"
  /\ \A s \in TaskStatus : /\ PhaseIn(s) \notin {"gone", "absent"}
                           /\ PhaseIn(s) = "listening" => s = "W4_SEND"
BY DEF PhaseIn, TaskStatus

LEMMA PhaseOfLive ==
  ASSUME TypeOK, NEW t \in Live
  PROVE  /\ t \in Tid /\ State(t) \in TaskStatus
         /\ Phases[t] = PhaseIn(State(t))
         /\ Inboxes[t] = sender_queue[SlotOf(t)]
BY DEF TypeOK, Phases, PhaseOf, Inboxes, State, SlotOf

(* A step that moves only the tasks of M and neither makes nor deletes one. *)
LEMMA PhasesKept ==
  ASSUME UNCHANGED <<tid_to_descriptor, next_tid>>, NEW M,
         \A u \in Live \ M : PhaseIn(State(u)') = PhaseIn(State(u))
  PROVE  /\ \A u \in Tid \ M : Phases'[u] = Phases[u]
         /\ \A u \in Live \cap Tid : Phases'[u] = PhaseIn(State(u)')
         /\ sender_queue' = sender_queue => Inboxes' = Inboxes
<1>1. Live' = Live /\ \A u \in Live : SlotOf(u)' = SlotOf(u)
  BY DEF Live, SlotOf
<1>2. \A u \in Tid \ M : PhaseOf(u)' = PhaseOf(u)
  BY <1>1 DEF PhaseOf
<1>3. \A u \in Live : PhaseOf(u)' = PhaseIn(State(u)')
  BY <1>1 DEF PhaseOf
<1>4. sender_queue' = sender_queue => Inboxes' = Inboxes
  BY <1>1 DEF Inboxes
<1> QED BY <1>2, <1>3, <1>4 DEF Phases

(* Scheduling, events and interrupts are invisible.                         *)
LEMMA Stutters ==
  ASSUME UNCHANGED <<tid_to_descriptor, next_tid, sender_queue, send_to>>,
         \A u \in Live : PhaseIn(State(u)') = PhaseIn(State(u))
  PROVE  UNCHANGED Abstract!vars
<1>1. \A u \in Live \ {} : PhaseIn(State(u)') = PhaseIn(State(u))
  OBVIOUS
<1>2. /\ \A u \in Tid \ {} : Phases'[u] = Phases[u]
      /\ Inboxes' = Inboxes
  BY <1>1, PhasesKept
<1>3. Phases' = Phases
  BY <1>2 DEF Phases
<1> QED BY <1>2, <1>3 DEF Abstract!vars

LEMMA ResumeStutters ==
  ASSUME IInv, NEW t \in Live,
         \/ Resume(t)
         \/ MakeReady(t) /\ State(t) = "RUNNING" /\ UNCHANGED <<table, ipc, events, lines>>
  PROVE  UNCHANGED Abstract!vars
<1>1. UNCHANGED <<tid_to_descriptor, next_tid, sender_queue, send_to>>
  BY DEF Resume, MakeReady, table, ipc
<1>2. CASE Resume(t)
  BY <1>1, <1>2, Stutters DEF Resume, State, SlotOf
<1>3. CASE MakeReady(t) /\ State(t) = "RUNNING"
  <2>1. State(t)' = "READY" /\ \A u \in Live \ {t} : State(u)' = State(u)
    BY <1>1, <1>3, StateUpdate DEF MakeReady, IInv
  <2> QED BY <1>1, <1>3, <2>1, PhaseNames, Stutters
<1> QED BY <1>2, <1>3

LEMMA DispatchStutters ==
  ASSUME IInv, NEW p \in Priority, Dispatch(p)
  PROVE  UNCHANGED Abstract!vars
<1>1. PICK t : t = Head(schedules[p])
  OBVIOUS
<1>2. t \in Range(schedules[p])
  BY <1>1, QueueTail DEF Dispatch, IInv, TypeOK
<1>3. t \in Live /\ State(t) \in {"READY", "RUNNING"}
  BY <1>2 DEF IInv, ReadyQueuesSound
<1>4. /\ UNCHANGED <<tid_to_descriptor, next_tid, sender_queue, send_to>>
      /\ td_state' = [td_state EXCEPT ![SlotOf(t)] = "RUNNING"]
  BY <1>1, <1>3 DEF Dispatch, table, ipc
<1>5. State(t)' = "RUNNING" /\ \A u \in Live \ {t} : State(u)' = State(u)
  BY <1>3, <1>4, StateUpdate DEF IInv
<1> QED BY <1>3, <1>4, <1>5, PhaseNames, Stutters

(* The steps that change no task's state.                                   *)
LEMMA ControlStutters ==
  ASSUME UNCHANGED <<table, td_state, ipc>>
  PROVE  UNCHANGED Abstract!vars
BY Stutters DEF table, ipc, State, SlotOf

LEMMA CreateJoins ==
  ASSUME IInv, NEW t \in Tid, NEW p \in 0..Levels, Create(t, p)
  PROVE  \E u \in Tid : Abstract!Join(u)
<1>a. PICK n, s : n = next_tid /\ s = Head(allocator)
  OBVIOUS
<1>1. /\ n \in Tid /\ n \notin Live /\ next_tid' = n + 1
      /\ s \in Slot /\ s \notin Range(tid_to_descriptor)
  <2>1. /\ n \in Tid /\ n \notin Live /\ next_tid' = n + 1
        /\ allocator \in Seq(Slot) /\ allocator # <<>>
    BY <1>a, KernelAssumption DEF Create, CreateTask, IInv, TypeOK, Tid, TidsIssued
  <2> QED BY <1>a, <2>1, QueueTail DEF IInv, DescriptorsOwned
<1>2. /\ Live' = Live \cup {n} /\ SlotOf(n)' = s
      /\ \A u \in Live : SlotOf(u)' = SlotOf(u) /\ SlotOf(u) # s
      /\ td_state' = [td_state EXCEPT ![s] = "READY"]
      /\ sender_queue' = [sender_queue EXCEPT ![s] = <<>>]
      /\ send_to' = send_to
  BY <1>a, <1>1 DEF Create, CreateTask, Live, SlotOf, Range
<1>3. /\ \A u \in Live : /\ State(u)' = State(u)
                         /\ sender_queue'[SlotOf(u)'] = sender_queue[SlotOf(u)]
      /\ State(n)' = "READY" /\ sender_queue'[SlotOf(n)'] = <<>>
  BY <1>1, <1>2 DEF State, IInv, TypeOK
<1>4. ASSUME NEW u \in Tid \ {n}
      PROVE  PhaseOf(u)' = PhaseOf(u)
  <2>1. u < next_tid' <=> u < next_tid
    BY <1>a, <1>1 DEF Tid, IInv, TypeOK
  <2> QED BY <1>2, <1>3, <2>1 DEF PhaseOf
<1>5. PhaseOf(n) = "absent" /\ PhaseOf(n)' = "active"
  <2>1. ~(n < n)
    BY <1>1 DEF Tid
  <2> QED BY <1>a, <1>1, <1>2, <1>3, <2>1, PhaseNames DEF PhaseOf
<1>6. Phases' = [Phases EXCEPT ![n] = "active"] /\ Phases[n] = "absent"
  BY <1>1, <1>4, <1>5 DEF Phases
<1>7. Inboxes' = Inboxes
  BY <1>1, <1>2, <1>3 DEF Inboxes
<1> QED BY <1>1, <1>2, <1>6, <1>7 DEF Abstract!Join

LEMMA ExitLeaves ==
  ASSUME IInv, NEW t \in Tid, Exit(t)
  PROVE  Abstract!Leave(t)
<1>1. /\ t \in Live /\ State(t) = "RUNNING"
      /\ UNCHANGED <<tid_to_descriptor, next_tid, sender_queue, send_to>>
      /\ td_state' = [td_state EXCEPT ![SlotOf(t)] = "TERMINATED"]
  BY DEF Exit, CallsAny, Calls, RunningSound, IInv, TypeOK, table, ipc
<1>2. State(t)' = "TERMINATED" /\ \A u \in Live \ {t} : State(u)' = State(u)
  BY <1>1, StateUpdate DEF IInv
<1>3. \A u \in Live \ {t} : PhaseIn(State(u)') = PhaseIn(State(u))
  BY <1>2
<1>4. /\ \A u \in Tid \ {t} : Phases'[u] = Phases[u]
      /\ Phases'[t] = "leaving" /\ Inboxes' = Inboxes
  BY <1>1, <1>2, <1>3, PhasesKept, PhaseNames
<1>5. Phases[t] = "active"
  BY <1>1, PhaseOfLive, PhaseNames DEF IInv
<1>6. Phases' = [Phases EXCEPT ![t] = "leaving"]
  BY <1>4 DEF Phases
<1> QED BY <1>1, <1>4, <1>5, <1>6 DEF Abstract!Leave

(* What happens to the inboxes when one sender queue loses its head.        *)
LEMMA InboxTail ==
  ASSUME IInv, NEW t \in Live, tid_to_descriptor' = tid_to_descriptor,
         sender_queue' = [sender_queue EXCEPT ![SlotOf(t)] = Tail(@)]
  PROVE  Inboxes' = [Inboxes EXCEPT ![t] = Tail(@)]
<1>1. Live' = Live /\ \A u \in Live : SlotOf(u)' = SlotOf(u)
  BY DEF Live, SlotOf
<1>2. /\ t \in Tid /\ sender_queue'[SlotOf(t)] = Tail(sender_queue[SlotOf(t)])
      /\ \A u \in Live \ {t} : sender_queue'[SlotOf(u)] = sender_queue[SlotOf(u)]
  BY SlotFacts DEF IInv, TypeOK
<1> QED BY <1>1, <1>2 DEF Inboxes

LEMMA ExitWakeSenderRefuses ==
  ASSUME IInv, NEW t \in Tid, ExitWakeSender(t)
  PROVE  Abstract!Refuse(t)
<1>1. PICK from : from = Head(sender_queue[SlotOf(t)])
  OBVIOUS
<1>2. /\ t \in Live /\ State(t) = "TERMINATED" /\ SlotOf(t) \in Slot
      /\ sender_queue[SlotOf(t)] # <<>>
  BY SlotFacts DEF ExitWakeSender, RunningSound, IInv, TypeOK
<1>3. from \in Range(sender_queue[SlotOf(t)])
  BY <1>1, <1>2, QueueTail DEF IInv, TypeOK
<1>4. from \in Live \ {t} /\ from \in Tid
  BY <1>2, <1>3 DEF IInv, SenderQueuesSound, TypeOK
<1>5. /\ UNCHANGED <<tid_to_descriptor, next_tid>>
      /\ td_state' = [td_state EXCEPT ![SlotOf(from)] = "READY"]
      /\ send_to' = [send_to EXCEPT ![from] = NoTask]
      /\ sender_queue' = [sender_queue EXCEPT ![SlotOf(t)] = Tail(@)]
  BY <1>1, <1>4 DEF ExitWakeSender, table
<1>6. State(from)' = "READY" /\ \A u \in Live \ {from} : State(u)' = State(u)
  BY <1>4, <1>5, StateUpdate DEF IInv
<1>7. \A u \in Live \ {from} : PhaseIn(State(u)') = PhaseIn(State(u))
  BY <1>6
<1>8. (\A u \in Tid \ {from} : Phases'[u] = Phases[u]) /\ Phases'[from] = "active"
  BY <1>4, <1>5, <1>6, <1>7, PhasesKept, PhaseNames
<1>9. Phases' = [Phases EXCEPT ![from] = "active"]
  BY <1>8 DEF Phases
<1>10. Phases[t] = "leaving" /\ Inboxes[t] = sender_queue[SlotOf(t)]
  BY <1>2, PhaseOfLive, PhaseNames DEF IInv
<1>11. Inboxes' = [Inboxes EXCEPT ![t] = Tail(@)]
  BY <1>2, <1>5, InboxTail
<1> QED BY <1>1, <1>2, <1>5, <1>9, <1>10, <1>11 DEF Abstract!Refuse

LEMMA ExitDeleteVanishes ==
  ASSUME IInv, NEW t \in Tid, ExitDelete(t)
  PROVE  Abstract!Vanish(t)
<1>1. /\ t \in Live /\ State(t) = "TERMINATED" /\ sender_queue[SlotOf(t)] = <<>>
      /\ UNCHANGED <<next_tid, td_state, sender_queue, send_to>>
  BY DEF ExitDelete, RunningSound, IInv, TypeOK, ipc
<1>2. /\ Live' = Live \ {t}
      /\ \A u \in Live \ {t} : SlotOf(u)' = SlotOf(u) /\ State(u)' = State(u)
  BY <1>1 DEF ExitDelete, DeleteTask, Restrict, Live, SlotOf, State
<1>3. \A u \in Tid \ {t} : PhaseOf(u)' = PhaseOf(u)
  BY <1>1, <1>2 DEF PhaseOf
<1>4. PhaseOf(t)' = "gone"
  BY <1>1, <1>2 DEF PhaseOf, IInv, TidsIssued
<1>5. Phases' = [Phases EXCEPT ![t] = "gone"]
  BY <1>3, <1>4 DEF Phases
<1>6. Phases[t] = "leaving" /\ Inboxes[t] = <<>>
  BY <1>1, PhaseOfLive, PhaseNames DEF IInv
<1>7. Inboxes' = Inboxes
  BY <1>1, <1>2 DEF Inboxes
<1> QED BY <1>1, <1>5, <1>6, <1>7 DEF Abstract!Vanish

LEMMA SendToReceiverCalls ==
  ASSUME IInv, NEW t \in Tid, NEW to \in Tid, SendToReceiver(t, to)
  PROVE  Abstract!CallListener(t, to)
<1>1. /\ t \in Live /\ to \in Live \ {t} /\ State(t) = "RUNNING" /\ State(to) = "W4_SEND"
      /\ UNCHANGED <<tid_to_descriptor, next_tid, sender_queue>>
      /\ send_to' = [send_to EXCEPT ![t] = to]
      /\ td_state' = [td_state EXCEPT ![SlotOf(t)] = "W4_REPLY", ![SlotOf(to)] = "READY"]
  BY DEF SendToReceiver, Listening, CallsAny, Calls, RunningSound, IInv, TypeOK, table
<1>2. /\ State(t)' = "W4_REPLY" /\ State(to)' = "READY"
      /\ \A u \in Live \ {t, to} : State(u)' = State(u)
  BY <1>1, StateUpdate2 DEF IInv
<1>3. \A u \in Live \ {t, to} : PhaseIn(State(u)') = PhaseIn(State(u))
  BY <1>2
<1>4. /\ \A u \in Tid \ {t, to} : Phases'[u] = Phases[u]
      /\ Phases'[t] = "served" /\ Phases'[to] = "active" /\ Inboxes' = Inboxes
  BY <1>1, <1>2, <1>3, PhasesKept, PhaseNames
<1>5. Phases' = [Phases EXCEPT ![t] = "served", ![to] = "active"]
  BY <1>1, <1>4 DEF Phases
<1>6. Phases[t] = "active" /\ Phases[to] = "listening"
  BY <1>1, PhaseOfLive, PhaseNames DEF IInv
<1> QED BY <1>1, <1>4, <1>5, <1>6 DEF Abstract!CallListener

LEMMA SendQueuedCalls ==
  ASSUME IInv, NEW t \in Tid, NEW to \in Tid, SendQueued(t, to)
  PROVE  Abstract!CallBusy(t, to)
<1>1. /\ t \in Live /\ to \in Live \ {t} /\ State(t) = "RUNNING" /\ State(to) # "W4_SEND"
      /\ UNCHANGED <<tid_to_descriptor, next_tid>>
      /\ send_to' = [send_to EXCEPT ![t] = to]
      /\ td_state' = [td_state EXCEPT ![SlotOf(t)] = "W4_RECEIVE"]
  BY DEF SendQueued, Listening, CallsAny, Calls, RunningSound, IInv, TypeOK, table
<1>2. State(t)' = "W4_RECEIVE" /\ \A u \in Live \ {t} : State(u)' = State(u)
  BY <1>1, StateUpdate DEF IInv
<1>3. \A u \in Live \ {t} : PhaseIn(State(u)') = PhaseIn(State(u))
  BY <1>2
<1>4. (\A u \in Tid \ {t} : Phases'[u] = Phases[u]) /\ Phases'[t] = "calling"
  BY <1>1, <1>2, <1>3, PhasesKept, PhaseNames
<1>5. Phases' = [Phases EXCEPT ![t] = "calling"]
  BY <1>4 DEF Phases
<1>6. Phases[t] = "active" /\ Phases[to] \notin {"absent", "gone", "listening"}
  BY <1>1, PhaseOfLive, PhaseNames DEF IInv
<1>7. Live' = Live /\ \A u \in Live : SlotOf(u)' = SlotOf(u) /\ SlotOf(u) \in Slot
  BY <1>1, SlotFacts DEF Live, SlotOf, IInv
<1>8. \A u \in Live \ {to} : SlotOf(u) # SlotOf(to)
  BY <1>1, SlotFacts DEF IInv
<1>9. Inboxes[to] = sender_queue[SlotOf(to)]
  BY <1>1, PhaseOfLive DEF IInv
<1>10. Inboxes' = [Inboxes EXCEPT ![to] = IF Len(@) < SenderCap THEN Append(@, t) ELSE @]
  <2>1. CASE Len(sender_queue[SlotOf(to)]) < SenderCap
    <3>1. sender_queue' = [sender_queue EXCEPT ![SlotOf(to)] = Append(@, t)]
      BY <2>1 DEF SendQueued
    <3>2. /\ sender_queue'[SlotOf(to)] = Append(sender_queue[SlotOf(to)], t)
          /\ \A u \in Live \ {to} : sender_queue'[SlotOf(u)] = sender_queue[SlotOf(u)]
      BY <1>1, <1>7, <1>8, <3>1 DEF IInv, TypeOK
    <3>3. Inboxes' = [Inboxes EXCEPT ![to] = Append(Inboxes[to], t)]
      BY <1>1, <1>7, <1>9, <3>2 DEF Inboxes
    <3> QED BY <1>9, <2>1, <3>3
  <2>2. CASE ~(Len(sender_queue[SlotOf(to)]) < SenderCap)
    <3>1. sender_queue' = sender_queue
      BY <2>2 DEF SendQueued
    <3>2. Inboxes' = Inboxes
      BY <1>7, <3>1 DEF Inboxes
    <3>3. Inboxes = [Inboxes EXCEPT ![to] = Inboxes[to]]
      BY DEF Inboxes
    <3> QED BY <1>9, <2>2, <3>2, <3>3
  <2> QED BY <2>1, <2>2
<1> QED BY <1>1, <1>5, <1>6, <1>10 DEF Abstract!CallBusy, Abstract!Present

LEMMA ReceiveQueuedAccepts ==
  ASSUME IInv, NEW t \in Tid, ReceiveQueued(t)
  PROVE  Abstract!Accept(t)
<1>1. PICK from : from = Head(sender_queue[SlotOf(t)])
  OBVIOUS
<1>2. /\ t \in Live /\ State(t) = "RUNNING" /\ SlotOf(t) \in Slot
      /\ sender_queue[SlotOf(t)] # <<>>
  BY SlotFacts DEF ReceiveQueued, CallsAny, Calls, RunningSound, IInv, TypeOK
<1>3. from \in Range(sender_queue[SlotOf(t)])
  BY <1>1, <1>2, QueueTail DEF IInv, TypeOK
<1>4. from \in Live \ {t} /\ from \in Tid
  BY <1>2, <1>3 DEF IInv, SenderQueuesSound, TypeOK
<1>5. /\ UNCHANGED <<tid_to_descriptor, next_tid, send_to>>
      /\ td_state' = [td_state EXCEPT ![SlotOf(from)] = "W4_REPLY", ![SlotOf(t)] = "READY"]
      /\ sender_queue' = [sender_queue EXCEPT ![SlotOf(t)] = Tail(@)]
  BY <1>1, <1>4 DEF ReceiveQueued, table
<1>6. /\ State(from)' = "W4_REPLY" /\ State(t)' = "READY"
      /\ \A u \in Live \ {t, from} : State(u)' = State(u)
  <2>1. from \in Live /\ t \in Live \ {from}
    BY <1>2, <1>4
  <2> QED BY <1>5, <2>1, StateUpdate2 DEF IInv
<1>7. \A u \in Live \ {from} : PhaseIn(State(u)') = PhaseIn(State(u))
  BY <1>2, <1>6, PhaseNames
<1>8. (\A u \in Tid \ {from} : Phases'[u] = Phases[u]) /\ Phases'[from] = "served"
  BY <1>4, <1>5, <1>6, <1>7, PhasesKept, PhaseNames
<1>9. Phases' = [Phases EXCEPT ![from] = "served"]
  BY <1>8 DEF Phases
<1>10. Phases[t] = "active" /\ Inboxes[t] = sender_queue[SlotOf(t)]
  BY <1>2, PhaseOfLive, PhaseNames DEF IInv
<1>11. Inboxes' = [Inboxes EXCEPT ![t] = Tail(@)]
  BY <1>2, <1>5, InboxTail
<1> QED BY <1>1, <1>2, <1>5, <1>9, <1>10, <1>11 DEF Abstract!Accept

LEMMA ReceiveBlocksListens ==
  ASSUME IInv, NEW t \in Tid, ReceiveBlocks(t)
  PROVE  Abstract!Listen(t)
<1>1. /\ t \in Live /\ State(t) = "RUNNING" /\ sender_queue[SlotOf(t)] = <<>>
      /\ UNCHANGED <<tid_to_descriptor, next_tid, sender_queue, send_to>>
      /\ td_state' = [td_state EXCEPT ![SlotOf(t)] = "W4_SEND"]
  BY DEF ReceiveBlocks, CallsAny, Calls, RunningSound, IInv, TypeOK, table, ipc
<1>2. State(t)' = "W4_SEND" /\ \A u \in Live \ {t} : State(u)' = State(u)
  BY <1>1, StateUpdate DEF IInv
<1>3. \A u \in Live \ {t} : PhaseIn(State(u)') = PhaseIn(State(u))
  BY <1>2
<1>4. /\ \A u \in Tid \ {t} : Phases'[u] = Phases[u]
      /\ Phases'[t] = "listening" /\ Inboxes' = Inboxes
  BY <1>1, <1>2, <1>3, PhasesKept, PhaseNames
<1>5. Phases' = [Phases EXCEPT ![t] = "listening"]
  BY <1>4 DEF Phases
<1>6. Phases[t] = "active" /\ Inboxes[t] = <<>>
  BY <1>1, PhaseOfLive, PhaseNames DEF IInv
<1> QED BY <1>1, <1>4, <1>5, <1>6 DEF Abstract!Listen

LEMMA ReplyAnswers ==
  ASSUME IInv, NEW t \in Tid, NEW to \in Tid, Reply(t, to)
  PROVE  Abstract!Answer(to)
<1>1. /\ t \in Live /\ to \in Live /\ State(t) = "RUNNING" /\ State(to) = "W4_REPLY"
      /\ UNCHANGED <<tid_to_descriptor, next_tid, sender_queue>>
      /\ send_to' = [send_to EXCEPT ![to] = NoTask]
      /\ td_state' = [td_state EXCEPT ![SlotOf(to)] = "READY"]
  BY DEF Reply, MayReply, CallsAny, Calls, RunningSound, IInv, TypeOK, table
<1>2. State(to)' = "READY" /\ \A u \in Live \ {to} : State(u)' = State(u)
  BY <1>1, StateUpdate DEF IInv
<1>3. \A u \in Live \ {to} : PhaseIn(State(u)') = PhaseIn(State(u))
  BY <1>2
<1>4. /\ \A u \in Tid \ {to} : Phases'[u] = Phases[u]
      /\ Phases'[to] = "active" /\ Inboxes' = Inboxes
  BY <1>1, <1>2, <1>3, PhasesKept, PhaseNames
<1>5. Phases' = [Phases EXCEPT ![to] = "active"]
  BY <1>4 DEF Phases
<1>6. Phases[t] = "active" /\ Phases[to] = "served"
  BY <1>1, PhaseOfLive, PhaseNames DEF IInv
<1> QED BY <1>1, <1>4, <1>5, <1>6 DEF Abstract!Answer

LEMMA InitAbstract == Init => Abstract!Init
<1> SUFFICES ASSUME Init PROVE Abstract!Init
  OBVIOUS
<1>1. /\ Live = {0} /\ SlotOf(0) = 0 /\ State(0) = "READY" /\ sender_queue[0] = <<>>
      /\ next_tid = 1
  BY KernelAssumption DEF Init, Live, SlotOf, State, Slot
<1>2. \A t \in Tid : PhaseOf(t) = IF t = 0 THEN "active" ELSE "absent"
  <2>1. \A t \in Tid : t < 1 <=> t = 0
    BY DEF Tid
  <2> QED BY <1>1, <2>1, PhaseNames DEF PhaseOf
<1>3. Phases = [t \in Tid |-> IF t = 0 THEN "active" ELSE "absent"]
  BY <1>2 DEF Phases
<1>4. Inboxes = [t \in Tid |-> <<>>]
  BY <1>1 DEF Inboxes
<1> QED BY <1>3, <1>4 DEF Init, Abstract!Init

LEMMA NextAbstract ==
  ASSUME IInv, [Next]_vars
  PROVE  [Abstract!Next]_Abstract!vars
<1>1. ASSUME NEW t \in Tid, Syscall(t)
      PROVE  [Abstract!Next]_Abstract!vars
  <2>1. t \in Live /\ State(t) = "RUNNING"
    BY <1>1 DEF Syscall, Query, Yield, Park, Exit, Create, CreateFails, SendFails,
       SendToReceiver, SendQueued, ReplyFails, Reply, ReceiveQueued, ReceiveBlocks,
       AwaitEvent, EmitEvent, CallsAny, Calls, IInv, TypeOK, RunningSound
  <2>2. CASE Resume(t) \/ Yield(t) \/ Park(t)
    BY <2>1, <2>2, ResumeStutters DEF Yield, Park
  <2>3. CASE Exit(t)
    BY <2>3, ExitLeaves DEF Abstract!Next
  <2>4. ASSUME NEW p \in 0..Levels, Create(t, p)
        PROVE  Abstract!Next
    BY <2>4, CreateJoins DEF Abstract!Next
  <2>5. ASSUME NEW to \in Tid, SendToReceiver(t, to) \/ SendQueued(t, to) \/ Reply(t, to)
        PROVE  Abstract!Next
    BY <2>5, SendToReceiverCalls, SendQueuedCalls, ReplyAnswers DEF Abstract!Next
  <2>6. CASE ReceiveQueued(t) \/ ReceiveBlocks(t)
    BY <2>6, ReceiveQueuedAccepts, ReceiveBlocksListens DEF Abstract!Next
  <2>7. ASSUME NEW e \in Event, AwaitEvent(t, e) \/ EmitEvent(t, e)
        PROVE  UNCHANGED Abstract!vars
    BY <2>7, ControlStutters DEF AwaitEvent, EmitEvent
  <2> QED
    BY <1>1, <2>2, <2>3, <2>4, <2>5, <2>6, <2>7, KernelAssumption
    DEF Syscall, Query, CreateFails, SendFails, ReplyFails
<1>2. ASSUME NEW t \in Tid, Interrupt(t)
      PROVE  UNCHANGED Abstract!vars
  BY <1>2, ControlStutters DEF Interrupt
<1>3. CASE KernelStep
  <2>1. CASE \E p \in Priority : Dispatch(p)
    BY <2>1, DispatchStutters
  <2>2. CASE Halt \/ WakeNext \/ HandleTimerIrq \/ HandleUartIrq \/ HandleMcp2515Irq
    BY <2>2, ControlStutters
    DEF Halt, WakeNext, HandleTimerIrq, HandleUartIrq, HandleMcp2515Irq
  <2>3. ASSUME NEW t \in Tid, ExitWakeSender(t) \/ ExitDelete(t)
        PROVE  Abstract!Next
    BY <2>3, ExitWakeSenderRefuses, ExitDeleteVanishes DEF Abstract!Next
  <2>4. ASSUME NEW t \in Tid, EmitDone(t) \/ EndInterrupt(t)
        PROVE  UNCHANGED Abstract!vars
    BY <2>4, ResumeStutters DEF EmitDone, EndInterrupt, IInv, TypeOK, RunningSound
  <2> QED BY <1>3, <2>1, <2>2, <2>3, <2>4 DEF KernelStep
<1>4. CASE UNCHANGED vars
  BY <1>4, ControlStutters DEF vars
<1> QED BY <1>1, <1>2, <1>3, <1>4 DEF Next

(* The kernel implements the synchronous calls of SRR: each system call on  *)
(* messages is one call of the abstract specification, and scheduling,      *)
(* events, interrupts and slot reuse do not show.                           *)
THEOREM KernelImplementsSRR == Spec => ImplementsSRR
<1>1. IInv /\ [Next]_vars => [Abstract!Next]_Abstract!vars
  BY NextAbstract
<1> QED BY <1>1, InitAbstract, KernelInvariant, PTL DEF Spec, ImplementsSRR, Abstract!Spec
=============================================================================
