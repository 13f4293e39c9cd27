# A verification project for the trains kernel

The program is a microkernel for one core of a Raspberry Pi, the operating
system servers that run on it, and a controller for a Märklin model railway.
Tasks share no memory; they meet in Send, Receive and Reply and wait for
hardware events in AwaitEvent. This directory models the kernel, its timer, the
servers and the train controller, its path finding, reservations and behaviour
trees in TLA+, checks them with TLC, and proves with TLAPS the safety of the
kernel, of the timer, of the servers (names, clock, UART, train control), of CAN
reception, of the reservations and of what the trains believe about them, that
a train navigated by its tree ends standing and keeps the direction it turned
to, and the optimality of the search.

Paths below are relative to `src/src/` unless they say otherwise.

## The system

| part | state | operations | with whom |
|---|---|---|---|
| task table, `kernel/task_table.*`, `allocator.h` | next tid, FIFO of free descriptors, map from tid to descriptor | create, delete, lookup | kernel |
| scheduler, `kernel/scheduler.h` | one FIFO of tids per priority | schedule, get_task | kernel |
| system calls, `kernel/internal_syscall.cpp` | task states, sender queues | Create, Exit, Yield, Park, Send, Receive, Reply, AwaitEvent, EmitEvent, queries | every task |
| events, `kernel/event_controller.*` | waiters of each event, which events are initialized | await_event, handle_event | interrupt handlers, notifiers |
| timer and idle accounting, `devices/time.cpp`, `os/idle_manager.*` | compare register and match flag; start, last_busy, idle and busy time | initialize and handle the tick, go_idle | kernel, idle task |
| name server, `os/name_server.*` | names, waiting lookups | RegisterAs, WhoIs | every task at start-up |
| clock server, `os/clock_server.*` | tick, heap of sleepers | Time, Delay, DelayUntil, tick | notifier, clients |
| UART servers, `os/uart_tx_server.*`, `os/uart_rx_server.*` | character buffer, whether the notifier waits | Puts, Getc, interrupt | notifiers, clients, UART |
| CAN, `devices/mcp2515.cpp` | receive and transmit buffers, interrupt enables | rx_can, tx_can | event controller, CAN workers |
| train control server, `trains/train_control.*` | command buffer, pacing flag, mailboxes of trees, state of the trains, reservations | RX, TXReady, Tick, the commands, Ready, Exit, UIReady | three workers, command line, trees |
| tree tasks, `trains/train_trees.*`, `behaviour_tree.h` | a copy of the state, a path, a tree of nodes | ask for a message, tick the tree, request commands and reservations | train control server |
| paths, `trains/pathfind.*`, `track_data.*` | graph of the track, owners of its nodes | find_path, reserve, release | server, trees |
| command line and display, `trains/train_cli_worker.*`, `train_ui_worker.*`, `os/shell.cpp` | input line | parse, request | servers |
| rock paper scissors, `rps/` | games, waiting player | SignUp, Play, Quit | only with RPS_TEST |
| containers, `lib/` | ring buffer, hash map, heap | push, pop, set, remove | all of the above |

What is hard here:

* one kernel loop in which tasks create, exit, send and wait in any order, with
  descriptors reused and nothing in `schedule` to prevent a task from being
  queued twice;
* interrupts: the handler for a source, the call that arms it and the device
  each change at their own time;
* servers that hold replies back (a waiting lookup, a sleeper, a notifier, a
  tree), so that a forgotten reply is a task that hangs for ever;
* counters that wrap after 71 minutes (microseconds) or 497 days (ticks);
* a train controller that paces commands by the station's responses and copies
  the state of a train to a task and back.

* trains that share a track: reservations by whole sections, made node by node
  along paths that are extended, joined, reversed and given back while the train
  runs on them;
* commands whose frame or answer may be lost, and tree nodes that can tell a
  command's answer only by the value that the train's state shows.

What makes each part correct: a task is in one place of the kernel, and the
kernel loses none; servers answer every request and lose no text, no sleeper and
no waiting lookup; commands go out one at a time and in order; a path is
connected, cheapest and knows its length; a section of the track has one owner,
and a train runs only over what it owns, with the switches set; a tree ends,
with the train standing.

`PROJECT.json` lists every part, the hazards at their lines and the properties
that cover them. Hazards with a note and no property are those that the code
does run into, or that need a model of more than one part at once.

## Modules

### Kernel

`Kernel.tla` has one variable for each field of the task table, scheduler,
descriptors and event controller, and one action for each system call, split by
outcome (`SendFails`, `SendToReceiver`, `SendQueued`). The kernel runs with
interrupts masked, so a call is one step; its three loops (over a sender queue
in EXIT, over waiters in handle_event, over pending interrupts) take a step per
iteration, and `mode`, `draining` and `lines` say where the kernel is in them.
User tasks are arbitrary: the running task makes any call with any argument, or
is interrupted. Message contents and register results are left out. `send_to`
is the receiver in a blocked sender's trap frame. The CAN controller's flag
register is a choice at every look at it, because nothing in the kernel knows
it.

`SRR.tla` is what Send, Receive and Reply promise: no scheduler, no slots, a
task is active, listening, calling, served, leaving or gone. `Kernel` implements
it (`ImplementsSRR`): the phase of a task is read off its descriptor. A sender
queue has 16 places and there may be 31 other tasks; a push to a full one fails
silently, and its sender waits for ever. `SRR` has this as a call that is lost
when `Cap` others are not yet accepted, and `dropped` is the kernel's history of
such senders: `NoTaskLost` says that nobody else is ever lost, and nobody at all
when a sender queue has room for every other task. `kernel_sys` has queues of
one place.

`KernelProofs.tla` holds the proofs.

### Timer and idle accounting

`SystemTimer.tla` advances a counter while the tick handler reads and writes
the compare register, and while go_idle takes its three readings; each access
is a step. `Bits` is the width of the counter (32 in the hardware). Its assumption
on `MaxLatency`, that the handler is never late by a whole tick, is the one
that the code makes without saying so. `ClockProofs.tla` holds the proofs.

### Name server and start-up

`NameServer.tla` is the server and clients with a given list of calls;
`MCBoot.tla` gives each task of the system the calls that its code makes before
it serves. Two of the three notifiers are left out: each is created after its
server has registered and makes one lookup of it, as the third does. `stray` is
a task that sends the server a message it does not know. `Registered(n)` reads
off the clients' progress who has registered a name, so that what the server
answers is compared with what the clients did, not with the server's own map.
`NameServerProofs.tla` holds the proofs.

### Clock server

`ClockServer.tla`: clients, notifier and server; ticks have `W` bits and wrap.
`owed` counts, outside the program's arithmetic, how many ticks each sleeper
still has to wait. `ClockProofs.tla` holds the proofs.

### UART transmit server

`UartTx.tla`: one step per character, since the UART transmits while the server
fills its FIFO, and the notifier's interrupt is masked, raised and cleared in
between. `debug_putc` writes past the server: such a character is 0 and all
others are numbered as the server accepts them, so `InOrder` says that the FIFO
and the buffer hold the numbers that are accepted and not transmitted, rising,
and that no 0 is in the buffer. `UartTxProofs.tla` holds the proofs.

### UART receive server

`UartRx.tla`: the receive FIFO with its two interrupts (at the trigger level,
and after a pause), the kernel's handler, the notifier, the server's drain with
the two clearings at its end, and the shell and the command line, which take
turns at Getc. A reply to a task that does not wait for one fails, and its
character is gone (`Pop`). `due` is history: the last character that did not
come between the end of a drain and the clearing. `ReceptionProofs.tla` holds the
proofs.

### CAN reception

`CanRx.tla`: the two receive buffers, the interrupt, and rx_can_worker, one step
per access over SPI. `raced` is history: a frame has arrived during a read.
`ReceptionProofs.tla` holds the proofs.

### Train control

`TrainControl.tla`: the server, its three workers, the command line and the
tree tasks. Commands are numbered as they are accepted; the state of the train
is the number of the last command whose answer the server has seen. A tree may
make requests between two messages. `bus` holds the commands whose answers have
not been read. A sensor frame may carry the response bit, which the server does
not look behind. A task that is woken because the server exits takes what it
finds for an error (the kernel copies an exit message as long as the sender's
reply buffer into it, of which only one byte is defined).
`TrainControlProofs.tla` holds the proofs.

In every server module a handler is one step, although the kernel may run other
tasks at each Reply in it: the server is one task, nobody else sees its
variables, and a woken task can at most queue a new message, which the server
sees when it receives again. In `UartTx`, `UartRx` and `CanRx`, where hardware
moves during a handler, it is not one step.

### Track and paths

`TrackData.tla` is the two tracks of `track_data.cpp`, node by node: kind,
reverse, edges with their lengths and reverse edges. `Track.tla` has what
`pathfind.cpp` computes on any track: the section of a node, reserve, release,
get_reservation, get_edge, and Path with push, push_front, pop, pop_back,
reverse, operator+ and the encoding in which a path travels in a message.

`Pathfind.tla` is find_path and find_loop with the binary heap of 144 entries,
one step per turn of the loop, and then operations on the path that was found.
`ShortestPath.tla` is the textbook's search, which expands a nearest reached
node at each step; `Pathfind` implements it, outdated heap entries being
stutters. `TrackProofs.tla` has the theorems about the search and the
reservations. No caller passes
`allow_reverse`, so the run does not either, and only track B is compiled in.

### Reservations

`Reservations.tla`: the server's table of owners with the requests Reg, Reserve,
ReleaseReserve and FindPath, and trains that tick LocalizerNode,
PathReservationNode and PathToNode. A tick is a sequence of steps, one for each
request, as other trains' requests come in between (`pc`, `at`). Distances are
left out: where the code compares one, the model may go either way; find_path
returns any way without a repeated node. `twice` and `left` are history:
sections that a path has had twice, and sections that a train forgot when it
turned in PathToNode.

`TrackLocks.tla` is what this promises: one lock per section. The server's table
implements it. `MCReservations.tla` has a small track with a node of every kind,
a loop and a dead end, for two trains; it also evaluates on the two real tracks
what the proofs assume of a track (`RealTracks`).

### Behaviour trees

`TrainTrees.tla`: one train, driven by NavigateTree or CalibrateTree, and the
station. Each update ticks the whole tree: `Tick` goes through the leaves of the
sequence as `Sequence::tick` does, so the order in which nodes act in one tick,
and which latch keeps them done, is the code's. SetSpeed and SetDirectionNode
wait for the state to show their value and send again after two seconds;
commands and answers may be lost (up to `MaxLost`). What the physical model and
the other trains decide (how much is reserved, whether the end is near, whether
the estimate says the train rolls) is a choice. `mixed` is history: a command of
PathReservationNode was lost, or was under way when another node sent one;
`missed`: the sensor was hit when no node counted it. `TreeIInv` and, for
CalibrateTree, `CalibrationIInv` are its inductive invariants, proved in
`TrainControlProofs.tla`.

## Runs

| run | module | asks |
|---|---|---|
| `kernel` | `Kernel` | With four tids and three slots, sender queues that cannot fill: is every task in exactly one place, is `IInv` an invariant, is SRR implemented? |
| `kernel_sys` | `Kernel`, `KernelSys.cfg` | With all hardware events, an idle task, and sender queues of capacity 1: is every timer or UART waiter armed, is a dropped sender the only task that can be lost, does a ready task of the top priority run? |
| `timer` | `SystemTimer` | Across a wrap: do ticks drift, is a match missed, is idle time exact, is busy time exact until the wrap? |
| `boot` | `MCBoot` | In every order of start-up: does a lookup find a task that has registered the name, does every call return? |
| `clock` | `ClockServer` | Across the wrap: is a sleeper held until its tick and no longer, does every call return? |
| `uart_tx` | `UartTx` | With a buffer that overflows: does text leave in order, is a wakeup always coming while there is text, is all of it transmitted? |
| `uart_rx` | `UartRx` | With a buffer that overflows: do characters arrive in order, is one lost on the way to a client, is every one read in the end? |
| `can_rx` | `CanRx` | Is every frame that finds room passed on once and in order, unless one arrives during a read? |
| `train_control` | `TrainControl` | With room for one mailbox and one command: are commands paced, in order and sent, is the server's record of who waits right, is a tree's first message its Init, does a dead tree keep a mailbox, does every call return, also at Quit, and do the workers end then? |
| `pathfind` | `MCPathfind` | On the whole of track B, around reservations: is the search the textbook's, is its answer a lower bound, does the path have that cost, do operations keep paths consistent? |
| `reservations` | `MCReservations` | Does a section ever get two owners, does a train own what it thinks it holds, does it keep what it does not need, are the switches ahead set, is the table a set of locks? |
| `trees` | `TrainTrees` | With lost frames and short reservations: does the tree end, does the train then stand, does it run in the direction it turned to, are the loops it calculates with the right ones? |

`IInv` contains the kernel's type invariant, `NoMissedRendezvous` and (in
`SenderQueuesSound`) `SendersMatch`; they are proved under their own names.

Each property of a passing run has a mutant in `PROJECT.json`: a change that a
plausible mistake would make in the code, under which TLC finds the property
violated. The mutated operators stand in the modules, marked as such.

### Bounds

* `MaxTid` bounds the tasks ever created, `MaxTasks` the descriptors. Four tids
  on three slots are enough for one reuse of a slot while two tasks still refer
  to the old tid. `Awaited` selects the events that tasks wait for and `Idlers`
  the tasks that run idle_task. Two priorities suffice for the order in which
  queues are searched. The proofs have none of these bounds but for `MaxTid`,
  which may be any number.
* `Bits = 4` and `TICK_TIME_US = 4` give four ticks per wrap; `MaxNow = 26` sees a
  wrap and a further tick; `Start = 2` puts the ticks out of step with the wrap.
* In `clock` the tick has two bits, so it wraps after four ticks; every argument
  is allowed. `W` is small because only sums and comparisons of ticks matter.
* In `uart_tx` `MaxChars` and `MaxDebug` bound the text; the buffer of four
  overflows with two messages of three characters, and the FIFO of two fills.
* In `uart_rx` six characters meet a FIFO of three and a buffer of two: both
  overflow, and the timeout and the trigger level differ.
* `MaxFrames` is six for `can_rx`: both buffers fill twice.
* In `train_control` `MaxCmds` bounds commands and `MaxLoad` the trees started,
  sensor frames and ticks together, so that two trees, or a tree and an event
  of the track, meet; two trees for one mailbox, so that one starts without.
* `pathfind` asks for the ways between nodes of every kind (sensors, branches,
  merges, an entry, an exit), with and without sections of another train in the
  way, and for loops; `MaxOps` operations follow, which is enough for each to
  be undone or followed by each other one.
* In `reservations` `MaxPlans` bounds the paths and trees that are started and
  `MaxTurns` the ways out of a deadlock; the small track has two ways at its
  switch, a loop on which a train comes back, and a dead end. It has no switch
  above number 100, of which the code sets two at a time.
* In `trees` two frames may be lost and two updates may find too little
  reserved: enough for a loss of a retry, and for a stop and a restart by
  PathReservationNode within a reversal. The loops of calibration are 2, 1 and
  1, so that every window is shorter than the log. `RETRY` is one update.

`CHECK_DEADLOCK FALSE` stands where a run may stop: the kernel halts when no
task is ready, and the environments stop at their bounds.

### Fairness

* `Kernel`: weak fairness of the kernel's own steps, which no interrupt can
  stop, and of a trap by the running task, which a system call or the clock
  brings about. Nothing is assumed of the order of calls.
* Servers: weak fairness of the server, its notifier, and the device. A server
  has a higher priority than its clients and always blocks again, so a message
  that is queued is received; a notifier has a higher one still; the UART goes
  on transmitting, the timer ticks, and the interrupt handler runs.
* `TrainControl`: of the server (priority 3), the CAN workers (1 and 2), the
  trees (4) and the tick worker (5), all of which block again after a bounded
  number of steps; and of the station's answer to a command. The last is an
  assumption about hardware: without an answer the code stalls, as the hazard at
  `train_control.h:53` says. The command line is not fair: nobody has to type.
* `TrainTrees`: weak fairness of the station and of getting nearer to the goal.
  Updates are strongly fair, since an update waits while answers are on their
  way: an answer or, on the loop, a sensor event is received in the end, and
  again and again the update is a tick in which the whole path is reserved and
  the estimate has followed the train's speed: other trains give way in time.
  Losses are bounded, as nothing helps against a line that is dead.
* `UartRx`: the receive timeout passes, the interrupt is taken, the notifier,
  the server and the client that has its turn run. Nobody has to type.
* `CanRx`: the interrupt is taken and the worker runs; frames need not arrive.
* `Pathfind` and `Reservations` have safety properties only.

## Theorems

The invariants of the runs are seldom inductive. The kernel, the timer, each
server, CAN reception, the trees, the reservations and the search have an
inductive one in their modules (`IInv`, `TimerIInv`, `CanIInv`, `TreeIInv` with
`CalibrationIInv`, `SearchInv`), a conjunction of named parts; the proof modules
show that every action keeps it, one lemma for each action or group of actions, and derive the properties from it. For each,
TLC found no violation on the instance of the run; the theorems have none of the
bounds of the instances.

`QueueLemmas` has what the proofs share: what appending to and removing from a
queue do to its elements (`QueueAppend`, `QueueTail`), that what moves from the
head of a queue to the end of the one before it keeps its place in the two
(`QueueMove`, `ConcatTail`, `QueueExtend`), and that numbers stay in order
(`QueueRises`).

### Kernel

`KernelProofs` is about `Kernel!Spec` for every value of the constants that
`KernelAssumption` allows: any number of descriptors, priorities, tids and any
capacity of sender queues.

* `KernelTypeCorrect`: `TypeOK` is inductive alone.
* `KernelInvariant`: `IInv`. `OnePlace` is not inductive: that a woken sender is
  in no ready queue follows from its state, which follows from the sender queue
  it was in, and a slot may be reused only because nothing refers to the old
  one. So `IInv` says of each kind of queue that it has no duplicates, which
  tids it may hold (live, not running), and what their descriptors say
  (`ReadyQueuesSound`, `EventBuffersSound`, `SenderQueuesSound`); of the
  allocator that it holds exactly the slots nobody owns (`DescriptorsOwned`);
  that tids are new (`TidsIssued`); and what the kernel's control says of the
  task that trapped (`RunningSound`). The subtle part is a waiter of an event:
  its descriptor still says RUNNING, so only disjointness of the queues keeps it
  from being scheduled twice.
* From it: `KernelOnePlace`, `KernelDescriptorsOwned`, `KernelQueuedTasksLive`
  (the kernel never meets an invalid tid), `KernelQueuesNeverFull` (`MAX_TASKS`,
  32, places in each ready queue and event buffer are enough, by counting live
  tids), `KernelNoMissedRendezvous` and `KernelSendersMatch`.
* `KernelWaiterArmed`: the strengthening is `EventsArmed`. That an initialized
  event is enabled is kept by handle_event's loop only because the event is
  un-initialized before its waiters are woken one by one, and by await_event only
  because no batch of events is half handled while a task makes a call.
* `KernelNoTaskLost`: the strengthening is `TasksPlaced`, by which every live
  task runs, is queued, waits, or is blocked as SRR means it, unless it is in
  `dropped`, and then it is nowhere for good. That `dropped` stays empty when
  `SenderCap >= MaxTasks - 1` counts the other tasks; the program, with 16
  places for 31, does not meet that condition, and nothing is claimed of it
  beyond the first part.
* `KernelImplementsSRR`: Init maps to `SRR!Init` and each action to one of SRR's
  or to a stutter: an exit is a Leave, a Refuse for each queued sender and a
  step in which the tid vanishes; scheduling, interrupts, events and the reuse of
  slots are stutters, because no task's phase is read off anything they change.

### Timer

`ClockProofs`, for every width of the counter, every tick shorter than a wrap and
every start. `TimerConstants`, `RemainderSum` and their like say the little that
is needed of remainders; `Distance` and `Moves` turn "the counter at `now`" into
"so far from C1", which is how the invariant speaks of it:

* `TimerTicksKept`: before the match the next tick is at most a period ahead, and
  after it the handler moves C1 on before a period is over (`MatchAhead`); until
  the wrap C1 is the time of a tick and not only congruent to it (`NoDrift`).
  Both need the assumption that the handler is never late by a whole tick.
* `TimerAccountsExact`: a sleep ends with the next tick (`SleepShort`), so that
  it is shorter than a wrap and its 32-bit difference exact; busy time is what is
  on record and what has run since (`BusyKept`), until the counter first wraps.

### Servers

* Names (`NameServerProofs`; any tasks, programs of calls and names):
  `LookupsFindServers`: who looks a name up and goes on knows a task that has
  registered it. For that a name in the map must belong to a task whose register
  call has returned or is being answered (`NamesSound`), who waits for a name
  must have asked for that name (`WaitersSound`), and who is queued or waits must
  have sent the call that its program has at that place (`ClientsKnown`).
  `LookupsKept`: no call is forgotten: it is in the server's queue, or it is a
  lookup on record for a name that is not in the map, so that the name's
  registration will find it. This needs `EnoughRoom`, a place in the map and in
  the waiting buffers for every name and task; the program has 32 of each.
* Clock (`ClockProofs`; any clients, any width of the counter): in `IInv` a
  client is in the heap at most once and only while it waits, and the deadline of
  a sleeper whose deadline fits the counter is `curr_tick` plus what it is owed
  (`DeadlinesKept`). Hence `ClockNoEarlyWake`, an action property, for any
  capacity of the heap, and `ClockNoLateWake` under `EnoughRoom`: the heap has a
  place for each client, which the code sees to with `MAX_WAITING = MAX_TASKS`.
  Without it a refused sleeper would not be woken. `ClockAssumption` says that
  `2 ^ W` is a positive number, as the prover knows nothing of powers.
* Transmission (`UartTxProofs`; any printers, lengths, buffer, FIFO and a trigger
  level below its size): `UartTxInOrder` follows the line of characters from the
  buffer to the FIFO (`LineTail`, `LineInsert`, `LineAppend`).
  `UartTxWakeupComing` rests on `NotifierKnown` (the interrupt is unmasked
  exactly while the notifier awaits it; a held reply is the notifier's) and
  `RoomComing` (a server that has received nothing with text left has filled the
  FIFO above the trigger level, or the interrupt is raised).
* Reception (`ReceptionProofs`; any clients, buffer, FIFO and trigger level):
  `UartRxInOrder` and `UartRxNothingLost` follow the line from the FIFO through
  the buffer to the clients (`OrderedConcat`, `OrderedTail`). They need
  `GetcKnown`: the one slot for a waiting client is free when a Getc is
  received, since only the client that has the console calls; otherwise it
  would be overwritten, and its character sent to nobody.
* CAN reception (`ReceptionProofs`): `CanRxInOrder` needs that the buffer that is
  read next has the older frame (`OldestNext`), and that the worker, once woken,
  has read the flags as they are and holds a frame older than those in the
  buffers (`WorkerSound`): both only as long as no frame has arrived during a
  read (`raced`), after which the code gives no order.
* Train control (`TrainControlProofs`; any trees, capacities and bounds):
  `PacedInOrder` needs that the pacing flag is a response in hand (`Paces`) and
  that commands are numbered below the next (`Numbered`). `WaitingTreesKnown`,
  `InitFirst` and `NoDeadMailbox` need that who is blocked is in the queue or in
  a record of the server and never in both (`InboxSound`, `WaitersSound`), that
  each message has one kind of sender (`MessagesOwned`), and that a mailbox is
  the mailbox of a live tree (`MailboxesOwned`). Of the constants only: tids of
  trees are none of the workers', and `NoTid` and `Unknown` are no tid and no
  state.

### Behaviour trees

The trees' (`TrainControlProofs`) are about `TrainTrees!TreeSpec` for all
speeds, numbers of loops, retry times and numbers of losses that
`TreesAssumption` allows: the speeds driven and the numbers of loops are not 0.
Liveness is not used, so they hold whatever the fairness.

* `TreeInvariant`: `TreeIInv`. The next two properties are not inductive, since
  both speak of the station, and a tree only sees answers.
* `TreeTurnedForGood` (`TurnedForGood`) needs that only one direction is ever
  under way, that the nodes of ReverseTree are fresh when it starts, and that a
  direction which an answer or the train's state shows is the station's
  (`TurnFits`, `TurnSeen`). It holds also when commands of PathReservationNode
  are lost.
* `TreeStandsAtEnd` (`StandsAtEnd`) needs, for each phase of the navigation, in
  which order stops and other speeds can be under way together
  (`SpeedFits`): before the crawl is confirmed no stop (`Crawls`); while
  PathReservationNode lets the train run no stop, or its own last command
  (`Runs`); in ReverseTree first nothing faster after a stop, and once the train
  stands no stop after that (`Turns`); from StopAtDonePath on nothing faster
  after a stop (`Stops`). So the first answer that shows speed 0 after
  StopAtDonePath has sent its stop comes from a station at which no other
  speed is still to arrive (`StopSeen`).
* `TreeCalibration`: `CalibrationIInv`, the inductive invariant of CalibrateTree
  (together with `TreeIInv`). Each node is done before the next begins, and the
  Repeat after it counts from its first number to 0 in between (`InOrder`). While a
  node waits for its speed, the commands under way change the speed once, from
  the node's before to its own, in this order; while none waits they all keep it
  (`Changes`, `Keeps`, `Drives`). The speeds of the current loop are therefore
  those of the node, or of the change under way (`LapseFits`), and the loops that
  were counted are the last of the laps, each run at the speeds of its place
  (`LapsFit`, `Lap`).
* `TreeCalibrationData` (`CalibrationData`): a tree that succeeds has sent its
  stop, so all three Repeats are at 0 and all `TOTAL_LOOPS` laps are counted;
  the three windows that the tree computes with then hold the test speed, the
  drop to the crawl speed and the rise from it. Commands may be lost, repeated
  and executed twice; only a hit of the sensor that no Repeat has seen is
  excepted.

A tick runs up to ten leaves, and an invariant over them would have to be stated
of each. The proof does it in three layers. What each leaf does with the record
of a tick is a relation (`SetRel`, `ReserveRel`, `StopRel`, `PathRel`), proved
once from its definition (`SetFacts`, `ReserveFacts`, `StopFacts`, `PathFacts`).
Each leaf keeps the turn for any commands under way (`LeafTurn`, `TickTurn`) and
the speed for any queue of them (`CrawlSpeed`, `ReserveSpeed`, `PathSpeed`,
`MaxSpeed`, `DoneSpeed`, `TickSpeed`). Each action then gives a tick a line that
fits (`TreeUpdates`): losing a command, or reading an answer, takes one element
out of the line (`WithoutFacts`), and the estimate that the train rolls changes
only when the speed has (`FitsRolls`). That a Sequence stops at the first leaf
that does not succeed is read off its recursive function (`Ticked`).

For CalibrateTree each leaf has a lemma of its own (`CalibrateCrawl` to
`CalibrateStop`), which says that order and speeds fit after it if they did
before and the leaves before it are done; `TickCalibrates` puts them together.
At most one Repeat counts in a tick, and it is the one whose loop has ended
(`LapCounted`). `CalibrationUpdates` then shows it of an update, in which the
current loop, at a hit of the sensor, becomes the last lap.

### Reservations and search

The reservations' (`TrackProofs`) are about `Reservations!Spec` for every
track that satisfies `SoundTrack` (edges and reverse edges fit, sections
partition the nodes, and the node from which another train would come the other
way is in a node's section: TLC evaluates this for tracks A and B), all trains,
starts, goals and bounds:

* `ReservationsSound`: every section is free or wholly reserved by one train.
  This is inductive alone; the argument is that every change of the table in any
  action is Reserve by a train that get_reservation allowed it to, or Release by
  the owner (`NextRequests`), and both change whole sections.
* `NeverAConflict`: get_reservation never meets two owners.
* `ReservationsAreLocks`: `TrackLocks` is implemented.
* `HeldIsReserved` (`HeldIsOwned`): what a train believes to hold it holds, and
  it holds a prefix of its path. `ReservedIsAhead` (`OwnedIsWanted`): it keeps
  nothing that is not on its path. `SwitchesAreSet` (`SwitchesSet`): the switches
  on what it holds are as its path wants them.

The last three come from `ReservationInvariant`, whose parts need each other. A
section is given back when its node is passed, so what is held stays owned only
if no section is on the path twice, or `twice` knows it (`TwiceKnown`); a path
that is cut, joined or reversed stays a way of the track and knows at each branch
which side it takes (`PathsLinked`), or the switch set when a node is reserved
would not be the switch met; what is owned comes before all that is not
(`OwnedAhead`), or a path joined at its first free node would leave something
behind; and between the steps of a tick the train's position in its path is still
what it was (`PcSound`). That two trains never want one switch at once is the
sections' doing: both ends of a switch are in one (`SwitchClash`). The lemmas say
what the operations on paths do: push (`PushKeeps`, `PushExact`), the fold of
pushes that joins, reverses and decodes paths (`PushAllKeeps`, `PushAllExact`,
`ConcatFacts`, `ReversedFacts`, `DecodeFacts`), pop and pop_back (`PopNFacts`,
`PopBackLinked`), find_path's ways (`WaysFacts`). The folds are recursive
functions; `Unfold` and `SetInduction`, from the least element of a set of
numbers, do for them what an induction over data would.

The search's (`TrackProofs`) are about `ShortestPath!SearchSpec` for every
finite or infinite graph with lengths in Nat, every penalty and every set of
taken nodes; `pathfind` checks that find_path implements it:

* `SearchInvariant`: best is the cost of the way that pred leads back; the edges
  of expanded nodes are followed; nodes were expanded in order of cost; a
  reached node that is not expanded is no nearer than an expanded one.
* `FoundIsBound`: when the search ends, the costs cut off at the goal's are
  those of a feasible potential, so every way costs at least as much.
* `FoundIsLeast`: and the goal's cost is not below any such potential. Together
  they say that the way is a cheapest one without induction over ways.

### Model-checked only

* All liveness, under the fairness above: the prover has neither fairness nor
  ENABLED.
* `Pathfind`: its heap and its way back are RECURSIVE operators, which the prover
  does not take. What is proved of the search it implements is proved of
  `ShortestPath`; that it implements it is checked on the whole of track B.

## What the checks found

The properties hold with the following exceptions, each of which is written into
the property that it touches and, but for the last, is reached by its run.
Without the exception TLC shows the behaviour.

1. `os/idle_manager.cpp:20`: a 32-bit time is subtracted from a 64-bit one that
   may be greater; after the first wrap of the timer (71 minutes) busy time is
   off by 2^32 us (`AccountsExact`).
2. `devices/mcp2515.cpp:208`: the buffer to read next is chosen from flags read
   before the buffer is emptied. A frame that arrives in between is passed by,
   and since `rx_can_worker` ignores the result of `rx_can` it sends its previous
   frame again (`FifoOrder`, `AllDelivered`).
3. `os/uart_rx_server.cpp:42`: a character that arrives after the FIFO was found
   empty and times out before the interrupts are cleared stays in the FIFO until
   another is typed (`AllRead`).
4. `trains/train_trees.cpp:561`: PathReservationNode ticks its SetSpeed and
   SetDirection nodes once, when the train stops, goes or turns. When such a
   frame is lost nothing sends it again, and the train stands, or runs into what
   it has not reserved (`TreeEnds`).
5. `trains/train_trees.cpp:144`: a node takes the value that the state shows for
   the answer to its own command. A stop that is sent while a command of
   PathReservationNode is under way is confirmed by the speed 0 from before, and
   is not repeated when it is lost (`StandsAtEnd`).
6. `trains/train_trees.cpp:742`: ReverseTree waits for the train to stand; when
   PathReservationNode starts it again meanwhile, its own stop is done and not
   sent again, and it waits for ever (`TreeEnds`).
7. `trains/train_trees.cpp:982`: loops of a calibration are told apart by their
   place in the log alone; a sensor hit while an earlier node still waits for
   its answer shifts them (`CalibrationData`).
8. `trains/train_trees.cpp:897`: a train that turns in PathToNode gives back
   only its last node and forgets the sections it had before; and one that
   turns out of a deadlock keeps what is behind a section that its path had twice
   (`OwnedIsWanted`).
9. `trains/train_trees.cpp:390`: releasing a node releases its section, also
   where the path has the section a second time (`HeldIsOwned`).
10. `trains/train_trees.cpp:481` and `:501`: a switch over 100 is never set to
   straight, and stays as the last train wanted it (`SwitchesSet`; the small
   track has none, the exception is there for the theorem).

Seen while modelling, without a run: WhoIs of a name that nobody registers never
returns, while `os/name_server.cpp:43` expects -1; Delay(0) in the last tick
before the clock wraps sleeps a whole period; `ticks < 0` in the clock server
compares an unsigned number; a CAN transmit waiter masked together with a
receive flag is not woken (why `WaiterArmed` leaves the CAN events out); a
failed create takes one of the ten mailboxes for tid -1 for good; after Quit the
trees that wait for a message stay blocked, and so do tasks that were received
from and not answered when their receiver exits; a tree's Ready replaces the
server's state of the train by the tree's older copy, so that what the station
reported in between is lost until its next answer (`train_control.h:284`; the
comment at line 292 is about the other direction); `run_tree` ends in the tick
that ends the tree, so the last calibrated values are never sent to the server;
a tree that exits keeps its reservations; improve_node_idx follows the null edge
of an exit that ends a path (`train_trees.cpp:784`).

## Not modelled

* Formatting, parsing, drawing and frame encoding are pure and have no state that
  the properties relate. Register access, vectors and the MMU are assembly and
  memory-mapped I/O.
* The physical model of a train (speeds, accelerations, stopping distances) is
  calibration data and fixed-point arithmetic on it; the models choose what it
  says. Hence nothing here shows that a train stops in time.
* Of the trees: Fallback and Invert, which act only when a node fails because
  the server is gone; TimeoutNode, which is in no tree; StopMeasure,
  ForeverNavigateTree's random goals and CalibrateTrain's list of speeds, which
  run the modelled trees one after another.
* The CAN controller's transmit buffers: the train server's pacing
  (`PacedInOrder`) leaves at most one frame in them.
* Reset and Reverse, which queue several commands in one request.
* The ring buffer's and the hash map's index arithmetic; they are sequences and
  functions with a capacity.
* Rock paper scissors, compiled in only with RPS_TEST.

## Plan

What is left, in this order:

1. Abstract queues for the UART servers and a refinement of them, on top of the
   invariants that are proved.
2. Trains that run: `TrainTrees` and `Reservations` composed, so that a lost
   command of PathReservationNode is seen on the track.
3. Boot under the scheduler's priorities: the stale name of a train server that
   has exited, and await_task.
4. Containers: the ring buffer and the hash map with deleted slots, refining
   sequence and function.
