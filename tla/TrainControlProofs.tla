------------------------ MODULE TrainControlProofs ------------------------
(***************************************************************************)
(* Theorems about the train control server, for any number of trees and    *)
(* any sizes of its buffer, its map of mailboxes and its mailboxes: the    *)
(* inductive invariant of the server and its clients, and that commands    *)
(* are paced and in order, who waits is known, a tree's first message is   *)
(* its Init, and ended trees have no mailbox.  Then about the trees, for   *)
(* any speeds, numbers of loops and of losses: that a train which has      *)
(* turned keeps its direction, that NavigateTree ends with the train       *)
(* standing, and that the laps CalibrateTree computes with were run at the *)
(* speeds it takes them for.                                               *)
(***************************************************************************)
EXTENDS TrainControl, TrainTrees, QueueLemmas, WellFoundedInduction

PC == {"absent", "run", "sent", "failing", "gone"}

LEMMA NumberedMeans ==
  Numbered <=> Below(sent \o tx_buf, issued) /\ Rising(sent \o tx_buf)
BY DEF Numbered, Below, Rising

LEMMA RisingPrefix ==
  ASSUME NEW s \in Seq(Nat), NEW q \in Seq(Nat), NEW n \in Nat,
         Rising(s \o q), Below(s \o q, n)
  PROVE  Rising(s \o <<>>) /\ Below(s \o <<>>, n)
<1>1. /\ Len(s) \in Nat /\ Len(q) \in Nat /\ Len(s \o q) = Len(s) + Len(q)
      /\ \A i \in 1..Len(s) : (s \o q)[i] = s[i]
  BY ConcatProperties, LenProperties
<1>2. s \o <<>> = s
  BY ConcatEmptySeq
<1>3. ASSUME NEW i \in 1..(Len(s) - 1) PROVE s[i] < s[i + 1]
  <2>1. i \in 1..(Len(s \o q) - 1) /\ i \in 1..Len(s) /\ i + 1 \in 1..Len(s)
    BY <1>1
  <2> QED BY <1>1, <2>1 DEF Rising
<1>4. ASSUME NEW i \in 1..Len(s) PROVE s[i] <= n
  BY <1>1 DEF Below
<1> QED BY <1>2, <1>3, <1>4 DEF Rising, Below

LEMMA InitIInv == Init => IInv
<1> SUFFICES ASSUME Init PROVE IInv
  OBVIOUS
<1> USE TrainControlAssumption DEF Init
<1>1. tx_buf \in Seq(Nat) /\ Len(tx_buf) = StartCmds /\ \A i \in 1..StartCmds : tx_buf[i] = i
  <2>1. tx_buf \in [1..StartCmds -> Nat] /\ StartCmds \in Nat
    OBVIOUS
  <2>2. tx_buf \in Seq(Nat)
    BY <2>1, SeqDef
  <2> QED BY <2>1, <2>2, LenProperties
<1>2. sent \o tx_buf = tx_buf
  BY <1>1, ConcatEmptySeq
<1>3. Numbered
  BY <1>1, <1>2 DEF Numbered
<1>4. DOMAIN trees = {} /\ Waiting = {}
  BY DEF Waiting
<1>5. TypeOK
  <2>1. <<>> \in Seq(Nat) /\ <<>> \in Seq(Task)
    OBVIOUS
  <2>2. trees \in [DOMAIN trees -> Mailbox]
    BY <1>4
  <2>3. msg \in [Task -> Message]
    BY DEF Message
  <2>4. pc \in [Task -> PC] /\ copy \in [Trees -> Nat \cup {Unknown}]
    BY DEF PC
  <2>5. issued \in Nat /\ tx_cmd \in Nat /\ events \in Nat /\ state \in Nat /\ responses \in Nat
    OBVIOUS
  <2> QED BY <1>1, <1>4, <2>1, <2>2, <2>3, <2>4, <2>5 DEF TypeOK, PC
<1>6. Paces /\ InboxSound
  BY QueueEmpty DEF Paces, InboxSound
<1>7. MessagesOwned
  BY DEF MessagesOwned, NoMsg
<1>8. WaitersSound
  BY <1>4 DEF WaitersSound, Task
<1> QED BY <1>3, <1>4, <1>5, <1>6, <1>7, <1>8 DEF IInv, InitFirst, MailboxesOwned
-----------------------------------------------------------------------------
(* The clients.  A task that sends has not been waiting, and now waits in   *)
(* the queue, or has ended with the server.                                 *)
Owned(k, m) == /\ m.type \in {"Ready", "Exit"} => k \in Trees
               /\ m.type = "TXReady" => k = "tx"

LEMMA SendInv ==
  ASSUME IInv, NEW t \in Task, NEW m \in Message, Owned(t, m), Send(t, m),
         pc[t] \in {"run", "failing"}, copy' = copy,
         tx_cmd' \in Nat, bus' \in Seq(Nat), events' \in Nat
  PROVE  IInv'
<1> USE DEF IInv, Send, server, history
<1>1. pc' \in [Task -> PC] /\ msg' \in [Task -> Message] /\ inbox' \in Seq(Task)
  <2>1. Append(inbox, t) \in Seq(Task)
    BY AppendProperties DEF TypeOK
  <2> QED BY <2>1 DEF TypeOK, PC
<1>2. TypeOK'
  BY <1>1 DEF TypeOK, PC
<1>3. Paces' /\ Numbered'
  BY DEF Paces, Numbered
<1>4. (t \notin Range(inbox) /\ t \notin Waiting) \/ exited
  BY DEF InboxSound, WaitersSound
<1>5. Waiting' = Waiting
  BY DEF Waiting
<1>6. Range(Append(inbox, t)) = Range(inbox) \cup {t}
  BY QueueAppend DEF TypeOK
<1>7. InboxSound'
  <2>1. ~exited => IsInjective(Append(inbox, t))
    BY <1>4, QueueAppend DEF TypeOK, InboxSound
  <2>2. \A k \in Range(inbox) : k \in Task
    BY RangeOfSeq DEF TypeOK
  <2>3. CASE exited
    BY <2>3, <1>1, QueueEmpty DEF InboxSound
  <2>4. CASE ~exited
    BY <2>1, <2>2, <2>4, <1>6 DEF InboxSound, TypeOK
  <2> QED BY <2>3, <2>4
<1>8. MessagesOwned'
  BY DEF MessagesOwned, TypeOK, Owned
<1>9. WaitersSound'
  <2> SUFFICES ASSUME ~exited PROVE WaitersSound'
    BY DEF WaitersSound
  <2>1. \A k \in Task : pc'[k] = IF k = t THEN "sent" ELSE pc[k]
    BY DEF TypeOK
  <2>2. \A k \in Task : msg'[k] = IF k = t THEN m ELSE msg[k]
    BY DEF TypeOK
  <2>3. Range(inbox') = Range(inbox) \cup {t}
    BY <1>6
  <2>4. "tx" \in Task /\ Trees \subseteq Task
    BY DEF Task
  <2>5. trees' = trees /\ exited' = exited /\ waiting_can_tx_worker' = waiting_can_tx_worker
    OBVIOUS
  <2>6. waiting_can_tx_worker => t # "tx"
    BY DEF WaitersSound
  <2> QED BY <1>4, <1>5, <2>1, <2>2, <2>3, <2>4, <2>5, <2>6 DEF WaitersSound
<1>10. InitFirst' /\ MailboxesOwned'
  <2>1. CASE exited
    BY <2>1 DEF InboxSound, InitFirst, MailboxesOwned
  <2>2. CASE ~exited
    BY <2>2 DEF InitFirst, MailboxesOwned, TypeOK, Task
  <2> QED BY <2>1, <2>2
<1> QED BY <1>2, <1>3, <1>7, <1>8, <1>9, <1>10

LEMMA ClientInv ==
  ASSUME IInv, TxWorker \/ RxAnswer \/ RxSensor \/ TrainTick \/ Cli
                 \/ \E t \in Trees : TreeStep(t)
  PROVE  IInv'
<1> USE DEF tasks, station, Task
<1>1. CASE TxReady
  <2>1. [type |-> "TXReady"] \in Message /\ Owned("tx", [type |-> "TXReady"])
    BY DEF Message, Owned
  <2> QED BY <1>1, <2>1, SendInv DEF TxReady, IInv, TypeOK
<1>2. CASE Transmit
  <2>1. TypeOK'
    <3>1. bus' \in Seq(Nat)
      BY <1>2, AppendProperties DEF Transmit, IInv, TypeOK
    <3> QED BY <1>2, <3>1 DEF Transmit, IInv, TypeOK, server, history
  <2> QED
    BY <1>2, <2>1 DEF Transmit, IInv, server, history, Paces, Numbered, InboxSound, MessagesOwned,
                      WaitersSound, Waiting, InitFirst, MailboxesOwned
<1>3. CASE RxAnswer
  <2> DEFINE m == [type |-> "RX", cmd |-> Head(bus), resp |-> TRUE]
  <2>1. Head(bus) \in Nat /\ bus' \in Seq(Nat)
    BY <1>3, HeadTailProperties DEF RxAnswer, IInv, TypeOK
  <2>2. m \in Message /\ Owned("rx", m)
    BY <2>1 DEF Message, Owned
  <2> QED BY <1>3, <2>1, <2>2, SendInv DEF RxAnswer, IInv, TypeOK
<1>4. CASE RxSensor
  <2>1. PICK resp \in BOOLEAN : Send("rx", [type |-> "RX", cmd |-> 0, resp |-> resp])
    BY <1>4 DEF RxSensor
  <2>2. /\ [type |-> "RX", cmd |-> 0, resp |-> resp] \in Message
        /\ Owned("rx", [type |-> "RX", cmd |-> 0, resp |-> resp])
    BY DEF Message, Owned
  <2>3. events' \in Nat /\ tx_cmd' \in Nat /\ bus' \in Seq(Nat) /\ copy' = copy
    BY <1>4 DEF RxSensor, IInv, TypeOK
  <2>4. pc["rx"] \in {"run", "failing"} /\ "rx" \in Task
    BY <1>4 DEF RxSensor
  <2> HIDE DEF Task
  <2> QED BY <2>1, <2>2, <2>3, <2>4, SendInv
<1>5. CASE TrainTick
  <2>1. [type |-> "Tick"] \in Message /\ Owned("tick", [type |-> "Tick"])
    BY DEF Message, Owned
  <2>2. events' \in Nat /\ tx_cmd' \in Nat /\ bus' \in Seq(Nat) /\ copy' = copy
    BY <1>5 DEF TrainTick, IInv, TypeOK
  <2>3. pc["tick"] \in {"run", "failing"} /\ "tick" \in Task
        /\ Send("tick", [type |-> "Tick"])
    BY <1>5 DEF TrainTick
  <2> HIDE DEF Task
  <2> QED BY <2>1, <2>2, <2>3, SendInv
<1>6. CASE Cli
  <2>1. PICK type \in {"transmit", "RunTree", "Quit"} : Send("cli", [type |-> type])
    BY <1>6 DEF Cli
  <2>2. [type |-> type] \in Message /\ Owned("cli", [type |-> type])
    BY DEF Message, Owned
  <2> QED BY <1>6, <2>1, <2>2, SendInv DEF Cli, IInv, TypeOK
<1>7. ASSUME NEW t \in Trees, TreeStep(t) PROVE IInv'
  <2>1. CASE Ready(t)
    <3>1. /\ [type |-> "Ready", train |-> copy[t]] \in Message
          /\ Owned(t, [type |-> "Ready", train |-> copy[t]])
      BY DEF Message, Owned, IInv, TypeOK
    <3> QED BY <2>1, <3>1, SendInv DEF Ready, IInv, TypeOK
  <2>2. CASE TreeRequest(t)
    <3>1. [type |-> "transmit"] \in Message /\ Owned(t, [type |-> "transmit"])
      BY DEF Message, Owned
    <3> QED BY <2>2, <3>1, SendInv DEF TreeRequest, IInv, TypeOK
  <2>3. CASE TreeExit(t)
    <3>1. [type |-> "Exit"] \in Message /\ Owned(t, [type |-> "Exit"])
      BY DEF Message, Owned
    <3> QED BY <2>3, <3>1, SendInv DEF TreeExit, IInv, TypeOK
  <2> QED BY <1>7, <2>1, <2>2, <2>3 DEF TreeStep
<1> QED BY <1>1, <1>2, <1>3, <1>4, <1>5, <1>6, <1>7 DEF TxWorker
-----------------------------------------------------------------------------
(* The server.  The task whose message it handles is blocked in Send and in *)
(* none of its records.                                                     *)
LEMMA ServedTask ==
  ASSUME IInv, ~exited, inbox # <<>>, NEW t, t = Head(inbox)
  PROVE  /\ t \in Task /\ pc[t] = "sent" /\ msg[t] \in Message
         /\ Range(Tail(inbox)) = Range(inbox) \ {t}
         /\ Tail(inbox) \in Seq(Task) /\ IsInjective(Tail(inbox))
         /\ Range(inbox) \subseteq Task
         /\ t \in Range(inbox)
         /\ waiting_can_tx_worker => t # "tx"
         /\ t \notin Waiting
         /\ Waiting \subseteq Trees \ Range(inbox)
<1> USE DEF IInv
<1>1. t \in Task /\ Tail(inbox) \in Seq(Task)
  BY HeadTailProperties DEF TypeOK
<1>2. t \in Range(inbox) /\ (IsInjective(inbox) => IsInjective(Tail(inbox))
      /\ Range(Tail(inbox)) = Range(inbox) \ {t})
  BY QueueTail DEF TypeOK
<1>3. Range(inbox) \subseteq Task
  BY RangeOfSeq DEF TypeOK
<1>4. Waiting \subseteq Trees \ Range(inbox)
  BY DEF WaitersSound
<1> QED BY <1>1, <1>2, <1>3, <1>4 DEF InboxSound, WaitersSound, TypeOK

(* The queue and the messages after a handler that leaves those who are     *)
(* still queued alone.                                                      *)
LEMMA QueueKept ==
  ASSUME IInv, ~exited, inbox # <<>>, inbox' = Tail(inbox), exited' = exited,
         pc' \in [Task -> PC], \A k \in Range(Tail(inbox)) : pc'[k] = "sent",
         msg' = [t \in Task |-> IF pc'[t] = "sent" THEN msg[t] ELSE NoMsg]
  PROVE  /\ inbox' \in Seq(Task) /\ msg' \in [Task -> Message]
         /\ InboxSound' /\ MessagesOwned'
<1>1. inbox' \in Seq(Task) /\ IsInjective(inbox')
  BY ServedTask
<1>2. msg' \in [Task -> Message]
  <2>1. NoMsg \in Message
    BY DEF Message
  <2> QED BY <2>1 DEF IInv, TypeOK
<1>3. MessagesOwned'
  BY DEF MessagesOwned, NoMsg, IInv
<1> QED BY <1>1, <1>2, <1>3 DEF InboxSound

(* maybe_tx keeps the pacing and the numbers of the commands, given that    *)
(* the handler has left them right.                                         *)
LEMMA MaybeTxInv ==
  ASSUME TypeOK, NEW buf \in Seq(Nat), NEW waits \in BOOLEAN, NEW may \in BOOLEAN,
         MaybeTx(buf, waits, may), issued' \in Nat, responses' \in Nat,
         Rising(sent \o buf), Below(sent \o buf, issued'),
         Len(sent) <= responses' + 1, may => Len(sent) <= responses'
  PROVE  /\ tx_buf' \in Seq(Nat) /\ sent' \in Seq(Nat) /\ tx_cmd' \in Nat
         /\ waiting_can_tx_worker' \in BOOLEAN /\ simple_pacing_can_send' \in BOOLEAN
         /\ waiting_can_tx_worker' => waits /\ TxWoken(buf, waits, may) = {}
         /\ Paces' /\ Numbered'
<1>1. waiting_can_tx_worker' \in BOOLEAN /\ simple_pacing_can_send' \in BOOLEAN
  BY DEF MaybeTx, Paced
<1>2. waiting_can_tx_worker' => waits /\ TxWoken(buf, waits, may) = {}
  BY DEF MaybeTx, TxWoken
<1>3. CASE CanTx(buf, waits, may)
  <2>1. buf # <<>> /\ may
    BY <1>3 DEF CanTx
  <2>2. Head(buf) \in Nat /\ Tail(buf) \in Seq(Nat)
    BY <2>1, HeadTailProperties
  <2>3. Append(sent, Head(buf)) \in Seq(Nat) /\ Len(Append(sent, Head(buf))) = Len(sent) + 1
    BY <2>2, AppendProperties DEF TypeOK
  <2>4. /\ tx_buf' = Tail(buf) /\ sent' = Append(sent, Head(buf)) /\ tx_cmd' = Head(buf)
        /\ ~simple_pacing_can_send'
    BY <1>3 DEF MaybeTx, Paced
  <2>5. sent' \o tx_buf' = sent \o buf
    BY <2>1, <2>4, QueueMove DEF TypeOK
  <2>6. Numbered'
    BY <2>5 DEF Numbered, Rising, Below
  <2>7. Paces'
    BY <2>1, <2>3, <2>4 DEF Paces
  <2> QED BY <1>1, <1>2, <2>2, <2>3, <2>4, <2>6, <2>7
<1>4. CASE ~CanTx(buf, waits, may)
  <2>1. tx_buf' = buf /\ sent' = sent /\ tx_cmd' = tx_cmd
        /\ (simple_pacing_can_send' => may)
    BY <1>4 DEF MaybeTx, Paced
  <2>2. Numbered'
    BY <2>1 DEF Numbered, Rising, Below
  <2>3. Paces'
    BY <2>1 DEF Paces
  <2> QED BY <1>1, <1>2, <2>1, <2>2, <2>3 DEF TypeOK
<1> QED BY <1>3, <1>4

(* An update reaches every tree that waits, and leaves the first message of *)
(* the others where it is.                                                  *)
LEMMA PublishInv ==
  ASSUME IInv, ~exited, NEW s \in Nat, Publish([kind |-> "Update", state |-> s])
  PROVE  /\ DOMAIN trees' = DOMAIN trees /\ trees' \in [DOMAIN trees' -> Mailbox]
         /\ copy' \in [Trees -> Nat \cup {Unknown}]
         /\ Waiting' = {}
         /\ \A t \in Trees : t \in Waiting => copy'[t] # Unknown
         /\ \A t \in Trees : t \notin Waiting => copy'[t] = copy[t]
         /\ \A t \in DOMAIN trees : t \notin Waiting /\ trees[t].msgs # <<>> =>
              trees'[t].msgs # <<>> /\ trees'[t].msgs[1] = trees[t].msgs[1]
<1> DEFINE update == [kind |-> "Update", state |-> s]
           M == [kind : {"Init", "Update"}, state : Nat]
           pushed == [t \in DOMAIN trees |-> Push(trees[t].msgs, update)]
<1> USE DEF IInv
<1>1. update \in M
  OBVIOUS
<1>2. \A t \in DOMAIN trees : trees[t].msgs \in Seq(M) /\ trees[t].waiting \in BOOLEAN
  BY DEF TypeOK, Mailbox
<1>3. ASSUME NEW t \in DOMAIN trees
      PROVE  /\ pushed[t] \in Seq(M) /\ pushed[t] # <<>>
             /\ trees[t].msgs = <<>> => pushed[t] = <<update>>
             /\ trees[t].msgs # <<>> => pushed[t][1] = trees[t].msgs[1]
  <2>1. MAILBOX_SIZE \in Nat /\ MAILBOX_SIZE > 0
    BY TrainControlAssumption
  <2> DEFINE q == trees[t].msgs
  <2>2. q \in Seq(M) /\ Len(q) \in Nat /\ (q # <<>> => Len(q) > 0)
    BY <1>2, EmptySeq
  <2>3. /\ Append(q, update) \in Seq(M) /\ Append(q, update) # <<>>
        /\ \A i \in 1..Len(q) : Append(q, update)[i] = q[i]
    BY <1>1, <2>2, AppendProperties
  <2>4. q = <<>> => Len(q) = 0 /\ Append(q, update) = <<update>>
    OBVIOUS
  <2>5. pushed[t] = Push(q, update)
    OBVIOUS
  <2> HIDE DEF q, pushed, M
  <2>6. /\ pushed[t] \in Seq(M) /\ pushed[t] # <<>>
        /\ q = <<>> => pushed[t] = <<update>>
        /\ q # <<>> => pushed[t][1] = q[1]
    BY <2>1, <2>2, <2>3, <2>4, <2>5 DEF Push
  <2> QED BY <2>6 DEF q
<1>4. \A t \in Waiting : t \in Trees /\ t \in DOMAIN trees /\ trees[t].msgs = <<>>
  BY DEF WaitersSound, Waiting
<1>5. /\ trees' = [t \in DOMAIN trees |->
                      [msgs |-> IF t \in Waiting THEN Tail(pushed[t]) ELSE pushed[t],
                       waiting |-> FALSE]]
      /\ copy' = [t \in Trees |-> IF t \in Waiting THEN Head(pushed[t]).state ELSE copy[t]]
  BY DEF Publish, WaitsAgain
<1> HIDE DEF pushed, update
<1>6. \A t \in Waiting : Head(pushed[t]).state = s /\ Tail(pushed[t]) = <<>>
  <2> SUFFICES ASSUME NEW t \in Waiting
               PROVE  Head(pushed[t]).state = s /\ Tail(pushed[t]) = <<>>
    OBVIOUS
  <2>1. pushed[t] = <<update>>
    BY <1>3, <1>4
  <2>2. Head(<<update>>) = update /\ Tail(<<update>>) = <<>>
    OBVIOUS
  <2> QED BY <2>1, <2>2 DEF update
<1>7. trees' \in [DOMAIN trees' -> Mailbox]
  <2>1. \A t \in DOMAIN trees : (IF t \in Waiting THEN Tail(pushed[t]) ELSE pushed[t]) \in Seq(M)
    BY <1>3, <1>6
  <2> HIDE DEF M
  <2>2. \A t \in DOMAIN trees : trees'[t] \in [msgs : Seq(M), waiting : BOOLEAN]
    BY <1>5, <2>1
  <2> QED BY <1>5, <2>2 DEF Mailbox, M
<1>8. Waiting' = {}
  BY <1>5 DEF Waiting
<1>9. copy' \in [Trees -> Nat \cup {Unknown}]
  BY <1>5, <1>6 DEF TypeOK
<1> QED BY <1>3, <1>5, <1>6, <1>7, <1>8, <1>9, TrainControlAssumption

(* After an update was published and those it woke have their answers, the  *)
(* mailboxes are right again.                                               *)
LEMMA PublishedInv ==
  ASSUME IInv, ~exited, inbox # <<>>, inbox' = Tail(inbox), exited' = exited,
         NEW s \in Nat, Publish([kind |-> "Update", state |-> s]),
         NEW tx \in SUBSET {"tx"}, ~Ends(Head(inbox)),
         Reply({Head(inbox)} \cup Waiting \cup tx, {}),
         tx # {} => waiting_can_tx_worker,
         waiting_can_tx_worker' => waiting_can_tx_worker /\ tx = {},
         msg' = [t \in Task |-> IF pc'[t] = "sent" THEN msg[t] ELSE NoMsg]
  PROVE  /\ DOMAIN trees' \subseteq Trees \cup {NoTid} /\ trees' \in [DOMAIN trees' -> Mailbox]
         /\ inbox' \in Seq(Task) /\ msg' \in [Task -> Message] /\ pc' \in [Task -> PC]
         /\ copy' \in [Trees -> Nat \cup {Unknown}]
         /\ InboxSound' /\ MessagesOwned' /\ WaitersSound' /\ InitFirst' /\ MailboxesOwned'
<1> DEFINE t == Head(inbox)
           S == {t} \cup Waiting \cup tx
<1>1. /\ t \in Task /\ pc[t] = "sent" /\ Range(Tail(inbox)) = Range(inbox) \ {t}
      /\ Range(inbox) \subseteq Task
      /\ waiting_can_tx_worker => t # "tx"
      /\ t \in Range(inbox)
      /\ Waiting \subseteq Trees \ Range(inbox)
  BY ServedTask
<1>2. pc' = [k \in Task |-> IF k \in S /\ ~Ends(k) THEN "run"
                            ELSE IF k \in S THEN "gone" ELSE pc[k]]
  BY DEF Reply
<1>3. pc' \in [Task -> PC]
  BY <1>2 DEF IInv, TypeOK, PC
<1>4. \A k \in Task : pc'[k] = IF k \notin S THEN pc[k] ELSE IF ~Ends(k) THEN "run" ELSE "gone"
  BY <1>2
<1>5. "tx" \notin Trees /\ "tx" \in Task /\ Trees \subseteq Task
  BY TrainControlAssumption DEF Task
<1>6. tx # {} => pc["tx"] = "sent" /\ "tx" \notin Range(inbox)
  BY DEF IInv, WaitersSound
<1> HIDE DEF t
<1>7. \A k \in Range(Tail(inbox)) : pc'[k] = "sent" /\ k \notin S
  BY <1>1, <1>4, <1>6, ZenonT(30) DEF IInv, InboxSound
<1>8. inbox' \in Seq(Task) /\ msg' \in [Task -> Message] /\ InboxSound' /\ MessagesOwned'
  BY <1>3, <1>7, QueueKept
<1>9. \A k \in Trees : k \in S => ~Ends(k) /\ pc'[k] = "run" /\ pc[k] = "sent"
  BY <1>1, <1>4, <1>5 DEF IInv, WaitersSound, Ends, t
<1>10. /\ DOMAIN trees' = DOMAIN trees /\ trees' \in [DOMAIN trees' -> Mailbox]
       /\ copy' \in [Trees -> Nat \cup {Unknown}] /\ Waiting' = {}
       /\ \A k \in Trees : k \in Waiting => copy'[k] # Unknown
       /\ \A k \in Trees : k \notin Waiting => copy'[k] = copy[k]
       /\ \A k \in DOMAIN trees : k \notin Waiting /\ trees[k].msgs # <<>> =>
              trees'[k].msgs # <<>> /\ trees'[k].msgs[1] = trees[k].msgs[1]
  BY PublishInv
<1>11. WaitersSound'
  <2>1. waiting_can_tx_worker' => pc'["tx"] = "sent" /\ "tx" \notin Range(inbox')
    BY <1>1, <1>4, <1>5 DEF IInv, WaitersSound
  <2>2. ASSUME NEW k \in Trees, pc'[k] = "sent" PROVE k \in Range(inbox')
    BY <2>2, <1>1, <1>4, <1>5, <1>9 DEF IInv, WaitersSound
  <2> QED BY <2>1, <2>2, <1>10 DEF WaitersSound
<1>12. InitFirst'
  BY <1>10, <1>9, <1>4, <1>5 DEF IInv, InitFirst
<1>13. MailboxesOwned'
  BY <1>10, <1>9, <1>4, <1>5 DEF IInv, MailboxesOwned
<1> QED BY <1>3, <1>8, <1>10, <1>11, <1>12, <1>13 DEF IInv, TypeOK
-----------------------------------------------------------------------------
(* The handlers.  In each, the server is running, t is the sender of the    *)
(* oldest message, and m the message.                                       *)
Serves(t, m) ==
  /\ ~exited /\ inbox # <<>> /\ t = Head(inbox) /\ m = msg[t]
  /\ msg' = [k \in Task |-> IF pc'[k] = "sent" THEN msg[k] ELSE NoMsg]
  /\ UNCHANGED station

LEMMA HandleRxInv ==
  ASSUME IInv, NEW t, NEW m, Serves(t, m), m.type = "RX", HandleRx(t, m), inbox' = Tail(inbox)
  PROVE  IInv'
<1> DEFINE tx == TxWoken(tx_buf, waiting_can_tx_worker, CanSend(m))
<1>1. m \in Message /\ m.cmd \in Nat /\ m.resp \in BOOLEAN
  BY ServedTask DEF Serves, Message, NoMsg
<1>2. state' \in Nat /\ responses' \in Nat /\ issued' = issued /\ exited' = exited
      /\ CanSend(m) \in BOOLEAN
      /\ responses' >= responses /\ (CanSend(m) => Len(sent) <= responses')
      /\ Len(sent) <= responses' + 1
  <2>1. Len(sent) \in Nat
    BY DEF IInv, TypeOK
  <2> QED BY <1>1, <2>1, SMTT(30) DEF HandleRx, IInv, TypeOK, Paces, CanSend
<1>3. Rising(sent \o tx_buf) /\ Below(sent \o tx_buf, issued')
  BY <1>2, NumberedMeans DEF IInv
<1>4. MaybeTx(tx_buf, waiting_can_tx_worker, CanSend(m))
  BY DEF HandleRx
<1>5. /\ tx_buf' \in Seq(Nat) /\ sent' \in Seq(Nat) /\ tx_cmd' \in Nat
      /\ waiting_can_tx_worker' \in BOOLEAN /\ simple_pacing_can_send' \in BOOLEAN
      /\ waiting_can_tx_worker' => waiting_can_tx_worker /\ tx = {}
      /\ Paces' /\ Numbered'
  BY <1>2, <1>3, <1>4, MaybeTxInv DEF IInv, TypeOK
<1>6. /\ DOMAIN trees' \subseteq Trees \cup {NoTid} /\ trees' \in [DOMAIN trees' -> Mailbox]
      /\ inbox' \in Seq(Task) /\ msg' \in [Task -> Message] /\ pc' \in [Task -> PC]
      /\ copy' \in [Trees -> Nat \cup {Unknown}]
      /\ InboxSound' /\ MessagesOwned' /\ WaitersSound' /\ InitFirst' /\ MailboxesOwned'
  <2>1. tx \in SUBSET {"tx"} /\ (tx # {} => waiting_can_tx_worker)
    BY DEF TxWoken, CanTx
  <2>2. ~Ends(Head(inbox))
    BY DEF Ends, Serves
  <2>3. Reply({Head(inbox)} \cup Waiting \cup tx, {})
        /\ Publish([kind |-> "Update", state |-> state'])
    BY DEF HandleRx, Serves
  <2> HIDE DEF tx
  <2> QED BY <1>2, <1>5, <2>1, <2>2, <2>3, PublishedInv DEF Serves
<1> QED BY <1>2, <1>5, <1>6 DEF IInv, TypeOK, Serves, station, PC

LEMMA HandleTickInv ==
  ASSUME IInv, NEW t, NEW m, Serves(t, m), m.type = "Tick", HandleTick(t), inbox' = Tail(inbox)
  PROVE  IInv'
<1>1. /\ DOMAIN trees' \subseteq Trees \cup {NoTid} /\ trees' \in [DOMAIN trees' -> Mailbox]
      /\ inbox' \in Seq(Task) /\ msg' \in [Task -> Message] /\ pc' \in [Task -> PC]
      /\ copy' \in [Trees -> Nat \cup {Unknown}]
      /\ InboxSound' /\ MessagesOwned' /\ WaitersSound' /\ InitFirst' /\ MailboxesOwned'
  <2>1. ~Ends(Head(inbox))
    BY DEF Ends, Serves
  <2>2. Reply({Head(inbox)} \cup Waiting \cup {}, {})
        /\ Publish([kind |-> "Update", state |-> state])
        /\ state \in Nat
    BY DEF HandleTick, Serves, IInv, TypeOK
  <2>3. {} \in SUBSET {"tx"} /\ exited' = exited
        /\ waiting_can_tx_worker' = waiting_can_tx_worker
    BY DEF HandleTick
  <2> QED BY <2>1, <2>2, <2>3, PublishedInv DEF Serves
<1>2. Paces' /\ Numbered'
  BY DEF HandleTick, IInv, Paces, Numbered, history
<1> QED BY <1>1, <1>2 DEF HandleTick, history, IInv, TypeOK, Serves, station, PC

(* The handlers that reply to the sender, or to tx_can_worker, and touch no *)
(* mailbox.                                                                 *)
LEMMA RepliedInv ==
  ASSUME IInv, NEW t, NEW m, Serves(t, m), ~Ends(t), inbox' = Tail(inbox), exited' = exited,
         UNCHANGED <<trees, copy>>,
         NEW S \in SUBSET {t, "tx"}, Reply(S, {}),
         t \in S \/ t = "tx",
         "tx" \in S => waiting_can_tx_worker \/ t = "tx",
         waiting_can_tx_worker' => (waiting_can_tx_worker \/ t = "tx") /\ "tx" \notin S
  PROVE  /\ inbox' \in Seq(Task) /\ msg' \in [Task -> Message] /\ pc' \in [Task -> PC]
         /\ InboxSound' /\ MessagesOwned' /\ WaitersSound' /\ InitFirst' /\ MailboxesOwned'
<1>1. /\ t \in Task /\ pc[t] = "sent" /\ Range(Tail(inbox)) = Range(inbox) \ {t}
      /\ Range(inbox) \subseteq Task
      /\ waiting_can_tx_worker => t # "tx"
      /\ t \in Range(inbox)
      /\ t \notin Waiting
  BY ServedTask DEF Serves
<1>2. \A k \in Task : pc'[k] = IF k \notin S THEN pc[k] ELSE IF ~Ends(k) THEN "run" ELSE "gone"
  BY DEF Reply
<1>3. pc' \in [Task -> PC]
  BY DEF Reply, IInv, TypeOK, PC
<1>4. "tx" \notin Trees /\ "tx" \in Task /\ Trees \subseteq Task
  BY TrainControlAssumption DEF Task
<1>5. "tx" \in S => pc["tx"] = "sent" /\ "tx" \notin Range(Tail(inbox))
  BY <1>1 DEF IInv, WaitersSound, Serves
<1>6. \A k \in Range(Tail(inbox)) : pc'[k] = "sent" /\ k \notin S
  BY <1>1, <1>2, <1>5 DEF IInv, InboxSound
<1>7. inbox' \in Seq(Task) /\ msg' \in [Task -> Message] /\ InboxSound' /\ MessagesOwned'
  BY <1>3, <1>6, QueueKept DEF Serves
<1>8. \A k \in Trees : pc'[k] = IF k = t THEN "run" ELSE pc[k]
  BY <1>1, <1>2, <1>4
<1>9. Waiting' = Waiting
  BY DEF Waiting
<1>10. WaitersSound'
  <2>1. waiting_can_tx_worker' => pc'["tx"] = "sent" /\ "tx" \notin Range(inbox')
    BY <1>1, <1>2, <1>4 DEF IInv, WaitersSound, Serves
  <2>2. \A k \in Trees : k \in Waiting <=> pc'[k] = "sent" /\ k \notin Range(inbox')
    BY <1>1, <1>8 DEF IInv, WaitersSound, Serves
  <2>3. \A k \in Waiting : k \in Trees /\ msg[k].type = "Ready" /\ trees[k].msgs = <<>>
                            /\ k # t /\ pc[k] = "sent"
    BY <1>1 DEF IInv, WaitersSound, Serves
  <2>4. \A k \in Waiting : msg'[k] = msg[k]
    BY <1>4, <1>8, <2>3 DEF Serves
  <2> QED BY <1>9, <2>1, <2>2, <2>3, <2>4 DEF WaitersSound
<1>11. InitFirst' /\ MailboxesOwned'
  BY <1>1, <1>8 DEF IInv, InitFirst, MailboxesOwned
<1> QED BY <1>3, <1>7, <1>10, <1>11

LEMMA HandleTxReadyInv ==
  ASSUME IInv, NEW t, NEW m, Serves(t, m), m.type = "TXReady", HandleTxReady(t),
         inbox' = Tail(inbox)
  PROVE  IInv'
<1> DEFINE tx == TxWoken(tx_buf, TRUE, simple_pacing_can_send)
<1>1. t = "tx"
  BY ServedTask DEF Serves, IInv, MessagesOwned
<1>2. Rising(sent \o tx_buf) /\ Below(sent \o tx_buf, issued') /\ issued' = issued
      /\ responses' = responses
  BY NumberedMeans DEF IInv, HandleTxReady
<1>3. MaybeTx(tx_buf, TRUE, simple_pacing_can_send)
  BY DEF HandleTxReady
<1>4. /\ tx_buf' \in Seq(Nat) /\ sent' \in Seq(Nat) /\ tx_cmd' \in Nat
      /\ waiting_can_tx_worker' \in BOOLEAN /\ simple_pacing_can_send' \in BOOLEAN
      /\ waiting_can_tx_worker' => tx = {}
      /\ Paces' /\ Numbered'
  BY <1>2, <1>3, MaybeTxInv DEF IInv, TypeOK, Paces
<1>5. /\ inbox' \in Seq(Task) /\ msg' \in [Task -> Message] /\ pc' \in [Task -> PC]
      /\ InboxSound' /\ MessagesOwned' /\ WaitersSound' /\ InitFirst' /\ MailboxesOwned'
  <2>1. tx \in SUBSET {t, "tx"} /\ Reply(tx, {}) /\ UNCHANGED <<trees, copy>>
        /\ exited' = exited
    BY DEF TxWoken, HandleTxReady
  <2>2. ~Ends(t)
    BY DEF Ends, Serves
  <2> HIDE DEF tx
  <2> QED BY <1>1, <1>4, <2>1, <2>2, RepliedInv
<1> QED BY <1>2, <1>4, <1>5 DEF HandleTxReady, IInv, TypeOK, Serves, station, PC

LEMMA HandleTransmitInv ==
  ASSUME IInv, NEW t, NEW m, Serves(t, m), m.type = "transmit", HandleTransmit(t),
         inbox' = Tail(inbox)
  PROVE  IInv'
<1> DEFINE tx == TxWoken(Queued, waiting_can_tx_worker, simple_pacing_can_send)
           all == sent \o tx_buf
<1>1. issued' = issued + 1 /\ issued' \in Nat /\ issued \in Nat /\ responses' = responses
  BY DEF HandleTransmit, IInv, TypeOK
<1>2. Queued \in Seq(Nat) /\ Rising(sent \o Queued) /\ Below(sent \o Queued, issued')
  <2>1. Rising(all) /\ Below(all, issued) /\ all \in Seq(Nat)
    BY NumberedMeans, ConcatProperties DEF IInv, TypeOK
  <2>2. CASE Queued = tx_buf
    <3>1. \A i \in 1..Len(all) : all[i] \in Nat
      BY <2>1, ElementOfSeq
    <3>2. Below(all, issued')
      BY <1>1, <2>1, <3>1 DEF Below
    <3> QED BY <2>1, <2>2, <3>2 DEF IInv, TypeOK
  <2>3. CASE Queued = Append(tx_buf, issued + 1)
    <3>1. sent \o Queued = Append(all, issued + 1) /\ Queued \in Seq(Nat)
      <4>1. tx_buf \in Seq(Nat) /\ sent \in Seq(Nat) /\ issued + 1 \in Nat
        BY <1>1 DEF IInv, TypeOK
      <4> HIDE DEF all
      <4>2. sent \o Append(tx_buf, issued + 1) = Append(sent \o tx_buf, issued + 1)
        BY ONLY <4>1, QueueExtend, SMTT(30)
      <4>3. Append(tx_buf, issued + 1) \in Seq(Nat)
        BY <4>1, AppendProperties
      <4> QED BY <2>3, <4>2, <4>3 DEF all
    <3> QED BY <1>1, <2>1, <3>1, QueueRises
  <2> QED BY <2>2, <2>3 DEF Queued
<1>3. MaybeTx(Queued, waiting_can_tx_worker, simple_pacing_can_send)
  BY DEF HandleTransmit
<1>4. /\ tx_buf' \in Seq(Nat) /\ sent' \in Seq(Nat) /\ tx_cmd' \in Nat
      /\ waiting_can_tx_worker' \in BOOLEAN /\ simple_pacing_can_send' \in BOOLEAN
      /\ waiting_can_tx_worker' => waiting_can_tx_worker /\ tx = {}
      /\ Paces' /\ Numbered'
  BY <1>1, <1>2, <1>3, MaybeTxInv DEF IInv, TypeOK, Paces
<1>5. /\ inbox' \in Seq(Task) /\ msg' \in [Task -> Message] /\ pc' \in [Task -> PC]
      /\ InboxSound' /\ MessagesOwned' /\ WaitersSound' /\ InitFirst' /\ MailboxesOwned'
  <2>1. /\ {t} \cup tx \in SUBSET {t, "tx"} /\ Reply({t} \cup tx, {})
        /\ UNCHANGED <<trees, copy>> /\ exited' = exited
        /\ (tx # {} => waiting_can_tx_worker) /\ ("tx" \in tx <=> tx # {})
    BY DEF TxWoken, HandleTransmit, CanTx
  <2>2. ~Ends(t)
    BY DEF Ends, Serves
  <2>3. waiting_can_tx_worker => t # "tx"
    BY ServedTask DEF Serves
  <2> HIDE DEF tx
  <2> QED BY <1>4, <2>1, <2>2, <2>3, RepliedInv
<1> QED BY <1>1, <1>4, <1>5 DEF HandleTransmit, IInv, TypeOK, Serves, station, PC

(* create gives a tid that no task has had; nobody has a mailbox but trees  *)
(* and, when it failed, NoTid.                                              *)
LEMMA HandleRunTreeInv ==
  ASSUME IInv, NEW t, NEW m, Serves(t, m), m.type = "RunTree", HandleRunTree(t),
         inbox' = Tail(inbox)
  PROVE  IInv'
<1> DEFINE free == Trees \ Started
           tid == IF free # {} THEN CHOOSE k \in free : TRUE ELSE NoTid
           C == {tid} \ {NoTid}
<1>1. /\ t \in Task /\ pc[t] = "sent" /\ Range(Tail(inbox)) = Range(inbox) \ {t}
      /\ Range(inbox) \subseteq Task
      /\ t \in Range(inbox)
      /\ t \notin Waiting
      /\ Waiting \subseteq Trees \ Range(inbox)
  BY ServedTask DEF Serves
<1>2. /\ SetTree(tid) /\ Reply({t}, C)
      /\ UNCHANGED <<tx_buf, waiting_can_tx_worker, simple_pacing_can_send, state, exited,
                     tasks, history>>
  BY DEF HandleRunTree
<1>3. (tid \in Trees /\ pc[tid] = "absent") \/ tid = NoTid
  BY DEF Started
<1>4. C \subseteq Trees /\ \A k \in C : k = tid /\ pc[k] = "absent"
  BY <1>3
<1>5. NoTid \notin Trees /\ "tx" \notin Trees /\ "tx" \in Task /\ Trees \subseteq Task
  BY TrainControlAssumption DEF Task
<1> HIDE DEF tid, C
<1>6. ~Ends(t)
  BY DEF Ends, Serves
<1>7. \A k \in Task : pc'[k] = IF k \in C \/ k = t THEN "run" ELSE pc[k]
  BY <1>2, <1>6 DEF Reply
<1>8. pc' \in [Task -> PC]
  BY <1>2 DEF Reply, IInv, TypeOK, PC
<1>9. \A k \in Range(Tail(inbox)) : pc'[k] = "sent"
  BY <1>1, <1>4, <1>7 DEF IInv, InboxSound
<1>10. inbox' \in Seq(Task) /\ msg' \in [Task -> Message] /\ InboxSound' /\ MessagesOwned'
  BY <1>2, <1>8, <1>9, QueueKept DEF Serves
<1>11. /\ DOMAIN trees' \subseteq DOMAIN trees \cup {tid}
       /\ DOMAIN trees \subseteq DOMAIN trees'
       /\ \A k \in DOMAIN trees' : trees'[k] = trees[k] \/ (k = tid /\ trees'[k] = NewMailbox)
       /\ \A k \in DOMAIN trees : k # tid => trees'[k] = trees[k]
  BY <1>2 DEF SetTree
<1>12. DOMAIN trees' \subseteq Trees \cup {NoTid} /\ trees' \in [DOMAIN trees' -> Mailbox]
  <2>1. DOMAIN trees' \subseteq Trees \cup {NoTid}
    BY <1>3, <1>11 DEF IInv, TypeOK
  <2>2. NewMailbox \in Mailbox
    BY DEF NewMailbox, Mailbox, IInv, TypeOK
  <2>3. trees' = IF tid \in DOMAIN trees \/ Cardinality(DOMAIN trees) < MAX_TREES
           THEN [k \in DOMAIN trees \cup {tid} |-> IF k = tid THEN NewMailbox ELSE trees[k]]
           ELSE trees
    BY <1>2 DEF SetTree
  <2>4. trees' \in [DOMAIN trees' -> Mailbox]
    BY <2>2, <2>3 DEF IInv, TypeOK
  <2> QED BY <2>1, <2>4
<1>13. Waiting' = Waiting
  <2>1. ~NewMailbox.waiting
    BY DEF NewMailbox
  <2>2. tid \notin Waiting
    BY <1>1, <1>3, <1>5 DEF IInv, WaitersSound, Serves
  <2>3. ASSUME NEW k \in DOMAIN trees', trees'[k].waiting PROVE k \in Waiting
    <3>1. trees'[k] = trees[k] /\ trees[k].waiting
      BY <1>11, <2>1, <2>3
    <3>2. k \in DOMAIN trees
      BY <1>2, <1>11, <2>1, <2>3 DEF SetTree
    <3> QED BY <3>1, <3>2 DEF Waiting
  <2>4. ASSUME NEW k \in DOMAIN trees, trees[k].waiting
        PROVE  k \in DOMAIN trees' /\ trees'[k].waiting
    <3>1. k \in Waiting
      BY <2>4 DEF Waiting
    <3> QED BY <1>11, <2>2, <2>4, <3>1
  <2> QED BY <2>3, <2>4 DEF Waiting
<1>14. WaitersSound'
  <2>1. waiting_can_tx_worker' => pc'["tx"] = "sent" /\ "tx" \notin Range(inbox')
    BY <1>1, <1>2, <1>4, <1>5, <1>7 DEF IInv, WaitersSound, Serves
  <2>2. \A k \in Trees : k \in Waiting <=> pc'[k] = "sent" /\ k \notin Range(inbox')
    BY <1>1, <1>4, <1>5, <1>7 DEF IInv, WaitersSound, Serves
  <2>3. \A k \in Waiting : k \in Trees /\ msg[k].type = "Ready" /\ trees[k].msgs = <<>>
                            /\ k # t /\ pc[k] = "sent" /\ k \notin C
    BY <1>1, <1>4 DEF IInv, WaitersSound, Serves
  <2>4. \A k \in Waiting : msg'[k] = msg[k] /\ trees'[k] = trees[k]
    <3>1. \A k \in Waiting : k \in DOMAIN trees /\ k # tid
      BY <1>3, <1>5, <2>3 DEF Waiting
    <3> QED BY <1>5, <1>7, <1>11, <2>3, <3>1 DEF Serves
  <2> QED BY <1>13, <2>1, <2>2, <2>3, <2>4 DEF WaitersSound
<1>15. InitFirst'
  <2>1. NewMailbox.msgs # <<>> /\ NewMailbox.msgs[1].kind = "Init"
    BY DEF NewMailbox
  <2> SUFFICES ASSUME NEW k \in Trees, k \in DOMAIN trees', copy[k] = Unknown,
                      pc'[k] \in {"run", "sent"}
               PROVE  trees'[k].msgs # <<>> /\ trees'[k].msgs[1].kind = "Init"
    BY <1>2 DEF InitFirst, tasks
  <2>2. CASE trees'[k] = NewMailbox
    BY <2>1, <2>2
  <2>3. CASE trees'[k] # NewMailbox
    <3>1. k \in DOMAIN trees /\ trees'[k] = trees[k] /\ k # tid
      BY <1>11, <2>3, <1>2 DEF SetTree
    <3>2. pc[k] \in {"run", "sent"}
      BY <1>1, <1>4, <1>5, <1>7, <3>1
    <3> QED BY <3>1, <3>2 DEF IInv, InitFirst
  <2> QED BY <2>2, <2>3
<1>16. MailboxesOwned'
  BY <1>3, <1>4, <1>5, <1>7, <1>11 DEF IInv, MailboxesOwned, C
<1>17. Paces' /\ Numbered'
  BY <1>2 DEF IInv, Paces, Numbered, history
<1> QED
  BY <1>2, <1>8, <1>10, <1>12, <1>14, <1>15, <1>16, <1>17
  DEF IInv, TypeOK, Serves, station, PC, tasks, history

LEMMA HandleQuitInv ==
  ASSUME IInv, NEW t, NEW m, Serves(t, m), HandleQuit(t), inbox' = <<>>
  PROVE  IInv'
<1> USE DEF HandleQuit, tasks, history
<1>1. pc' \in [Task -> PC]
  BY DEF IInv, TypeOK, PC
<1>2. msg' \in [Task -> Message] /\ MessagesOwned'
  <2>1. NoMsg \in Message
    BY DEF Message
  <2> QED BY <2>1 DEF IInv, TypeOK, Serves, MessagesOwned, NoMsg
<1>3. InboxSound'
  BY QueueEmpty DEF InboxSound
<1>4. DOMAIN trees' = {} /\ trees' \in [DOMAIN trees' -> Mailbox] /\ exited'
  OBVIOUS
<1>5. Numbered'
  BY RisingPrefix, NumberedMeans DEF IInv, TypeOK, Rising, Below, Numbered
<1>6. Paces'
  BY DEF IInv, Paces
<1>7. <<>> \in Seq(Nat) /\ <<>> \in Seq(Task)
  OBVIOUS
<1>8. TypeOK'
  BY <1>1, <1>2, <1>4, <1>7 DEF IInv, TypeOK, Serves, station, PC
<1>9. WaitersSound' /\ InitFirst' /\ MailboxesOwned'
  BY <1>4 DEF WaitersSound, InitFirst, MailboxesOwned
<1> QED BY <1>2, <1>3, <1>5, <1>6, <1>8, <1>9 DEF IInv

(* A tree that asks for a message gets the oldest, or waits when it has     *)
(* none: it has had its Init then.                                          *)
LEMMA HandleReadyInv ==
  ASSUME IInv, NEW t, NEW m, Serves(t, m), m.type = "Ready", HandleReady(t, m),
         inbox' = Tail(inbox)
  PROVE  IInv'
<1>1. /\ t \in Task /\ pc[t] = "sent" /\ Range(Tail(inbox)) = Range(inbox) \ {t}
      /\ Range(inbox) \subseteq Task
      /\ t \in Range(inbox)
      /\ t \notin Waiting
      /\ Waiting \subseteq Trees \ Range(inbox)
      /\ m \in Message
  BY ServedTask DEF Serves
<1>2. t \in Trees /\ m.train \in Nat \cup {Unknown}
  BY <1>1 DEF IInv, MessagesOwned, Serves, Message, NoMsg
<1>3. "tx" \notin Trees /\ "tx" \in Task /\ Trees \subseteq Task
  BY TrainControlAssumption DEF Task
<1>4. UNCHANGED <<tx_buf, waiting_can_tx_worker, simple_pacing_can_send, exited, tx_cmd, history>>
  BY DEF HandleReady
<1>5. Paces' /\ Numbered'
  BY <1>4 DEF IInv, Paces, Numbered, history
<1>6. ~Ends(t)
  BY DEF Ends, Serves
<1>7. ASSUME NEW p \in PC, pc' = [pc EXCEPT ![t] = p]
      PROVE  /\ pc' \in [Task -> PC] /\ inbox' \in Seq(Task) /\ msg' \in [Task -> Message]
             /\ InboxSound' /\ MessagesOwned'
             /\ waiting_can_tx_worker' => pc'["tx"] = "sent" /\ "tx" \notin Range(inbox')
             /\ \A k \in Task : k # t /\ pc[k] = "sent" => msg'[k] = msg[k]
             /\ p = "sent" => msg'[t] = m
             /\ \A k \in Task : pc'[k] = IF k = t THEN p ELSE pc[k]
  <2>1. pc' \in [Task -> PC] /\ \A k \in Task : pc'[k] = IF k = t THEN p ELSE pc[k]
    BY <1>7 DEF IInv, TypeOK, PC
  <2>2. \A k \in Range(Tail(inbox)) : pc'[k] = "sent"
    BY <1>1, <2>1 DEF IInv, InboxSound
  <2>3. inbox' \in Seq(Task) /\ msg' \in [Task -> Message] /\ InboxSound' /\ MessagesOwned'
    BY <1>4, <2>1, <2>2, QueueKept DEF Serves
  <2>4. waiting_can_tx_worker' => pc'["tx"] = "sent" /\ "tx" \notin Range(inbox')
    BY <1>1, <1>2, <1>3, <1>4, <2>1 DEF IInv, WaitersSound, Serves
  <2>5. /\ \A k \in Task : k # t /\ pc[k] = "sent" => msg'[k] = msg[k]
        /\ p = "sent" => msg'[t] = m
    BY <1>1, <2>1 DEF Serves
  <2> QED BY <2>1, <2>3, <2>4, <2>5
<1>8. \A k \in Waiting : k \in Trees /\ k \in Task /\ msg[k].type = "Ready" /\ trees[k].msgs = <<>>
                          /\ k # t /\ pc[k] = "sent" /\ k \in DOMAIN trees
  BY <1>1, <1>3 DEF IInv, WaitersSound, Serves, Waiting
<1>9. \A k \in Trees : k \in Waiting <=> pc[k] = "sent" /\ k \notin Range(inbox)
  BY DEF IInv, WaitersSound, Serves
<1>10. CASE t \notin DOMAIN trees
  <2>1. pc' = [pc EXCEPT ![t] = "failing"] /\ UNCHANGED <<trees, state, copy>>
    BY <1>10 DEF HandleReady
  <2>2. "failing" \in PC
    BY DEF PC
  <2>3. Waiting' = Waiting
    BY <2>1 DEF Waiting
  <2>4. WaitersSound'
    BY <1>1, <1>3, <1>7, <1>8, <1>9, <2>1, <2>2, <2>3 DEF WaitersSound, Serves
  <2>5. InitFirst' /\ MailboxesOwned'
    BY <1>3, <1>7, <1>10, <2>1, <2>2 DEF IInv, InitFirst, MailboxesOwned
  <2> QED
    BY <1>4, <1>5, <1>7, <2>1, <2>2, <2>4, <2>5
    DEF IInv, TypeOK, Serves, station, PC, history
<1>11. CASE t \in DOMAIN trees /\ trees[t].msgs = <<>>
  <2>1. /\ trees' = [trees EXCEPT ![t].waiting = TRUE] /\ UNCHANGED <<pc, copy>>
        /\ state' = IF m.train # Unknown THEN m.train ELSE state
    BY <1>11 DEF HandleReady
  <2>2. state' \in Nat
    BY <1>2, <2>1 DEF IInv, TypeOK
  <2>3. "sent" \in PC /\ pc' = [pc EXCEPT ![t] = "sent"]
    BY <1>1, <2>1 DEF PC, IInv, TypeOK
  <2>4. /\ DOMAIN trees' = DOMAIN trees
        /\ trees'[t].waiting /\ trees'[t].msgs = trees[t].msgs
        /\ \A k \in DOMAIN trees : k # t => trees'[k] = trees[k]
    BY <1>11, <2>1 DEF IInv, TypeOK, Mailbox
  <2>5. trees' \in [DOMAIN trees' -> Mailbox]
    BY <1>11, <2>1 DEF IInv, TypeOK, Mailbox
  <2>6. Waiting' = Waiting \cup {t}
    BY <1>8, <1>11, <2>4 DEF Waiting
  <2>7. WaitersSound'
    <3>1. \A k \in Trees : k \in Waiting' <=> pc'[k] = "sent" /\ k \notin Range(inbox')
      BY <1>1, <1>3, <1>7, <1>9, <2>3, <2>6 DEF Serves
    <3>2. \A k \in Waiting' : k \in Trees /\ msg'[k].type = "Ready" /\ trees'[k].msgs = <<>>
      BY <1>1, <1>2, <1>3, <1>7, <1>8, <1>11, <2>3, <2>4, <2>6 DEF Serves
    <3> QED BY <1>7, <2>3, <3>1, <3>2 DEF WaitersSound
  <2>8. InitFirst'
    <3>1. copy[t] # Unknown
      BY <1>1, <1>2, <1>11 DEF IInv, InitFirst
    <3> QED BY <2>1, <2>4, <3>1 DEF IInv, InitFirst
  <2>9. MailboxesOwned'
    BY <2>1, <2>4 DEF IInv, MailboxesOwned
  <2> QED
    BY <1>4, <1>5, <1>7, <2>1, <2>2, <2>3, <2>4, <2>5, <2>7, <2>8, <2>9
    DEF IInv, TypeOK, Serves, station, PC, history
<1>12. CASE t \in DOMAIN trees /\ trees[t].msgs # <<>>
  <2>1. /\ trees' = [trees EXCEPT ![t].msgs = Tail(trees[t].msgs)]
        /\ copy' = [copy EXCEPT ![t] = state'] /\ Reply({t}, {})
        /\ state' = IF m.train # Unknown THEN m.train ELSE state
    BY <1>12 DEF HandleReady
  <2>2. state' \in Nat
    BY <1>2, <2>1 DEF IInv, TypeOK
  <2>3. "run" \in PC /\ pc' = [pc EXCEPT ![t] = "run"]
    BY <1>1, <1>6, <2>1 DEF PC, IInv, TypeOK, Reply
  <2>4. /\ DOMAIN trees' = DOMAIN trees
        /\ trees'[t].waiting = trees[t].waiting
        /\ \A k \in DOMAIN trees : k # t => trees'[k] = trees[k]
    BY <1>12, <2>1 DEF IInv, TypeOK, Mailbox
  <2>5. trees' \in [DOMAIN trees' -> Mailbox]
    <3> DEFINE M == [kind : {"Init", "Update"}, state : Nat]
    <3>1. trees[t].msgs \in Seq(M) /\ trees \in [DOMAIN trees -> [msgs : Seq(M), waiting : BOOLEAN]]
      BY <1>12 DEF IInv, TypeOK, Mailbox
    <3>2. Tail(trees[t].msgs) \in Seq(M)
      BY <1>12, <3>1, HeadTailProperties
    <3> HIDE DEF M
    <3>3. trees' \in [DOMAIN trees -> [msgs : Seq(M), waiting : BOOLEAN]]
      BY <1>12, <2>1, <3>1, <3>2
    <3> QED BY <2>4, <3>3 DEF Mailbox, M
  <2>6. Waiting' = Waiting
    BY <1>1, <2>4 DEF Waiting
  <2>7. WaitersSound'
    <3>1. \A k \in Trees : k \in Waiting' <=> pc'[k] = "sent" /\ k \notin Range(inbox')
      BY <1>1, <1>3, <1>7, <1>9, <2>3, <2>6 DEF Serves
    <3>2. \A k \in Waiting' : k \in Trees /\ msg'[k].type = "Ready" /\ trees'[k].msgs = <<>>
      BY <1>7, <1>8, <2>3, <2>4, <2>6
    <3> QED BY <1>7, <2>3, <3>1, <3>2 DEF WaitersSound
  <2>8. copy' \in [Trees -> Nat \cup {Unknown}] /\ copy'[t] # Unknown
        /\ \A k \in Trees : k # t => copy'[k] = copy[k]
    BY <1>2, <2>1, <2>2, TrainControlAssumption DEF IInv, TypeOK
  <2>9. InitFirst' /\ MailboxesOwned'
    BY <1>2, <1>3, <1>7, <2>3, <2>4, <2>8 DEF IInv, InitFirst, MailboxesOwned
  <2> QED
    BY <1>4, <1>5, <1>7, <2>2, <2>3, <2>4, <2>5, <2>7, <2>8, <2>9
    DEF IInv, TypeOK, Serves, station, PC, history
<1> QED BY <1>10, <1>11, <1>12

LEMMA HandleExitInv ==
  ASSUME IInv, NEW t, NEW m, Serves(t, m), m.type = "Exit", HandleExit(t), inbox' = Tail(inbox)
  PROVE  IInv'
<1>1. /\ t \in Task /\ pc[t] = "sent" /\ Range(Tail(inbox)) = Range(inbox) \ {t}
      /\ Range(inbox) \subseteq Task
      /\ t \in Range(inbox)
      /\ t \notin Waiting
      /\ Waiting \subseteq Trees \ Range(inbox)
  BY ServedTask DEF Serves
<1>2. t \in Trees /\ Ends(t)
  BY <1>1 DEF IInv, MessagesOwned, Serves, Ends
<1>3. "tx" \notin Trees /\ "tx" \in Task /\ Trees \subseteq Task
  BY TrainControlAssumption DEF Task
<1>4. UNCHANGED <<tx_buf, waiting_can_tx_worker, simple_pacing_can_send, state, exited,
                 tasks, history>>
  BY DEF HandleExit
<1>5. pc' \in [Task -> PC] /\ \A k \in Task : pc'[k] = IF k = t THEN "gone" ELSE pc[k]
  BY <1>2 DEF HandleExit, Reply, IInv, TypeOK, PC
<1>6. \A k \in Range(Tail(inbox)) : pc'[k] = "sent"
  BY <1>1, <1>5 DEF IInv, InboxSound
<1>7. inbox' \in Seq(Task) /\ msg' \in [Task -> Message] /\ InboxSound' /\ MessagesOwned'
  BY <1>4, <1>5, <1>6, QueueKept DEF Serves
<1>8. /\ DOMAIN trees' = DOMAIN trees \ {t}
      /\ \A k \in DOMAIN trees' : trees'[k] = trees[k]
      /\ trees' = [k \in DOMAIN trees \ {t} |-> trees[k]]
  BY DEF HandleExit, TreeRemoved, Restrict
<1>9. DOMAIN trees' \subseteq Trees \cup {NoTid} /\ trees' \in [DOMAIN trees' -> Mailbox]
  <2>1. \A k \in DOMAIN trees : trees[k] \in Mailbox
    BY DEF IInv, TypeOK
  <2>2. trees' \in [DOMAIN trees \ {t} -> Mailbox]
    <3> DEFINE D == DOMAIN trees \ {t}
    <3>1. \A k \in D : trees[k] \in Mailbox
      BY <2>1
    <3>2. trees' = [k \in D |-> trees[k]]
      BY DEF HandleExit, TreeRemoved, Restrict
    <3> HIDE DEF D
    <3>3. trees' \in [D -> Mailbox]
      BY <3>1, <3>2
    <3> QED BY <3>3 DEF D
  <2>3. DOMAIN trees' \subseteq Trees \cup {NoTid}
    BY <1>8 DEF IInv, TypeOK
  <2> QED BY <1>8, <2>2, <2>3
<1>10. Waiting' = Waiting
  BY <1>1, <1>8 DEF Waiting
<1>11. WaitersSound'
  <2>1. waiting_can_tx_worker' => pc'["tx"] = "sent" /\ "tx" \notin Range(inbox')
    BY <1>1, <1>2, <1>3, <1>4, <1>5 DEF IInv, WaitersSound, Serves
  <2>2. \A k \in Trees : k \in Waiting <=> pc'[k] = "sent" /\ k \notin Range(inbox')
    BY <1>1, <1>3, <1>5 DEF IInv, WaitersSound, Serves
  <2>3. \A k \in Waiting : k \in Trees /\ msg[k].type = "Ready" /\ trees[k].msgs = <<>>
                            /\ k # t /\ pc[k] = "sent" /\ k \in DOMAIN trees'
    BY <1>1, <1>8 DEF IInv, WaitersSound, Serves, Waiting
  <2>4. \A k \in Waiting : msg'[k] = msg[k] /\ trees'[k] = trees[k]
    BY <1>3, <1>5, <1>8, <2>3 DEF Serves
  <2> QED BY <1>10, <2>1, <2>2, <2>3, <2>4 DEF WaitersSound
<1>12. InitFirst' /\ MailboxesOwned'
  BY <1>3, <1>4, <1>5, <1>8 DEF IInv, InitFirst, MailboxesOwned, tasks
<1>13. Paces' /\ Numbered'
  BY <1>4 DEF IInv, Paces, Numbered, history
<1> QED
  BY <1>4, <1>5, <1>7, <1>9, <1>11, <1>12, <1>13
  DEF IInv, TypeOK, Serves, station, PC, tasks, history

LEMMA ServeInv == IInv /\ Serve => IInv'
<1> SUFFICES ASSUME IInv, Serve PROVE IInv'
  OBVIOUS
<1> DEFINE t == Head(inbox)
           m == msg[t]
<1>1. Serves(t, m) /\ inbox' = IF m.type = "Quit" THEN <<>> ELSE Tail(inbox)
  BY DEF Serve, Serves
<1>2. \/ m.type = "RX" /\ HandleRx(t, m)
      \/ m.type = "TXReady" /\ HandleTxReady(t)
      \/ m.type = "transmit" /\ HandleTransmit(t)
      \/ m.type = "RunTree" /\ HandleRunTree(t)
      \/ m.type = "Quit" /\ HandleQuit(t)
      \/ m.type = "Ready" /\ HandleReady(t, m)
      \/ m.type = "Tick" /\ HandleTick(t)
      \/ m.type = "Exit" /\ HandleExit(t)
  BY DEF Serve
<1> HIDE DEF t, m
<1>3. CASE m.type = "RX" /\ HandleRx(t, m)
  BY <1>1, <1>3, HandleRxInv
<1>4. CASE m.type = "TXReady" /\ HandleTxReady(t)
  BY <1>1, <1>4, HandleTxReadyInv
<1>5. CASE m.type = "transmit" /\ HandleTransmit(t)
  BY <1>1, <1>5, HandleTransmitInv
<1>6. CASE m.type = "RunTree" /\ HandleRunTree(t)
  BY <1>1, <1>6, HandleRunTreeInv
<1>7. CASE m.type = "Quit" /\ HandleQuit(t)
  BY <1>1, <1>7, HandleQuitInv
<1>8. CASE m.type = "Ready" /\ HandleReady(t, m)
  BY <1>1, <1>8, HandleReadyInv
<1>9. CASE m.type = "Tick" /\ HandleTick(t)
  BY <1>1, <1>9, HandleTickInv
<1>10. CASE m.type = "Exit" /\ HandleExit(t)
  BY <1>1, <1>10, HandleExitInv
<1> QED BY <1>2, <1>3, <1>4, <1>5, <1>6, <1>7, <1>8, <1>9, <1>10

LEMMA NextIInv == IInv /\ [Next]_vars => IInv'
<1> SUFFICES ASSUME IInv, [Next]_vars PROVE IInv'
  OBVIOUS
<1>1. CASE Serve
  BY <1>1, ServeInv
<1>2. CASE TxWorker \/ RxAnswer \/ RxSensor \/ TrainTick \/ Cli \/ \E t \in Trees : TreeStep(t)
  BY <1>2, ClientInv
<1>3. CASE UNCHANGED vars
  BY <1>3 DEF vars, server, tasks, station, history, IInv, TypeOK, Paces, Numbered, InboxSound,
              MessagesOwned, WaitersSound, Waiting, InitFirst, MailboxesOwned
<1> QED BY <1>1, <1>2, <1>3 DEF Next
-----------------------------------------------------------------------------
(* The inductive invariant holds for any number of trees and any capacities. *)
THEOREM TrainControlInvariant == Spec => []IInv
BY InitIInv, NextIInv, PTL DEF Spec

(* Commands go out in the order in which the server accepted them, none     *)
(* twice, and at most one without a response.                               *)
THEOREM TrainControlPacedInOrder == Spec => []PacedInOrder
<1>1. IInv => PacedInOrder
  BY DEF IInv, Paces, Numbered, PacedInOrder
<1> QED BY <1>1, TrainControlInvariant, PTL

(* The server knows exactly the trees that wait for a message, and they     *)
(* have none: publish_tree_update wakes nobody who waits for another answer. *)
THEOREM TrainControlWaitingKnown == Spec => []WaitingTreesKnown
<1>1. IInv => WaitingTreesKnown
  BY DEF IInv, WaitersSound, WaitingTreesKnown
<1> QED BY <1>1, TrainControlInvariant, PTL

(* The first message of a tree is its Init, whatever updates come in before *)
(* it asks for one.                                                         *)
THEOREM TrainControlInitFirst == Spec => []InitFirst
<1>1. IInv => InitFirst
  BY DEF IInv
<1> QED BY <1>1, TrainControlInvariant, PTL

(* No mailbox is left behind by a tree that has ended. *)
THEOREM TrainControlNoDeadMailbox == Spec => []NoDeadMailbox
<1>1. IInv => NoDeadMailbox
  BY DEF IInv, MailboxesOwned, NoDeadMailbox
<1> QED BY <1>1, TrainControlInvariant, PTL
-----------------------------------------------------------------------------
(* Trees.  Induction over the length of a list of leaves: a set of numbers   *)
(* that holds 0 and with each its successor holds all.                      *)
LEMMA SetInduction ==
  ASSUME NEW S \in SUBSET Nat, 0 \in S, \A n \in S : n + 1 \in S
  PROVE  S = Nat
<1> DEFINE R == OpToRel(<, Nat)
<1>1. IsWellFoundedOn(R, Nat)
  BY NatLessThanWellFounded
<1>2. \A x, y \in Nat : x < y => <<x, y>> \in R
  BY DEF OpToRel
<1> HIDE DEF R
<1>3. SUFFICES ASSUME Nat \ S # {} PROVE FALSE
  OBVIOUS
<1>4. PICK n \in Nat \ S : \A y \in Nat \ S : ~ (<<y, n>> \in R)
  <2>1. Nat \ S \subseteq Nat
    OBVIOUS
  <2> QED BY <1>1, <1>3, <2>1, WFMin
<1>5. n # 0 /\ n - 1 \in Nat /\ n - 1 < n
  BY <1>4
<1>6. n - 1 \in S
  BY <1>2, <1>4, <1>5
<1> QED BY <1>4, <1>5, <1>6
-----------------------------------------------------------------------------
(* A Sequence ticks a leaf when the one before it has succeeded; its state   *)
(* after each leaf is a function from the number of leaves.                 *)
LEMMA AfterSuccess == \A n, s : NextLeaf(n, s) = IF s.r = "Success" THEN TickLeaf(n, s) ELSE s
BY DEF Then, NextLeaf

LEMMA Ticked ==
  ASSUME NEW s, NEW leaves, Len(leaves) \in Nat
  PROVE  \E f : /\ f[0] = s /\ \A k \in 1 .. Len(leaves) : f[k] = NextLeaf(leaves[k], f[k - 1])
                /\ Sequence(leaves, s) = f[Len(leaves)]
<1> DEFINE Is(f, m) == f = [k \in 0 .. m |-> IF k = 0 THEN s ELSE NextLeaf(leaves[k], f[k - 1])]
           S == {m \in Nat : \E f : Is(f, m)}
<1>1. 0 \in S
  <2>1. Is([k \in 0 .. 0 |-> s], 0)
    OBVIOUS
  <2> QED BY <2>1
<1>2. ASSUME NEW m \in S PROVE m + 1 \in S
  <2>1. PICK f : Is(f, m)
    OBVIOUS
  <2> DEFINE g == [k \in 0 .. (m + 1) |-> IF k <= m THEN f[k] ELSE NextLeaf(leaves[m + 1], f[m])]
  <2>2. m \in Nat
    OBVIOUS
  <2>3. Is(g, m + 1)
    <3>1. ASSUME NEW k \in 0 .. (m + 1)
          PROVE  g[k] = IF k = 0 THEN s ELSE NextLeaf(leaves[k], g[k - 1])
      <4>1. CASE k <= m
        BY <2>1, <2>2, <4>1
      <4>2. CASE k = m + 1
        BY <2>1, <2>2, <4>2
      <4> QED BY <2>2, <4>1, <4>2
    <3> QED BY <3>1
  <2> HIDE DEF Is
  <2> QED BY <2>2, <2>3
<1>3. S = Nat
  BY <1>1, <1>2, SetInduction
<1>4. Len(leaves) \in S
  BY <1>3
<1>5. PICK f : Is(f, Len(leaves))
  BY <1>4
<1> DEFINE c == CHOOSE h : Is(h, Len(leaves))
<1>6. Is(c, Len(leaves))
  BY <1>5
<1>7. Sequence(leaves, s) = c[Len(leaves)]
  BY DEF Sequence
<1> HIDE DEF c
<1>8. c[0] = s /\ \A k \in 1 .. Len(leaves) : c[k] = NextLeaf(leaves[k], c[k - 1])
  BY <1>6
<1> QED BY <1>7, <1>8

-----------------------------------------------------------------------------
(* What each leaf does with the record s of a tick, as a relation to the    *)
(* record u that it gives: the proofs about the turn and the speed use these *)
(* relations, and not the definitions of the leaves.                        *)
LocoState == [speed : Nat, back : BOOLEAN, rolls : BOOLEAN]
StepState ==
  [r : {"Success", "Running"}, nodes : NodesState, loco : LocoState, out : Seq(Command),
   event : {"answer", "sensor", "tick"}, counted : BOOLEAN,
   reserved : {"short", "some", "all"}, near : BOOLEAN]

\* What a leaf leaves alone, and the nodes that only a latch changes.
SameTrain(s, u) == u.loco = s.loco /\ u.reserved = s.reserved /\ u.near = s.near /\ u.event = s.event
Same(s, u) == SameTrain(s, u) /\ u.counted = s.counted
LatchOnly(a, b, n) ==
  /\ b.stopped = a.stopped /\ b.go = a.go /\ b.stopping = a.stopping
  /\ b.turn = a.turn /\ b.back = a.back /\ b.again = a.again /\ b.times = a.times
  /\ \A m \in Setters \ {n} : b.latch[m] = a.latch[m]

\* What Set does: the command is confirmed, awaited, or sent.
Confirmed(l, now, v) == l.done \/ (l.sent /\ now = v)
SetDone(n, now, v, s, u) ==
  /\ Confirmed(s.nodes.latch[n], now, v)
  /\ u.r = "Success" /\ u.out = s.out /\ u.nodes.latch[n].sent /\ u.nodes.latch[n].done
SetWaits(n, now, v, s, u) ==
  /\ ~Confirmed(s.nodes.latch[n], now, v)
  /\ u.r = "Running" /\ u.out = s.out /\ u.nodes = s.nodes /\ s.nodes.latch[n].sent
SetSends(n, now, v, s, u, c) ==
  /\ ~Confirmed(s.nodes.latch[n], now, v)
  /\ u.r = "Running" /\ u.out = Append(s.out, c)
  /\ u.nodes.latch[n].sent /\ ~u.nodes.latch[n].done
SetRel(n, now, v, s, u, c) ==
  /\ u \in StepState /\ Same(s, u) /\ LatchOnly(s.nodes, u.nodes, n)
  /\ SetDone(n, now, v, s, u) \/ SetWaits(n, now, v, s, u) \/ SetSends(n, now, v, s, u, c)


WithLatch(s, r, n, l) == [Returns(s, r) EXCEPT !.nodes.latch[n] = l]
Pressed == [sent |-> TRUE, done |-> TRUE, age |-> 0]
Asked(l) == [l EXCEPT !.sent = TRUE, !.age = 0]
CommandOf(what, value, once) == [what |-> what, value |-> value, once |-> once]
Plain(what, value) == CommandOf(what, value, FALSE)
Now(s, what) == s.loco[what]

LEMMA LatchSet ==
  \A s \in StepState : \A n \in Setters : \A l \in Latch : \A r \in {"Success", "Running"} :
    /\ WithLatch(s, r, n, l) \in StepState /\ Same(s, WithLatch(s, r, n, l))
    /\ LatchOnly(s.nodes, WithLatch(s, r, n, l).nodes, n)
    /\ WithLatch(s, r, n, l).nodes.latch[n] = l
    /\ WithLatch(s, r, n, l).out = s.out /\ WithLatch(s, r, n, l).r = r
<1> SUFFICES ASSUME NEW s \in StepState, NEW n \in Setters, NEW l \in Latch, NEW r \in {"Success", "Running"}
             PROVE  /\ WithLatch(s, r, n, l) \in StepState /\ Same(s, WithLatch(s, r, n, l))
                    /\ LatchOnly(s.nodes, WithLatch(s, r, n, l).nodes, n)
                    /\ WithLatch(s, r, n, l).nodes.latch[n] = l
                    /\ WithLatch(s, r, n, l).out = s.out /\ WithLatch(s, r, n, l).r = r
  OBVIOUS
<1>1. PICK nd \in NodesState : nd = [s.nodes EXCEPT !.latch = [s.nodes.latch EXCEPT ![n] = l]]
  BY DEF StepState, NodesState
<1>2. WithLatch(s, r, n, l) = [s EXCEPT !.r = r, !.nodes = nd]
  BY <1>1 DEF StepState, WithLatch, Returns
<1>3. LatchOnly(s.nodes, nd, n) /\ nd.latch[n] = l
  BY <1>1 DEF StepState, NodesState, LatchOnly
<1> QED BY <1>2, <1>3 DEF StepState, Same, SameTrain

LEMMA SendsFacts ==
  \A s \in StepState : \A what, value, once :
    CommandOf(what, value, once) \in Command =>
      /\ Sends(s, what, value, once) \in StepState /\ Same(s, Sends(s, what, value, once))
      /\ Sends(s, what, value, once).nodes = s.nodes /\ Sends(s, what, value, once).r = s.r
      /\ Sends(s, what, value, once).out = Append(s.out, CommandOf(what, value, once))
<1> SUFFICES ASSUME NEW s \in StepState, NEW what, NEW value, NEW once,
                    CommandOf(what, value, once) \in Command
             PROVE  /\ Sends(s, what, value, once) \in StepState /\ Same(s, Sends(s, what, value, once))
                    /\ Sends(s, what, value, once).nodes = s.nodes /\ Sends(s, what, value, once).r = s.r
                    /\ Sends(s, what, value, once).out = Append(s.out, CommandOf(what, value, once))
  OBVIOUS
<1>0. PICK c \in Command : c = CommandOf(what, value, once)
  OBVIOUS
<1>1. Sends(s, what, value, once) = [s EXCEPT !.out = Append(s.out, c)]
  BY <1>0 DEF Sends, CommandOf
<1>2. Append(s.out, c) \in Seq(Command)
  BY AppendProperties DEF StepState
<1> QED BY <1>0, <1>1, <1>2 DEF StepState, Same, SameTrain

LEMMA LatchFacts ==
  \A s \in StepState : \A n \in Setters :
    /\ s.nodes.latch[n] \in Latch /\ Pressed \in Latch /\ Pressed.sent /\ Pressed.done
    /\ Asked(s.nodes.latch[n]) \in Latch /\ Asked(s.nodes.latch[n]).sent
    /\ Asked(s.nodes.latch[n]).done = s.nodes.latch[n].done
<1>1. \A l \in Latch : Asked(l) \in Latch /\ Asked(l).sent /\ Asked(l).done = l.done
  BY DEF Latch, Asked
<1>2. Pressed \in Latch /\ Pressed.sent /\ Pressed.done
  BY DEF Latch, Pressed
<1>3. \A s \in StepState : \A n \in Setters : s.nodes.latch[n] \in Latch
  BY DEF StepState, NodesState
<1> QED BY <1>1, <1>2, <1>3

LEMMA SetCases ==
  \A s, n, what, v :
    Set(n, what, v, s) =
      IF Confirmed(s.nodes.latch[n], Now(s, what), v) THEN WithLatch(s, "Success", n, Pressed)
      ELSE IF s.nodes.latch[n].sent /\ s.nodes.latch[n].age <= RETRY THEN Returns(s, "Running")
      ELSE Sends([Returns(s, "Running") EXCEPT !.nodes.latch[n] = Asked(@)], what, v, FALSE)
BY DEF Set, Confirmed, Now, WithLatch, Pressed, Asked

LEMMA AskedLatch ==
  \A s \in StepState : \A n \in Setters :
    [Returns(s, "Running") EXCEPT !.nodes.latch[n] = Asked(@)]
      = WithLatch(s, "Running", n, Asked(s.nodes.latch[n]))
BY DEF StepState, NodesState, WithLatch, Returns

LEMMA ReturnsFacts ==
  \A s \in StepState : \A r \in {"Success", "Running"} :
    /\ Returns(s, r) \in StepState /\ Same(s, Returns(s, r))
    /\ Returns(s, r).nodes = s.nodes /\ Returns(s, r).out = s.out /\ Returns(s, r).r = r
BY DEF Returns, StepState, Same, SameTrain

LEMMA SetFacts ==
  ASSUME NEW s \in StepState, NEW n \in Setters, NEW what, NEW v,
         Plain(what, v) \in Command
  PROVE  SetRel(n, Now(s, what), v, s, Set(n, what, v, s), Plain(what, v))
<1>0. PICK u : u = Set(n, what, v, s)
  OBVIOUS
<1>1. PICK l : l = s.nodes.latch[n]
  OBVIOUS
<1>2. PICK m \in Latch : m = Asked(l) /\ m.sent /\ m.done = l.done
  BY <1>1, LatchFacts
<1>3. PICK now : now = Now(s, what)
  OBVIOUS
<1>4. PICK c : c = Plain(what, v)
  OBVIOUS
<1>5. CASE Confirmed(l, now, v)
  <2>1. u = WithLatch(s, "Success", n, Pressed) /\ Pressed \in Latch /\ Pressed.sent /\ Pressed.done
    BY <1>0, <1>1, <1>3, <1>5, SetCases, LatchFacts
  <2>2. /\ u \in StepState /\ Same(s, u) /\ LatchOnly(s.nodes, u.nodes, n)
        /\ u.nodes.latch[n] = Pressed /\ u.out = s.out /\ u.r = "Success"
    BY <2>1, LatchSet
  <2> QED BY <1>0, <1>1, <1>3, <1>5, <2>1, <2>2 DEF SetRel, SetDone
<1>6. CASE ~Confirmed(l, now, v) /\ l.sent /\ l.age <= RETRY
  <2>1. u = Returns(s, "Running")
    BY <1>0, <1>1, <1>3, <1>6, SetCases
  <2>2. u \in StepState /\ Same(s, u) /\ u.nodes = s.nodes /\ u.out = s.out /\ u.r = "Running"
    BY <2>1, ReturnsFacts
  <2>3. LatchOnly(s.nodes, u.nodes, n)
    BY <2>2 DEF LatchOnly
  <2> QED BY <1>0, <1>1, <1>3, <1>6, <2>2, <2>3 DEF SetRel, SetWaits
<1>7. CASE ~Confirmed(l, now, v) /\ ~(l.sent /\ l.age <= RETRY)
  <2>1. PICK w : w = WithLatch(s, "Running", n, m)
    OBVIOUS
  <2>2. u = Sends(w, what, v, FALSE)
    BY <1>0, <1>1, <1>2, <1>3, <1>7, <2>1, SetCases, AskedLatch
  <2>4. /\ w \in StepState /\ Same(s, w) /\ LatchOnly(s.nodes, w.nodes, n)
        /\ w.nodes.latch[n] = m /\ w.out = s.out /\ w.r = "Running"
    BY <2>1, LatchSet
  <2>5. PICK once : once = FALSE
    OBVIOUS
  <2>6. u \in StepState /\ Same(w, u) /\ u.nodes = w.nodes /\ u.r = w.r /\ u.out = Append(w.out, c)
    <3>1. CommandOf(what, v, once) \in Command /\ u = Sends(w, what, v, once) /\ c = CommandOf(what, v, once)
      BY <1>4, <2>2, <2>5 DEF Plain
    <3> QED BY <2>4, <3>1, SendsFacts
  <2>7. ~l.done
    BY <1>7 DEF Confirmed
  <2>8. SetSends(n, now, v, s, u, c)
    BY <1>1, <1>2, <1>7, <2>4, <2>6, <2>7 DEF SetSends
  <2> QED BY <1>0, <1>3, <1>4, <2>4, <2>6, <2>8 DEF SetRel, Same, SameTrain
<1> QED BY <1>5, <1>6, <1>7

\* The other leaves.
Once(v) == CommandOf("speed", v, TRUE)
ReserveRel(s, u) ==
  /\ u \in StepState /\ Same(s, u) /\ u.nodes.latch = s.nodes.latch
  /\ u.nodes.stopping = s.nodes.stopping /\ u.nodes.turn = s.nodes.turn
  /\ u.nodes.back = s.nodes.back /\ u.nodes.again = s.nodes.again
  /\ \/ /\ s.reserved = "short" /\ ~s.nodes.stopped /\ u.nodes.stopped
        /\ u.nodes.go = s.nodes.go \/ u.nodes.go > 0
        /\ u.r = "Running" /\ u.out = Append(s.out, Once(0))
     \/ /\ s.nodes.stopped /\ u.nodes = s.nodes /\ u.r = "Running" /\ u.out = s.out
     \/ /\ s.reserved # "short" /\ s.nodes.stopped /\ ~u.nodes.stopped /\ u.nodes.go = s.nodes.go
        /\ u.out = Append(s.out, Once(s.nodes.go))
     \/ /\ ~s.nodes.stopped /\ u.nodes = s.nodes /\ u.r = "Success" /\ u.out = s.out

RepeatRel(n, s, u) ==
  /\ u \in StepState /\ SameTrain(s, u) /\ u.out = s.out
  /\ \/ /\ s.nodes.times[n] = 0 \/ s.event # "sensor"
        /\ u.nodes = s.nodes /\ u.counted = s.counted
        /\ u.r = "Success" <=> s.nodes.times[n] = 0
     \/ /\ s.nodes.times[n] > 0 /\ s.event = "sensor" /\ u.counted
        /\ u.nodes.latch = s.nodes.latch /\ u.nodes.stopped = s.nodes.stopped
        /\ u.nodes.turn = s.nodes.turn /\ u.nodes.back = s.nodes.back /\ u.nodes.again = s.nodes.again
        /\ u.nodes.times = [s.nodes.times EXCEPT ![n] = s.nodes.times[n] - 1]
        /\ u.r = "Success" <=> s.nodes.times[n] = 1

LEMMA CommandFacts ==
  /\ \A v \in Nat : Plain("speed", v) \in Command /\ Once(v) \in Command
  /\ \A v \in BOOLEAN : Plain("back", v) \in Command
BY DEF Plain, Once, CommandOf, Command

LEMMA ReserveFacts ==
  ASSUME NEW s \in StepState PROVE ReserveRel(s, Reserve(s))
<1>1. CASE s.reserved = "short" /\ ~s.nodes.stopped
  <2>1. PICK g \in Nat : g = IF s.loco.speed > 0 THEN s.loco.speed ELSE s.nodes.go
    BY DEF StepState, LocoState, NodesState
  <2>2. PICK nd \in NodesState : nd = [s.nodes EXCEPT !.stopped = TRUE, !.go = g]
    BY <2>1 DEF StepState, NodesState
  <2>3. PICK w : w = [s EXCEPT !.r = "Running", !.nodes = nd]
    OBVIOUS
  <2>4. w \in StepState /\ Same(s, w) /\ w.nodes = nd /\ w.r = "Running" /\ w.out = s.out
    BY <2>3 DEF StepState, Same, SameTrain
  <2>5. PICK once : once = TRUE
    OBVIOUS
  <2>6. Reserve(s) = Sends(w, "speed", 0, once)
    BY <1>1, <2>1, <2>2, <2>3, <2>5 DEF Reserve, Returns, StepState, NodesState
  <2>7. CommandOf("speed", 0, once) = Once(0) /\ Once(0) \in Command
    BY <2>5, CommandFacts DEF Once
  <2>8. PICK u : u = Reserve(s)
    OBVIOUS
  <2>9. u \in StepState /\ Same(w, u) /\ u.nodes = nd /\ u.r = "Running" /\ u.out = Append(s.out, Once(0))
    BY <2>4, <2>6, <2>7, <2>8, SendsFacts
  <2>10. /\ nd.latch = s.nodes.latch /\ nd.stopping = s.nodes.stopping /\ nd.turn = s.nodes.turn
         /\ nd.back = s.nodes.back /\ nd.again = s.nodes.again /\ nd.stopped /\ nd.go = g
    BY <2>2 DEF StepState, NodesState
  <2>11. g = s.nodes.go \/ g > 0
    BY <2>1
  <2> QED BY <1>1, <2>4, <2>8, <2>9, <2>10, <2>11 DEF ReserveRel, Same, SameTrain
<1>2. CASE s.reserved = "short" /\ s.nodes.stopped
  <2>1. Reserve(s) = Returns(s, "Running")
    BY <1>2 DEF Reserve
  <2> QED BY <1>2, <2>1, ReturnsFacts DEF ReserveRel
<1>3. CASE s.reserved # "short" /\ s.nodes.stopped
  <2>1. PICK r \in {"Success", "Running"} : r = IF s.reserved = "all" THEN "Success" ELSE "Running"
    OBVIOUS
  <2>2. PICK nd \in NodesState : nd = [s.nodes EXCEPT !.stopped = FALSE]
    BY DEF StepState, NodesState
  <2>3. PICK w : w = [s EXCEPT !.r = r, !.nodes = nd]
    OBVIOUS
  <2>4. w \in StepState /\ Same(s, w) /\ w.nodes = nd /\ w.r = r /\ w.out = s.out
    BY <2>1, <2>3 DEF StepState, Same, SameTrain
  <2>5. PICK once : once = TRUE
    OBVIOUS
  <2>6. Reserve(s) = Sends(w, "speed", s.nodes.go, once)
    BY <1>3, <2>1, <2>2, <2>3, <2>5 DEF Reserve, Returns, StepState, NodesState
  <2>7. CommandOf("speed", s.nodes.go, once) = Once(s.nodes.go) /\ Once(s.nodes.go) \in Command
    BY <2>5, CommandFacts DEF Once, StepState, NodesState
  <2>8. PICK u : u = Reserve(s)
    OBVIOUS
  <2>9. u \in StepState /\ Same(w, u) /\ u.nodes = nd /\ u.r = r /\ u.out = Append(s.out, Once(s.nodes.go))
    BY <2>4, <2>6, <2>7, <2>8, SendsFacts
  <2>10. /\ nd.latch = s.nodes.latch /\ nd.stopping = s.nodes.stopping /\ nd.turn = s.nodes.turn
         /\ nd.back = s.nodes.back /\ nd.again = s.nodes.again /\ ~nd.stopped /\ nd.go = s.nodes.go
    BY <2>2 DEF StepState, NodesState
  <2> QED BY <1>3, <2>4, <2>8, <2>9, <2>10 DEF ReserveRel, Same, SameTrain
<1>4. CASE s.reserved # "short" /\ ~s.nodes.stopped
  <2>1. Reserve(s) = Returns(s, "Success")
    BY <1>4 DEF Reserve
  <2> QED BY <1>4, <2>1, ReturnsFacts DEF ReserveRel
<1> QED BY <1>1, <1>2, <1>3, <1>4

LEMMA RepeatFacts ==
  ASSUME NEW s \in StepState, NEW n \in Repeats PROVE RepeatRel(n, s, RepeatTick(n, s))
<1>0. s.nodes.times[n] \in Nat
  BY DEF StepState, NodesState
<1>1. CASE s.nodes.times[n] = 0
  BY <1>1, ReturnsFacts DEF RepeatTick, RepeatRel, Same, SameTrain
<1>2. CASE s.nodes.times[n] > 0 /\ s.event = "sensor"
  <2>1. PICK left \in Nat : left = s.nodes.times[n] - 1
    BY <1>0, <1>2
  <2>2. PICK r \in {"Success", "Running"} : r = IF left > 0 THEN "Running" ELSE "Success"
    OBVIOUS
  <2>3. PICK times \in [Repeats -> Nat] : times = [s.nodes.times EXCEPT ![n] = left]
    BY DEF StepState, NodesState
  <2>4. PICK nd \in NodesState : nd = [s.nodes EXCEPT !.times = times]
    BY DEF StepState, NodesState
  <2>5. PICK w : w = [s EXCEPT !.r = r, !.nodes = nd, !.counted = TRUE]
    OBVIOUS
  <2>6. RepeatTick(n, s) = w
    BY <1>2, <2>1, <2>2, <2>3, <2>4, <2>5 DEF RepeatTick, Returns, StepState, NodesState
  <2>7. /\ nd.latch = s.nodes.latch /\ nd.stopped = s.nodes.stopped /\ nd.turn = s.nodes.turn
        /\ nd.back = s.nodes.back /\ nd.again = s.nodes.again /\ nd.times = times
    BY <2>4 DEF StepState, NodesState
  <2>8. w \in StepState /\ SameTrain(s, w) /\ w.nodes = nd /\ w.out = s.out /\ w.counted /\ w.r = r
    BY <2>2, <2>5 DEF StepState, SameTrain
  <2>9. r = "Success" <=> s.nodes.times[n] = 1
    BY <1>0, <2>1, <2>2
  <2>10. times = [s.nodes.times EXCEPT ![n] = s.nodes.times[n] - 1]
    BY <2>1, <2>3
  <2> HIDE <2>6
  <2> QED BY <1>2, <2>6, <2>7, <2>8, <2>9, <2>10 DEF RepeatRel
<1>3. CASE s.nodes.times[n] > 0 /\ s.event # "sensor"
  BY <1>3, ReturnsFacts DEF RepeatTick, RepeatRel, Same, SameTrain
<1> QED BY <1>0, <1>1, <1>2, <1>3

\* Two records of the nodes that differ in the fields that are named.
SameLatches(a, b) == b.latch = a.latch
SameRun(a, b)  == b.stopped = a.stopped /\ b.go = a.go /\ b.stopping = a.stopping /\ b.times = a.times
SameTurn(a, b) == b.turn = a.turn /\ b.back = a.back /\ b.again = a.again

StopRel(s, u) ==
  \/ u \in StepState /\ Same(s, u) /\ u.nodes = s.nodes /\ u.out = s.out /\ u.r = "Running"
  \/ \E i, d \in StepState :
       /\ Same(s, i) /\ i.out = s.out /\ SameLatches(s.nodes, i.nodes) /\ SameTurn(s.nodes, i.nodes)
       /\ i.nodes.stopped = s.nodes.stopped /\ i.nodes.go = s.nodes.go /\ i.nodes.stopping
       /\ SetRel("done", i.loco.speed, 0, i, d, Plain("speed", 0))
       /\ u \in StepState /\ Same(d, u) /\ u.nodes = d.nodes /\ u.out = d.out
       /\ u.r = "Success" => d.r = "Success"

LEMMA StopFacts ==
  ASSUME NEW s \in StepState PROVE StopRel(s, StopAtDone(s))
<1>1. CASE ~s.near /\ ~s.nodes.stopping
  BY <1>1, ReturnsFacts DEF StopAtDone, StopRel
<1>2. CASE ~(~s.near /\ ~s.nodes.stopping)
  <2>1. PICK nd \in NodesState : nd = [s.nodes EXCEPT !.stopping = TRUE]
    BY DEF StepState, NodesState
  <2>2. PICK i \in StepState : i = [s EXCEPT !.nodes = nd]
    BY DEF StepState
  <2>3. Same(s, i) /\ i.out = s.out /\ i.nodes = nd
    BY <2>2 DEF StepState, Same, SameTrain
  <2>4. /\ SameLatches(s.nodes, nd) /\ SameTurn(s.nodes, nd)
        /\ nd.stopped = s.nodes.stopped /\ nd.go = s.nodes.go /\ nd.stopping
    BY <2>1 DEF StepState, NodesState, SameLatches, SameTurn
  <2>5. PICK d : d = Set("done", "speed", 0, i)
    OBVIOUS
  <2>6. SetRel("done", i.loco.speed, 0, i, d, Plain("speed", 0))
    <3>1. "done" \in Setters /\ Plain("speed", 0) \in Command
      BY CommandFacts DEF Setters
    <3> QED BY <2>5, <3>1, SetFacts DEF Now
  <2>7. d \in StepState
    BY <2>6 DEF SetRel
  <2>8. [s EXCEPT !.nodes.stopping = TRUE] = i
    BY <2>1, <2>2 DEF StepState, NodesState
  <2>9. StopAtDone(s) = IF d.r = "Success" THEN Returns(d, IF d.loco.rolls THEN "Running" ELSE "Success") ELSE d
    <3>1. StopAtDone(s) = Then(d, LAMBDA t : Returns(t, IF t.loco.rolls THEN "Running" ELSE "Success"))
      BY <1>2, <2>5, <2>8 DEF StopAtDone
    <3> HIDE <2>5
    <3> QED BY <3>1 DEF Then
  <2>10. PICK u : u = StopAtDone(s)
    OBVIOUS
  <2>11. u \in StepState /\ Same(d, u) /\ u.nodes = d.nodes /\ u.out = d.out /\ (u.r = "Success" => d.r = "Success")
    BY <2>7, <2>9, <2>10, ReturnsFacts DEF Same, SameTrain
  <2> QED BY <2>3, <2>4, <2>6, <2>7, <2>10, <2>11 DEF StopRel
<1> QED BY <1>1, <1>2

\* The start of ReverseTree, and its end in PathToNode.
InitRel(s, i) ==
  /\ i \in StepState /\ Same(s, i) /\ i.out = s.out /\ i.r = s.r
  /\ SameLatches(s.nodes, i.nodes) /\ SameRun(s.nodes, i.nodes) /\ i.nodes.turn = "turning"
  /\ IF s.nodes.turn = "wanted" THEN i.nodes.back = ~s.loco.back /\ i.nodes.again = s.loco.speed
     ELSE i.nodes.back = s.nodes.back /\ i.nodes.again = s.nodes.again
FinishRel(t, u) ==
  /\ u \in StepState /\ Same(t, u) /\ u.out = t.out /\ u.r = t.r
  /\ SameRun(t.nodes, u.nodes) /\ u.nodes.turn = "done" /\ u.nodes.back = t.nodes.back
  /\ \A n \in Setters \ Turning : u.nodes.latch[n] = t.nodes.latch[n]
  /\ \A n \in Turning : ~u.nodes.latch[n].sent /\ ~u.nodes.latch[n].done

LEMMA InitFacts ==
  ASSUME NEW s \in StepState, s.nodes.turn \in {"wanted", "turning"}
  PROVE  InitRel(s, Initialized(s))
<1>1. CASE s.nodes.turn = "wanted"
  <2>0. PICK b \in BOOLEAN : b = ~s.loco.back
    OBVIOUS
  <2>1. PICK nd \in NodesState : nd = [s.nodes EXCEPT !.turn = "turning", !.back = b, !.again = s.loco.speed]
    BY DEF StepState, NodesState, LocoState
  <2>2. PICK i \in StepState : i = [s EXCEPT !.nodes = nd]
    BY DEF StepState
  <2>3. Initialized(s) = i
    <3>1. Initialized(s) = [s EXCEPT !.nodes.turn = "turning", !.nodes.back = b, !.nodes.again = s.loco.speed]
      BY <1>1, <2>0 DEF Initialized
    <3> QED BY <2>1, <2>2, <3>1 DEF StepState, NodesState
  <2>4. Same(s, i) /\ i.out = s.out /\ i.r = s.r /\ i.nodes = nd
    BY <2>2 DEF StepState, Same, SameTrain
  <2>5. /\ SameLatches(s.nodes, nd) /\ SameRun(s.nodes, nd) /\ nd.turn = "turning"
        /\ nd.back = ~s.loco.back /\ nd.again = s.loco.speed
    BY <2>0, <2>1 DEF StepState, NodesState, SameLatches, SameRun
  <2> QED BY <1>1, <2>3, <2>4, <2>5 DEF InitRel
<1>2. CASE s.nodes.turn = "turning"
  BY <1>2 DEF Initialized, InitRel, Same, SameTrain, SameLatches, SameRun
<1> QED BY <1>1, <1>2

Finished(t) == [t EXCEPT !.nodes.turn = "done", !.nodes.again = 0,
                         !.nodes.latch = [n \in Setters |-> IF n \in Turning THEN Fresh ELSE @[n]]]

LEMMA FinishFacts ==
  ASSUME NEW t \in StepState PROVE FinishRel(t, Finished(t))
<1>1. PICK l \in [Setters -> Latch] : l = [n \in Setters |-> IF n \in Turning THEN Fresh ELSE t.nodes.latch[n]]
  BY DEF StepState, NodesState, Fresh, Latch
<1>2. PICK nd \in NodesState : nd = [t.nodes EXCEPT !.turn = "done", !.again = 0, !.latch = l]
  BY DEF StepState, NodesState
<1>3. PICK u \in StepState : u = [t EXCEPT !.nodes = nd]
  BY DEF StepState
<1>4. Finished(t) = u
  BY <1>1, <1>2, <1>3 DEF Finished, StepState, NodesState
<1>5. Same(t, u) /\ u.out = t.out /\ u.r = t.r /\ u.nodes = nd
  BY <1>3 DEF StepState, Same, SameTrain
<1>6. SameRun(t.nodes, nd) /\ nd.turn = "done" /\ nd.back = t.nodes.back /\ nd.latch = l
  BY <1>2 DEF StepState, NodesState, SameRun
<1>7. /\ \A n \in Setters \ Turning : l[n] = t.nodes.latch[n]
      /\ \A n \in Turning : ~l[n].sent /\ ~l[n].done
  BY <1>1 DEF Fresh, Setters
<1> QED BY <1>4, <1>5, <1>6, <1>7 DEF FinishRel

\* PathToNode: the train stops, then turns, then goes on, and has turned.
TurnRel(i, u) ==
  \/ /\ i.loco.rolls
     /\ \E d \in StepState :
          /\ SetRel("turn_stop", i.loco.speed, 0, i, d, Plain("speed", 0))
          /\ u \in StepState /\ Same(d, u) /\ u.nodes = d.nodes /\ u.out = d.out /\ u.r = "Running"
  \/ /\ ~i.loco.rolls
     /\ \E d \in StepState :
          /\ SetRel("turn", i.loco.back, i.nodes.back, i, d, Plain("back", i.nodes.back))
          /\ \/ d.r = "Running" /\ u = d
             \/ /\ d.r = "Success"
                /\ \E g \in StepState :
                     /\ \/ d.nodes.again = 0 /\ g = d
                        \/ d.nodes.again > 0 /\ SetRel("turn_go", d.loco.speed, d.nodes.again, d, g,
                                                       Plain("speed", d.nodes.again))
                     /\ \/ g.r = "Running" /\ u = g
                        \/ g.r = "Success" /\ FinishRel(g, u)
PathRel(s, u) ==
  \/ /\ s.nodes.turn \in {"none", "done"} /\ u \in StepState /\ Same(s, u)
     /\ u.nodes = s.nodes /\ u.out = s.out /\ u.r = "Success"
  \/ /\ s.nodes.turn \in {"wanted", "turning"}
     /\ \E i \in StepState : InitRel(s, i) /\ TurnRel(i, u)

LEMMA PathFacts ==
  ASSUME NEW s \in StepState, s.r = "Success" PROVE PathRel(s, PathToNode(s))
<1>0. PICK u : u = PathToNode(s)
  OBVIOUS
<1>1. CASE s.nodes.turn \in {"none", "done"}
  <2>1. PathToNode(s) = Returns(s, "Success")
    BY <1>1 DEF PathToNode
  <2> QED BY <1>1, <2>1, ReturnsFacts DEF PathRel
<1>2. CASE s.nodes.turn \in {"wanted", "turning"}
  <2>1. PICK i \in StepState : i = Initialized(s) /\ InitRel(s, i) /\ i.r = "Success"
    <3>1. InitRel(s, Initialized(s))
      BY <1>2, InitFacts
    <3> QED BY <3>1 DEF InitRel
  <2>2. PICK t : t = ReverseTree(s)
    OBVIOUS
  <2>3. u = IF t.r = "Success" THEN Finished(t) ELSE t
    <3>1. u = Then(t, LAMBDA x : Finished(x))
      BY <1>0, <1>2, <2>2 DEF PathToNode, Finished
    <3> HIDE <2>2
    <3> QED BY <3>1 DEF Then
  <2>4. t = IF i.loco.rolls THEN Returns(Set("turn_stop", "speed", 0, i), "Running")
            ELSE Then(Set("turn", "back", i.nodes.back, i),
                      LAMBDA d : IF i.nodes.again > 0 THEN Set("turn_go", "speed", i.nodes.again, d) ELSE d)
    <3>1. t = Then(i, LAMBDA x : IF x.loco.rolls THEN Returns(Set("turn_stop", "speed", 0, x), "Running")
                  ELSE Then(Set("turn", "back", x.nodes.back, x),
                            LAMBDA d : IF x.nodes.again > 0 THEN Set("turn_go", "speed", x.nodes.again, d) ELSE d))
      BY <2>1, <2>2 DEF ReverseTree
    <3> HIDE <2>2
    <3> QED BY <2>1, <3>1 DEF Then
  <2>5. CASE i.loco.rolls
    <3>1. PICK d : d = Set("turn_stop", "speed", 0, i)
      OBVIOUS
    <3>2. SetRel("turn_stop", i.loco.speed, 0, i, d, Plain("speed", 0))
      <4>1. "turn_stop" \in Setters /\ Plain("speed", 0) \in Command
        BY CommandFacts DEF Setters, Turning
      <4> QED BY <3>1, <4>1, SetFacts DEF Now
    <3>3. d \in StepState
      BY <3>2 DEF SetRel
    <3>4. t = Returns(d, "Running")
      BY <2>4, <2>5, <3>1
    <3>5. t \in StepState /\ Same(d, t) /\ t.nodes = d.nodes /\ t.out = d.out /\ t.r = "Running"
      BY <3>3, <3>4, ReturnsFacts
    <3>6. TurnRel(i, u)
      BY <2>3, <2>5, <3>2, <3>3, <3>5 DEF TurnRel
    <3> QED BY <1>0, <1>2, <2>1, <3>6 DEF PathRel
  <2>6. CASE ~i.loco.rolls
    <3>1. PICK d : d = Set("turn", "back", i.nodes.back, i)
      OBVIOUS
    <3>2. SetRel("turn", i.loco.back, i.nodes.back, i, d, Plain("back", i.nodes.back))
      <4>1. "turn" \in Setters /\ Plain("back", i.nodes.back) \in Command
        <5>1. i.nodes.back \in BOOLEAN
          BY DEF StepState, NodesState
        <5> QED BY <5>1, CommandFacts DEF Setters, Turning
      <4> QED BY <3>1, <4>1, SetFacts DEF Now
    <3>3. d \in StepState /\ d.nodes.again = i.nodes.again /\ d.nodes.again \in Nat /\ d.r \in {"Success", "Running"}
      BY <3>2 DEF SetRel, LatchOnly, StepState, NodesState
    <3>4. t = Then(d, LAMBDA x : IF i.nodes.again > 0 THEN Set("turn_go", "speed", i.nodes.again, x) ELSE x)
      BY <2>4, <2>6, <3>1
    <3>5. t = IF d.r = "Success" THEN (IF i.nodes.again > 0 THEN Set("turn_go", "speed", i.nodes.again, d) ELSE d) ELSE d
      <4> HIDE <3>1, <2>2
      <4> QED BY <3>4 DEF Then
    <3>6. CASE d.r = "Running"
      <4>1. u = d
        BY <2>3, <3>5, <3>6
      <4>2. TurnRel(i, u)
        BY <2>6, <3>2, <3>3, <3>6, <4>1 DEF TurnRel
      <4> QED BY <1>0, <1>2, <2>1, <4>2 DEF PathRel
    <3>7. CASE d.r = "Success"
      <4>1. t \in StepState
            /\ \/ d.nodes.again = 0 /\ t = d
               \/ d.nodes.again > 0 /\ SetRel("turn_go", d.loco.speed, d.nodes.again, d, t,
                                              Plain("speed", d.nodes.again))
        <5>1. CASE d.nodes.again = 0
          BY <3>3, <3>5, <3>7, <5>1
        <5>2. CASE d.nodes.again > 0
          <6>1. "turn_go" \in Setters /\ Plain("speed", d.nodes.again) \in Command
            BY <3>3, CommandFacts DEF Setters, Turning
          <6>2. t = Set("turn_go", "speed", d.nodes.again, d)
            BY <3>3, <3>5, <3>7, <5>2
          <6>3. SetRel("turn_go", d.loco.speed, d.nodes.again, d, t, Plain("speed", d.nodes.again))
            BY <3>3, <6>1, <6>2, SetFacts DEF Now
          <6> QED BY <5>2, <6>3 DEF SetRel
        <5> QED BY <3>3, <5>1, <5>2
      <4>2. t.r \in {"Success", "Running"}
        BY <4>1 DEF StepState
      <4>3. (t.r = "Running" /\ u = t) \/ (t.r = "Success" /\ FinishRel(t, u))
        BY <2>3, <4>1, <4>2, FinishFacts
      <4>4. TurnRel(i, u)
        BY <2>6, <3>2, <3>3, <3>7, <4>1, <4>3 DEF TurnRel
      <4> QED BY <1>0, <1>2, <2>1, <4>4 DEF PathRel
    <3> QED BY <3>3, <3>6, <3>7
  <2> QED BY <2>5, <2>6
<1>3. s.nodes.turn \in {"none", "wanted", "turning", "done"}
  BY DEF StepState, NodesState
<1> QED BY <1>1, <1>2, <1>3
-----------------------------------------------------------------------------
(* The turn. *)
-----------------------------------------------------------------------------
(* The turn.  Every leaf keeps the direction's part of the invariant, for    *)
(* any set W of commands and answers that are under way beside those that   *)
(* the tick sends.                                                          *)
Quiet(a, b) == b.turn = a.turn /\ b.back = a.back /\ \A n \in Turning : b.latch[n] = a.latch[n]
Speeds(c) == c.what = "speed"
TurnOK(W, s) == TurnFits(s.nodes, s.loco, W \cup Range(s.out))

LEMMA Kinds ==
  /\ \A v : Speeds(Plain("speed", v)) /\ Speeds(Once(v))
  /\ \A c : Speeds(c) => ~IsTurn(c)
  /\ \A v : IsTurn(Plain("back", v)) /\ Plain("back", v).value = v
BY DEF Speeds, Plain, Once, CommandOf, IsTurn

Grows(W, s, u, c) == W \cup Range(u.out) = (W \cup Range(s.out)) \cup {c}

LEMMA OutGrows ==
  ASSUME NEW W, NEW s \in StepState, NEW u, NEW c \in Command, u.out = Append(s.out, c)
  PROVE  Grows(W, s, u, c)
<1>1. s.out \in Seq(Command)
  BY DEF StepState
<1> QED BY <1>1, QueueAppend DEF Grows

LEMMA QuietTurn ==
  ASSUME NEW W, NEW s \in StepState, NEW u \in StepState, TurnOK(W, s), SameTrain(s, u),
         Quiet(s.nodes, u.nodes),
         u.out = s.out \/ \E c \in Command : Speeds(c) /\ u.out = Append(s.out, c)
  PROVE  TurnOK(W, u)
<1>1. \A c \in W \cup Range(u.out) : IsTurn(c) => c \in W \cup Range(s.out)
  <2>1. CASE u.out = s.out
    BY <2>1
  <2>2. ASSUME NEW e \in Command, Speeds(e), u.out = Append(s.out, e)
        PROVE  \A c \in W \cup Range(u.out) : IsTurn(c) => c \in W \cup Range(s.out)
    <3>1. Grows(W, s, u, e)
      BY <2>2, OutGrows
    <3> QED BY <2>2, <3>1, Kinds DEF Grows
  <2> QED BY <2>1, <2>2
<1>2. u.loco = s.loco
  BY DEF SameTrain
<1>3. u.nodes.latch["turn"] = s.nodes.latch["turn"]
  BY DEF Quiet, Turning
<1> QED BY <1>1, <1>2, <1>3 DEF TurnOK, TurnFits, Quiet

LEMMA SetQuiet ==
  ASSUME NEW W, NEW s \in StepState, NEW u, NEW n \in Setters \ Turning, NEW v \in Nat, NEW now,
         TurnOK(W, s), SetRel(n, now, v, s, u, Plain("speed", v))
  PROVE  TurnOK(W, u)
<1>1. u \in StepState /\ Same(s, u) /\ Quiet(s.nodes, u.nodes)
  BY DEF SetRel, LatchOnly, Quiet, Setters
<1>2. Plain("speed", v) \in Command /\ Speeds(Plain("speed", v))
  BY CommandFacts, Kinds
<1>3. u.out = s.out \/ u.out = Append(s.out, Plain("speed", v))
  BY DEF SetRel, SetDone, SetWaits, SetSends
<1> QED BY <1>1, <1>2, <1>3, QuietTurn DEF Same

LEMMA InitTurn ==
  ASSUME NEW W, NEW s \in StepState, NEW i, s.nodes.turn \in {"wanted", "turning"},
         TurnOK(W, s), InitRel(s, i)
  PROVE  TurnOK(W, i)
<1>1. i.loco = s.loco /\ i.out = s.out /\ i.nodes.latch = s.nodes.latch /\ i.nodes.turn = "turning"
  BY DEF InitRel, Same, SameTrain, SameLatches
<1>2. CASE s.nodes.turn = "turning"
  BY <1>1, <1>2 DEF InitRel, TurnOK, TurnFits
<1>3. CASE s.nodes.turn = "wanted"
  <2>1. /\ i.nodes.back = ~s.loco.back /\ s.loco.back \in BOOLEAN
    BY <1>3 DEF InitRel, StepState, LocoState
  <2>2. i.loco.back # i.nodes.back
    BY <1>1, <2>1
  <2>3. (\A c \in W \cup Range(s.out) : ~IsTurn(c)) /\ ~s.nodes.latch["turn"].done
    BY <1>3 DEF TurnOK, TurnFits, Turning
  <2> QED BY <1>1, <2>2, <2>3 DEF TurnOK, TurnFits
<1> QED BY <1>2, <1>3

LEMMA TurningSet ==
  ASSUME NEW W, NEW s \in StepState, NEW u, NEW n \in {"turn_stop", "turn_go"}, NEW v \in Nat, NEW now,
         TurnOK(W, s), s.nodes.turn = "turning", SetRel(n, now, v, s, u, Plain("speed", v))
  PROVE  TurnOK(W, u)
<1>1. /\ u \in StepState /\ Same(s, u) /\ u.nodes.turn = "turning" /\ u.nodes.back = s.nodes.back
      /\ u.nodes.latch["turn"] = s.nodes.latch["turn"]
  BY DEF SetRel, LatchOnly, Setters, Turning
<1>2. Plain("speed", v) \in Command /\ Speeds(Plain("speed", v))
  BY CommandFacts, Kinds
<1>3. u.out = s.out \/ u.out = Append(s.out, Plain("speed", v))
  BY DEF SetRel, SetDone, SetWaits, SetSends
<1>4. \A c \in W \cup Range(u.out) : IsTurn(c) => c \in W \cup Range(s.out)
  BY <1>2, <1>3, OutGrows, Kinds DEF Grows
<1>5. u.loco = s.loco
  BY <1>1 DEF Same, SameTrain
<1> QED BY <1>1, <1>4, <1>5 DEF TurnOK, TurnFits

LEMMA TurnSet ==
  ASSUME NEW W, NEW s \in StepState, NEW u, TurnOK(W, s), s.nodes.turn = "turning",
         SetRel("turn", s.loco.back, s.nodes.back, s, u, Plain("back", s.nodes.back))
  PROVE  TurnOK(W, u)
<1> DEFINE v == s.nodes.back
<1>1. /\ u \in StepState /\ u.loco = s.loco /\ u.nodes.turn = "turning" /\ u.nodes.back = v
      /\ v \in BOOLEAN
  BY DEF SetRel, LatchOnly, Same, SameTrain, StepState, NodesState
<1>2. Plain("back", v) \in Command /\ IsTurn(Plain("back", v)) /\ Plain("back", v).value = v
  BY <1>1, CommandFacts, Kinds
<1> HIDE DEF v
<1>3. CASE SetDone("turn", s.loco.back, v, s, u)
  <2>1. u.out = s.out /\ (s.nodes.latch["turn"].done \/ s.loco.back = v)
    BY <1>3 DEF SetDone, Confirmed
  <2>2. real.back = v
    BY <2>1 DEF TurnOK, TurnFits, v
  <2> QED BY <1>1, <2>1, <2>2 DEF TurnOK, TurnFits, v
<1>4. CASE SetWaits("turn", s.loco.back, v, s, u)
  BY <1>1, <1>4 DEF SetWaits, TurnOK
<1>5. CASE SetSends("turn", s.loco.back, v, s, u, Plain("back", v))
  <2>0. PICK c \in Command : c = Plain("back", v) /\ u.out = Append(s.out, c)
    BY <1>2, <1>5 DEF SetSends
  <2>1. Grows(W, s, u, c)
    BY <2>0, OutGrows
  <2>2. ~u.nodes.latch["turn"].done
    BY <1>5 DEF SetSends
  <2>3. \A e \in W \cup Range(s.out) : IsTurn(e) => e.value = v
    BY DEF TurnOK, TurnFits, v
  <2>4. s.loco.back = v => real.back = v
    BY DEF TurnOK, TurnFits, v
  <2>5. \A e \in W \cup Range(u.out) : IsTurn(e) => e.value = v
    BY <1>2, <2>0, <2>1, <2>3 DEF Grows
  <2> QED BY <1>1, <2>2, <2>4, <2>5 DEF TurnOK, TurnFits
<1> QED BY <1>3, <1>4, <1>5 DEF SetRel, v

LEMMA PathTurn ==
  ASSUME NEW W, NEW s \in StepState, NEW u, TurnOK(W, s), PathRel(s, u)
  PROVE  /\ u \in StepState /\ u.loco = s.loco /\ TurnOK(W, u)
         /\ s.nodes.turn \in {"turning", "done"} =>
              u.nodes.turn \in {"turning", "done"} /\ u.nodes.back = s.nodes.back
<1>1. CASE /\ s.nodes.turn \in {"none", "done"} /\ u \in StepState /\ Same(s, u)
           /\ u.nodes = s.nodes /\ u.out = s.out /\ u.r = "Success"
  BY <1>1 DEF Same, SameTrain, TurnOK
<1>2. ASSUME s.nodes.turn \in {"wanted", "turning"}, NEW i \in StepState, InitRel(s, i), TurnRel(i, u)
      PROVE  /\ u \in StepState /\ u.loco = s.loco /\ TurnOK(W, u)
             /\ u.nodes.turn \in {"turning", "done"} /\ u.nodes.back = i.nodes.back
  <2>1. TurnOK(W, i) /\ i.nodes.turn = "turning" /\ i.loco = s.loco
    BY <1>2, InitTurn DEF InitRel, Same, SameTrain
  <2>2. ASSUME NEW d \in StepState, SetRel("turn_stop", i.loco.speed, 0, i, d, Plain("speed", 0)),
               u \in StepState /\ Same(d, u) /\ u.nodes = d.nodes /\ u.out = d.out
        PROVE  /\ u \in StepState /\ u.loco = s.loco /\ TurnOK(W, u)
               /\ u.nodes.turn \in {"turning", "done"} /\ u.nodes.back = i.nodes.back
    <3>1. TurnOK(W, d)
      BY <2>1, <2>2, TurningSet
    <3>2. d.loco = s.loco /\ d.nodes.turn = "turning" /\ d.nodes.back = i.nodes.back
      BY <2>1, <2>2 DEF SetRel, Same, SameTrain, LatchOnly
    <3> QED BY <2>2, <3>1, <3>2 DEF Same, SameTrain, TurnOK
  <2>3. ASSUME NEW d \in StepState,
               SetRel("turn", i.loco.back, i.nodes.back, i, d, Plain("back", i.nodes.back)),
               \/ d.r = "Running" /\ u = d
               \/ /\ d.r = "Success"
                  /\ \E g \in StepState :
                       /\ \/ d.nodes.again = 0 /\ g = d
                          \/ d.nodes.again > 0 /\ SetRel("turn_go", d.loco.speed, d.nodes.again, d, g,
                                                         Plain("speed", d.nodes.again))
                       /\ \/ g.r = "Running" /\ u = g
                          \/ g.r = "Success" /\ FinishRel(g, u)
        PROVE  /\ u \in StepState /\ u.loco = s.loco /\ TurnOK(W, u)
               /\ u.nodes.turn \in {"turning", "done"} /\ u.nodes.back = i.nodes.back
    <3>1. TurnOK(W, d)
      BY <2>1, <2>3, TurnSet
    <3>2. d.loco = s.loco /\ d.nodes.turn = "turning" /\ d.nodes.back = i.nodes.back
      BY <2>1, <2>3 DEF SetRel, Same, SameTrain, LatchOnly
    <3>3. CASE d.r = "Running" /\ u = d
      BY <3>1, <3>2, <3>3
    <3>4. ASSUME d.r = "Success", NEW g \in StepState,
                 \/ d.nodes.again = 0 /\ g = d
                 \/ d.nodes.again > 0 /\ SetRel("turn_go", d.loco.speed, d.nodes.again, d, g,
                                                Plain("speed", d.nodes.again)),
                 \/ g.r = "Running" /\ u = g
                 \/ g.r = "Success" /\ FinishRel(g, u)
          PROVE  /\ u \in StepState /\ u.loco = s.loco /\ TurnOK(W, u)
                 /\ u.nodes.turn \in {"turning", "done"} /\ u.nodes.back = i.nodes.back
      <4>1. d.nodes.latch["turn"].done
        BY <2>3, <3>4 DEF SetRel, SetDone, SetWaits, SetSends
      <4>2. /\ g.loco = s.loco /\ TurnOK(W, g) /\ g.nodes.turn = "turning" /\ g.nodes.back = i.nodes.back
            /\ g.nodes.latch["turn"].done
        <5>1. CASE d.nodes.again = 0 /\ g = d
          BY <3>1, <3>2, <4>1, <5>1
        <5>2. CASE d.nodes.again > 0 /\ SetRel("turn_go", d.loco.speed, d.nodes.again, d, g,
                                               Plain("speed", d.nodes.again))
          <6>1. d.nodes.again \in Nat
            BY DEF StepState, NodesState
          <6>2. TurnOK(W, g)
            BY <3>1, <3>2, <5>2, <6>1, TurningSet
          <6>3. /\ g.loco = s.loco /\ g.nodes.turn = "turning" /\ g.nodes.back = i.nodes.back
                /\ g.nodes.latch["turn"] = d.nodes.latch["turn"]
            BY <3>2, <5>2 DEF SetRel, Same, SameTrain, LatchOnly, Setters, Turning
          <6> QED BY <4>1, <6>2, <6>3
        <5> QED BY <3>4, <5>1, <5>2
      <4>3. CASE g.r = "Running" /\ u = g
        BY <4>2, <4>3
      <4>4. CASE g.r = "Success" /\ FinishRel(g, u)
        <5>1. /\ u \in StepState /\ u.loco = g.loco /\ u.out = g.out /\ u.nodes.turn = "done"
              /\ u.nodes.back = g.nodes.back /\ \A n \in Turning : ~u.nodes.latch[n].sent /\ ~u.nodes.latch[n].done
          BY <4>4 DEF FinishRel, Same, SameTrain
        <5>2. real.back = g.nodes.back /\ \A c \in W \cup Range(g.out) : IsTurn(c) => c.value = g.nodes.back
          BY <4>2 DEF TurnOK, TurnFits
        <5>3. TurnOK(W, u)
          BY <5>1, <5>2 DEF TurnOK, TurnFits
        <5> QED BY <4>2, <5>1, <5>3
      <4> QED BY <3>4, <4>3, <4>4
    <3> QED BY <2>3, <3>3, <3>4
  <2> QED BY <1>2, <2>2, <2>3 DEF TurnRel
<1> QED BY <1>1, <1>2 DEF PathRel, InitRel
-----------------------------------------------------------------------------
(* The speed.  What a command that is sent does to the order of those that  *)
(* are under way.                                                           *)
-----------------------------------------------------------------------------
(* The order of speed commands in a queue, and how appending one keeps it.  *)
LEMMA OnceIs == \A q : HasOnce(q) <=> \E i \in DOMAIN q : q[i].once
BY DEF HasOnce, ToSet

LEMMA Sent ==
  ASSUME NEW q \in Seq(Command), NEW c \in Command, NEW p, p = Append(q, c)
  PROVE  /\ p \in Seq(Command) /\ Len(p) = Len(q) + 1 /\ p[Len(p)] = c
         /\ ~IsGo(c) /\ StopsLast(q) => StopsLast(p)
         /\ ~IsStop(c) /\ GoesLast(q) => GoesLast(p)
         /\ ~IsStop(c) /\ NoStop(q) => NoStop(p)
         /\ ~IsGo(c) /\ NoGo(q) => NoGo(p)
         /\ ~c.once /\ ~HasOnce(q) => ~HasOnce(p)
<1>1. /\ p \in Seq(Command) /\ Len(q) \in Nat /\ Len(p) = Len(q) + 1 /\ p[Len(p)] = c
      /\ DOMAIN q = 1 .. Len(q) /\ DOMAIN p = 1 .. (Len(q) + 1)
      /\ \A i \in 1 .. Len(q) : p[i] = q[i]
  BY AppendProperties, LenProperties
<1>2. \A i \in DOMAIN p : i \in DOMAIN q \/ i = Len(q) + 1
  BY <1>1
<1>3. ~IsGo(c) /\ StopsLast(q) => StopsLast(p)
  <2> SUFFICES ASSUME ~IsGo(c), StopsLast(q), NEW i \in DOMAIN p, NEW j \in DOMAIN p, i < j, IsStop(p[i])
               PROVE  ~IsGo(p[j])
    BY DEF StopsLast
  <2>1. i \in DOMAIN q /\ p[i] = q[i]
    BY <1>1
  <2>2. CASE j \in DOMAIN q
    BY <1>1, <2>1, <2>2 DEF StopsLast
  <2>3. CASE j = Len(q) + 1
    BY <1>1, <2>3
  <2> QED BY <1>2, <2>2, <2>3
<1>4. ~IsStop(c) /\ GoesLast(q) => GoesLast(p)
  <2> SUFFICES ASSUME ~IsStop(c), GoesLast(q), NEW i \in DOMAIN p, NEW j \in DOMAIN p, i < j, IsGo(p[i])
               PROVE  ~IsStop(p[j])
    BY DEF GoesLast
  <2>1. i \in DOMAIN q /\ p[i] = q[i]
    BY <1>1
  <2>2. CASE j \in DOMAIN q
    BY <1>1, <2>1, <2>2 DEF GoesLast
  <2>3. CASE j = Len(q) + 1
    BY <1>1, <2>3
  <2> QED BY <1>2, <2>2, <2>3
<1>5. ~IsStop(c) /\ NoStop(q) => NoStop(p)
  BY <1>1, <1>2 DEF NoStop
<1>6. ~IsGo(c) /\ NoGo(q) => NoGo(p)
  BY <1>1, <1>2 DEF NoGo
<1>7. ~c.once /\ ~HasOnce(q) => ~HasOnce(p)
  BY <1>1, <1>2, OnceIs
<1> QED BY <1>1, <1>3, <1>4, <1>5, <1>6, <1>7

LEMMA Orders ==
  ASSUME NEW q
  PROVE  /\ NoStop(q) => StopsLast(q) /\ GoesLast(q)
         /\ NoGo(q) => StopsLast(q) /\ GoesLast(q)
BY DEF NoStop, NoGo, StopsLast, GoesLast

LEMMA EmptyOrders ==
  ASSUME NEW q \in Seq(Command), q = <<>> PROVE NoStop(q) /\ NoGo(q) /\ ~HasOnce(q)
<1>1. DOMAIN q = {}
  BY LenProperties
<1> QED BY <1>1, OnceIs DEF NoStop, NoGo

LEMMA SpeedKinds ==
  /\ ~Plain("speed", 0).once /\ IsStop(Plain("speed", 0)) /\ ~IsGo(Plain("speed", 0))
  /\ \A v \in Nat : v > 0 => ~Plain("speed", v).once /\ IsGo(Plain("speed", v)) /\ ~IsStop(Plain("speed", v))
  /\ \A v : ~Plain("back", v).once /\ ~IsGo(Plain("back", v)) /\ ~IsStop(Plain("back", v))
  /\ \A v : Once(v).once
  /\ \A v \in Nat : v > 0 => IsGo(Once(v))
BY DEF Plain, Once, CommandOf, IsGo, IsStop

-----------------------------------------------------------------------------
(* The speed.  Every leaf of NavigateTree keeps the phase that SpeedFits     *)
(* describes, for the queue Q of what was under way before the tick.        *)
Line(Q, s) == Q \o s.out
SpeedOK(Q, s) == SpeedFits(s.nodes, s.loco, Line(Q, s))
\* A leaf does not send while a command of PathReservationNode is under way.
Clean(Q, s, u) == u.out # s.out => ~HasOnce(Line(Q, s))

LEMMA LineType ==
  ASSUME NEW Q \in Seq(Command), NEW s \in StepState PROVE Line(Q, s) \in Seq(Command)
<1>1. s.out \in Seq(Command)
  BY DEF StepState
<1> QED BY <1>1, ConcatProperties DEF Line

LEMMA LineGrows ==
  ASSUME NEW Q \in Seq(Command), NEW s \in StepState, NEW u, NEW c \in Command, u.out = Append(s.out, c)
  PROVE  Line(Q, u) = Append(Line(Q, s), c) /\ u.out # s.out
<1>1. s.out \in Seq(Command)
  BY DEF StepState
<1>2. Line(Q, u) = Append(Line(Q, s), c)
  BY <1>1, QueueExtend DEF Line
<1>3. Len(u.out) = Len(s.out) + 1 /\ Len(s.out) \in Nat
  BY <1>1, AppendProperties, LenProperties
<1> QED BY <1>2, <1>3

SetLine(Q, n, now, v, s, u, c) ==
  \/ SetDone(n, now, v, s, u) /\ Line(Q, u) = Line(Q, s)
  \/ SetWaits(n, now, v, s, u) /\ Line(Q, u) = Line(Q, s)
  \/ SetSends(n, now, v, s, u, c) /\ Line(Q, u) = Append(Line(Q, s), c) /\ ~HasOnce(Line(Q, s))

LEMMA SetLineFacts ==
  ASSUME NEW Q \in Seq(Command), NEW s \in StepState, NEW u, NEW n, NEW now, NEW v, NEW c \in Command,
         SetRel(n, now, v, s, u, c), Clean(Q, s, u)
  PROVE  SetLine(Q, n, now, v, s, u, c) /\ u.loco = s.loco /\ LatchOnly(s.nodes, u.nodes, n) /\ u \in StepState
<1>1. u.loco = s.loco /\ LatchOnly(s.nodes, u.nodes, n) /\ u \in StepState
  BY DEF SetRel, Same, SameTrain
<1>2. CASE SetDone(n, now, v, s, u)
  BY <1>1, <1>2 DEF SetLine, SetDone, Line
<1>3. CASE SetWaits(n, now, v, s, u)
  BY <1>1, <1>3 DEF SetLine, SetWaits, Line
<1>4. CASE SetSends(n, now, v, s, u, c)
  <2>1. Line(Q, u) = Append(Line(Q, s), c) /\ u.out # s.out
    BY <1>4, LineGrows DEF SetSends
  <2> QED BY <1>1, <1>4, <2>1 DEF SetLine, Clean
<1> QED BY <1>2, <1>3, <1>4 DEF SetRel

LEMMA SpeedsPositive == CRAWL \in Nat /\ CRAWL > 0 /\ MAX \in Nat /\ MAX > 0
BY TreesAssumption

LEMMA CrawlSpeed ==
  ASSUME NEW Q \in Seq(Command), NEW s \in StepState, NEW u, SpeedOK(Q, s), Clean(Q, s, u),
         SetRel("crawl", s.loco.speed, CRAWL, s, u, Plain("speed", CRAWL))
  PROVE  SpeedOK(Q, u) /\ (u.r = "Success" => u.nodes.latch["crawl"].done)
<1>1. PICK c \in Command : c = Plain("speed", CRAWL) /\ ~c.once /\ IsGo(c) /\ ~IsStop(c)
  BY CommandFacts, SpeedKinds, SpeedsPositive
<1>2. /\ SetLine(Q, "crawl", s.loco.speed, CRAWL, s, u, c) /\ u.loco = s.loco
      /\ LatchOnly(s.nodes, u.nodes, "crawl")
  BY <1>1, SetLineFacts
<1>3. PICK q \in Seq(Command) : q = Line(Q, s)
  BY LineType
<1>4. /\ u.nodes.stopped = s.nodes.stopped /\ u.nodes.go = s.nodes.go /\ u.nodes.stopping = s.nodes.stopping
      /\ u.nodes.turn = s.nodes.turn /\ u.nodes.again = s.nodes.again
      /\ u.nodes.latch["done"] = s.nodes.latch["done"] /\ u.nodes.latch["max"] = s.nodes.latch["max"]
      /\ u.nodes.latch["turn_stop"] = s.nodes.latch["turn_stop"]
      /\ u.nodes.latch["turn_go"] = s.nodes.latch["turn_go"]
  BY <1>2 DEF LatchOnly, Setters, Turning
<1>5. SpeedFits(s.nodes, s.loco, q)
  BY <1>3 DEF SpeedOK
<1>6. CASE SetDone("crawl", s.loco.speed, CRAWL, s, u) /\ Line(Q, u) = q
  <2>1. u.nodes.latch["crawl"].done
    BY <1>6 DEF SetDone
  <2>2. CASE s.nodes.latch["crawl"].done
    <3>1. SpeedFits(u.nodes, u.loco, q)
      BY <1>2, <1>4, <1>5, <2>1, <2>2 DEF SpeedFits, Crawls, Runs, Turns, Stops
    <3> QED BY <1>6, <2>1, <3>1 DEF SpeedOK
  <2>3. CASE ~s.nodes.latch["crawl"].done
    <3>1. s.loco.speed = CRAWL
      BY <1>6, <2>3 DEF SetDone, Confirmed
    <3>2. /\ Crawls(s.nodes, s.loco, q) /\ ~s.nodes.latch["done"].sent /\ ~s.nodes.latch["done"].done
          /\ s.nodes.go > 0
      BY <1>5, <2>3 DEF SpeedFits
    <3>3. Runs(u.nodes, u.loco, q) /\ u.nodes.turn # "turning"
      BY <1>2, <1>4, <3>1, <3>2, SpeedsPositive DEF Crawls, Runs
    <3>4. SpeedFits(u.nodes, u.loco, q)
      BY <1>4, <2>1, <3>2, <3>3 DEF SpeedFits
    <3> QED BY <1>6, <2>1, <3>4 DEF SpeedOK
  <2> QED BY <2>2, <2>3
<1>7. CASE SetWaits("crawl", s.loco.speed, CRAWL, s, u) /\ Line(Q, u) = q
  BY <1>2, <1>5, <1>7 DEF SetWaits, SpeedOK
<1>8. CASE SetSends("crawl", s.loco.speed, CRAWL, s, u, c) /\ Line(Q, u) = Append(q, c) /\ ~HasOnce(q)
  <2>1. PICK p : p = Append(q, c)
    OBVIOUS
  <2>2. ~s.nodes.latch["crawl"].done /\ ~u.nodes.latch["crawl"].done /\ u.r = "Running"
    BY <1>8 DEF SetSends, Confirmed
  <2>3. /\ Crawls(s.nodes, s.loco, q) /\ ~s.nodes.latch["done"].sent /\ ~s.nodes.latch["done"].done
        /\ s.nodes.go > 0
    BY <1>5, <2>2 DEF SpeedFits
  <2>4. NoStop(p) /\ ~HasOnce(p)
    BY <1>1, <1>8, <2>1, <2>3, Sent DEF Crawls
  <2>5. Crawls(u.nodes, u.loco, p)
    BY <1>4, <2>3, <2>4 DEF Crawls
  <2>6. SpeedFits(u.nodes, u.loco, p)
    BY <1>4, <2>2, <2>3, <2>5 DEF SpeedFits
  <2> QED BY <1>8, <2>1, <2>2, <2>6 DEF SpeedOK
<1> QED BY <1>2, <1>3, <1>6, <1>7, <1>8 DEF SetLine

LEMMA ReserveSpeed ==
  ASSUME NEW Q \in Seq(Command), NEW s \in StepState, NEW u, SpeedOK(Q, s), Clean(Q, s, u),
         ReserveRel(s, u), s.nodes.latch["crawl"].done, s.nodes.stopping => s.reserved = "all",
         s.nodes.turn = "turning" => u.out = s.out
  PROVE  SpeedOK(Q, u) /\ (u.r = "Success" => ~u.nodes.stopped)
<1>1. PICK q \in Seq(Command) : q = Line(Q, s)
  BY LineType
<1>2. /\ u \in StepState /\ u.loco = s.loco /\ u.nodes.latch = s.nodes.latch
      /\ u.nodes.stopping = s.nodes.stopping /\ u.nodes.turn = s.nodes.turn /\ u.nodes.again = s.nodes.again
  BY DEF ReserveRel, Same, SameTrain
<1>3. /\ SpeedFits(s.nodes, s.loco, q) /\ s.nodes.go > 0 /\ s.nodes.go \in Nat
  BY <1>1 DEF SpeedOK, SpeedFits, StepState, NodesState
<1>4. CASE u.nodes = s.nodes /\ u.out = s.out /\ (u.r = "Success" => ~s.nodes.stopped)
  BY <1>1, <1>2, <1>3, <1>4 DEF SpeedOK, Line
<1>5. CASE /\ s.reserved = "short" /\ ~s.nodes.stopped /\ u.nodes.stopped
           /\ u.nodes.go = s.nodes.go \/ u.nodes.go > 0
           /\ u.r = "Running" /\ u.out = Append(s.out, Once(0))
  <2>1. PICK c \in Command : c = Once(0) /\ c.once
    BY CommandFacts, SpeedKinds
  <2>2. PICK p : p = Append(q, c)
    OBVIOUS
  <2>3. Line(Q, u) = p /\ u.out # s.out
    BY <1>1, <1>5, <2>1, <2>2, LineGrows
  <2>4. Runs(s.nodes, s.loco, q) /\ ~s.nodes.latch["done"].sent /\ s.nodes.turn # "turning"
    BY <1>3, <1>5, <2>3 DEF SpeedFits, Stops
  <2>5. p \in Seq(Command) /\ p[Len(p)].once
    BY <2>1, <2>2, Sent
  <2>6. Runs(u.nodes, u.loco, p)
    BY <1>5, <2>5 DEF Runs
  <2>7. u.nodes.go > 0
    BY <1>3, <1>5
  <2>8. SpeedFits(u.nodes, u.loco, p)
    BY <1>2, <1>3, <2>4, <2>6, <2>7 DEF SpeedFits
  <2> QED BY <1>5, <2>3, <2>8 DEF SpeedOK
<1>6. CASE /\ s.reserved # "short" /\ s.nodes.stopped /\ ~u.nodes.stopped /\ u.nodes.go = s.nodes.go
           /\ u.out = Append(s.out, Once(s.nodes.go))
  <2>1. PICK c \in Command : c = Once(s.nodes.go) /\ c.once /\ IsGo(c)
    BY <1>3, CommandFacts, SpeedKinds
  <2>2. PICK p : p = Append(q, c)
    OBVIOUS
  <2>3. Line(Q, u) = p /\ u.out # s.out
    BY <1>1, <1>6, <2>1, <2>2, LineGrows
  <2>4. ~HasOnce(q)
    BY <1>1, <2>3 DEF Clean
  <2>5. Runs(s.nodes, s.loco, q) /\ ~s.nodes.latch["done"].sent /\ s.nodes.turn # "turning"
    BY <1>3, <1>6, <2>3 DEF SpeedFits, Stops
  <2>6. q = <<>>
    <3>1. q = <<>> \/ q[Len(q)].once
      BY <1>6, <2>5 DEF Runs
    <3>2. ASSUME q # <<>> PROVE Len(q) \in DOMAIN q
      BY <3>2, LenProperties, EmptySeq
    <3> QED BY <2>4, <3>1, <3>2, OnceIs
  <2>7. Len(p) = 1 /\ p[1] = c
    <3>1. Len(q) = 0
      BY <2>6
    <3> QED BY <2>1, <2>2, <3>1, Sent
  <2>8. Runs(u.nodes, u.loco, p)
    BY <1>6, <2>1, <2>7 DEF Runs
  <2>9. SpeedFits(u.nodes, u.loco, p)
    BY <1>2, <1>3, <1>6, <2>5, <2>8 DEF SpeedFits
  <2> QED BY <1>6, <2>3, <2>9 DEF SpeedOK
<1> QED BY <1>4, <1>5, <1>6 DEF ReserveRel

LEMMA MaxSpeed ==
  ASSUME NEW Q \in Seq(Command), NEW s \in StepState, NEW u, SpeedOK(Q, s), Clean(Q, s, u),
         SetRel("max", s.loco.speed, MAX, s, u, Plain("speed", MAX)),
         s.nodes.latch["crawl"].done, ~s.nodes.stopped, s.nodes.turn \in {"none", "done"}
  PROVE  SpeedOK(Q, u) /\ (u.r = "Success" => u.nodes.latch["max"].done)
<1>1. PICK c \in Command : c = Plain("speed", MAX) /\ ~c.once /\ IsGo(c) /\ ~IsStop(c)
  BY CommandFacts, SpeedKinds, SpeedsPositive
<1>2. /\ SetLine(Q, "max", s.loco.speed, MAX, s, u, c) /\ u.loco = s.loco
      /\ LatchOnly(s.nodes, u.nodes, "max")
  BY <1>1, SetLineFacts
<1>3. PICK q \in Seq(Command) : q = Line(Q, s)
  BY LineType
<1>4. /\ u.nodes.stopped = s.nodes.stopped /\ u.nodes.go = s.nodes.go /\ u.nodes.stopping = s.nodes.stopping
      /\ u.nodes.turn = s.nodes.turn /\ u.nodes.again = s.nodes.again
      /\ u.nodes.latch["done"] = s.nodes.latch["done"] /\ u.nodes.latch["crawl"] = s.nodes.latch["crawl"]
  BY <1>2 DEF LatchOnly, Setters, Turning
<1>5. /\ s.nodes.go > 0
      /\ ~s.nodes.latch["done"].sent => Runs(s.nodes, s.loco, q)
      /\ s.nodes.latch["done"].sent => Stops(s.nodes, s.loco, q)
      /\ s.nodes.latch["done"].done => s.nodes.latch["done"].sent
  BY <1>3 DEF SpeedOK, SpeedFits
<1>6. CASE SetDone("max", s.loco.speed, MAX, s, u) /\ Line(Q, u) = q
  <2>1. u.nodes.latch["max"].done
    BY <1>6 DEF SetDone
  <2>2. SpeedFits(u.nodes, u.loco, q)
    BY <1>2, <1>4, <1>5, <2>1 DEF SpeedFits, Runs, Stops
  <2> QED BY <1>6, <2>1, <2>2 DEF SpeedOK
<1>7. CASE SetWaits("max", s.loco.speed, MAX, s, u) /\ Line(Q, u) = q
  BY <1>2, <1>3, <1>7 DEF SetWaits, SpeedOK
<1>8. CASE SetSends("max", s.loco.speed, MAX, s, u, c) /\ Line(Q, u) = Append(q, c) /\ ~HasOnce(q)
  <2>1. PICK p : p = Append(q, c)
    OBVIOUS
  <2>2. ~s.nodes.latch["max"].done /\ u.r = "Running"
    BY <1>8 DEF SetSends, Confirmed
  <2>3. Runs(s.nodes, s.loco, q) /\ ~s.nodes.latch["done"].sent
    BY <1>5, <2>2 DEF Stops
  <2>4. s.loco.speed > 0 /\ NoStop(q)
    <3>1. ~(Len(q) = 1 /\ q[1].once)
      <4>1. Len(q) = 1 => 1 \in DOMAIN q
        BY LenProperties
      <4> QED BY <1>8, <4>1, OnceIs
    <3> QED BY <2>3, <3>1 DEF Runs
  <2>5. NoStop(p) /\ ~HasOnce(p)
    BY <1>1, <1>8, <2>1, <2>4, Sent
  <2>6. Runs(u.nodes, u.loco, p)
    BY <1>2, <1>4, <2>4, <2>5 DEF Runs
  <2>7. SpeedFits(u.nodes, u.loco, p)
    BY <1>4, <1>5, <2>3, <2>6 DEF SpeedFits
  <2> QED BY <1>8, <2>1, <2>2, <2>7 DEF SpeedOK
<1> QED BY <1>2, <1>3, <1>6, <1>7, <1>8 DEF SetLine

LEMMA DoneSpeed ==
  ASSUME NEW Q \in Seq(Command), NEW s \in StepState, NEW u, SpeedOK(Q, s), Clean(Q, s, u), StopRel(s, u),
         s.nodes.latch["crawl"].done, s.nodes.latch["max"].done, ~s.nodes.stopped,
         s.nodes.turn \in {"none", "done"}
  PROVE  /\ SpeedOK(Q, u) /\ (u.r = "Success" => u.nodes.latch["done"].done)
         /\ u.nodes.latch["done"].sent /\ ~s.nodes.latch["done"].sent =>
              s.loco.speed > 0 /\ NoStop(Line(Q, s))
<1>1. PICK c \in Command : c = Plain("speed", 0) /\ ~c.once /\ IsStop(c) /\ ~IsGo(c)
  BY CommandFacts, SpeedKinds
<1>2. PICK q \in Seq(Command) : q = Line(Q, s)
  BY LineType
<1>3. /\ s.nodes.go > 0 /\ s.loco.speed \in Nat
      /\ ~s.nodes.latch["done"].sent => Runs(s.nodes, s.loco, q)
      /\ s.nodes.latch["done"].sent => Stops(s.nodes, s.loco, q)
      /\ s.nodes.latch["done"].done => s.nodes.latch["done"].sent
  BY <1>2 DEF SpeedOK, SpeedFits, StepState, LocoState
<1>4. CASE u \in StepState /\ Same(s, u) /\ u.nodes = s.nodes /\ u.out = s.out /\ u.r = "Running"
  BY <1>4 DEF SpeedOK, Line, Same, SameTrain
<1>5. ASSUME NEW i \in StepState, NEW d \in StepState,
             Same(s, i) /\ i.out = s.out /\ SameLatches(s.nodes, i.nodes) /\ SameTurn(s.nodes, i.nodes),
             i.nodes.stopped = s.nodes.stopped /\ i.nodes.go = s.nodes.go /\ i.nodes.stopping,
             SetRel("done", i.loco.speed, 0, i, d, Plain("speed", 0)),
             u \in StepState /\ Same(d, u) /\ u.nodes = d.nodes /\ u.out = d.out,
             u.r = "Success" => d.r = "Success"
      PROVE  /\ SpeedOK(Q, u) /\ (u.r = "Success" => u.nodes.latch["done"].done)
             /\ u.nodes.latch["done"].sent /\ ~s.nodes.latch["done"].sent =>
                  s.loco.speed > 0 /\ NoStop(Line(Q, s))
  <2>1. Line(Q, i) = q /\ Clean(Q, i, d) /\ i.loco = s.loco /\ i.nodes.latch = s.nodes.latch
    BY <1>2, <1>5 DEF Line, Clean, Same, SameTrain, SameLatches
  <2>2. /\ SetLine(Q, "done", s.loco.speed, 0, i, d, c) /\ d.loco = s.loco
        /\ LatchOnly(i.nodes, d.nodes, "done")
    BY <1>1, <1>5, <2>1, SetLineFacts
  <2>3. /\ d.nodes.stopped = s.nodes.stopped /\ d.nodes.go = s.nodes.go /\ d.nodes.stopping
        /\ d.nodes.turn = s.nodes.turn
        /\ d.nodes.latch["max"] = s.nodes.latch["max"] /\ d.nodes.latch["crawl"] = s.nodes.latch["crawl"]
    BY <1>5, <2>1, <2>2 DEF LatchOnly, Setters, SameTurn
  <2>4. u.nodes = d.nodes /\ u.loco = s.loco /\ Line(Q, u) = Line(Q, d)
    BY <1>5, <2>2 DEF Same, SameTrain, Line
  <2>5. CASE SetDone("done", s.loco.speed, 0, i, d) /\ Line(Q, d) = q
    <3>1. /\ d.nodes.latch["done"].sent /\ d.nodes.latch["done"].done
          /\ s.nodes.latch["done"].done \/ (s.nodes.latch["done"].sent /\ s.loco.speed = 0)
      BY <2>1, <2>5 DEF SetDone, Confirmed
    <3>2. Stops(s.nodes, s.loco, q) /\ s.loco.speed = 0 /\ s.nodes.latch["done"].sent
      BY <1>3, <3>1 DEF Stops
    <3>3. Stops(u.nodes, u.loco, q)
      BY <2>3, <2>4, <3>2 DEF Stops
    <3>4. SpeedFits(u.nodes, u.loco, q)
      BY <1>3, <2>3, <2>4, <3>1, <3>3 DEF SpeedFits
    <3> QED BY <2>4, <2>5, <3>1, <3>2, <3>4 DEF SpeedOK
  <2>6. CASE SetWaits("done", s.loco.speed, 0, i, d) /\ Line(Q, d) = q
    <3>1. d.r = "Running" /\ d.nodes = i.nodes /\ s.nodes.latch["done"].sent /\ u.r = "Running"
      <4>1. d.r = "Running" /\ d.nodes = i.nodes /\ s.nodes.latch["done"].sent
        BY <2>1, <2>6 DEF SetWaits
      <4>2. u.r \in {"Success", "Running"}
        BY <1>5 DEF StepState
      <4> QED BY <1>5, <4>1, <4>2
    <3>2. Stops(s.nodes, s.loco, q)
      BY <1>3, <3>1
    <3>3. d.nodes.latch["done"] = s.nodes.latch["done"]
      BY <2>1, <3>1
    <3>4. Stops(u.nodes, u.loco, q)
      BY <2>3, <2>4, <3>2, <3>3 DEF Stops
    <3>5. SpeedFits(u.nodes, u.loco, q)
      BY <1>3, <2>3, <2>4, <3>1, <3>3, <3>4 DEF SpeedFits
    <3> QED BY <2>4, <2>6, <3>1, <3>3, <3>5 DEF SpeedOK
  <2>7. CASE SetSends("done", s.loco.speed, 0, i, d, c) /\ Line(Q, d) = Append(q, c) /\ ~HasOnce(q)
    <3>1. PICK p : p = Append(q, c)
      OBVIOUS
    <3>2. /\ ~s.nodes.latch["done"].done /\ ~(s.nodes.latch["done"].sent /\ s.loco.speed = 0)
          /\ d.nodes.latch["done"].sent /\ ~d.nodes.latch["done"].done /\ d.r = "Running"
      BY <2>1, <2>7 DEF SetSends, Confirmed
    <3>3. u.r = "Running"
      BY <1>5, <3>2 DEF StepState
    <3>4. s.loco.speed > 0 /\ StopsLast(q) /\ (~s.nodes.latch["done"].sent => NoStop(q))
      <4>1. CASE s.nodes.latch["done"].sent
        BY <1>3, <3>2, <4>1 DEF Stops
      <4>2. CASE ~s.nodes.latch["done"].sent
        <5>1. ~(Len(q) = 1 /\ q[1].once)
          <6>1. Len(q) = 1 => 1 \in DOMAIN q
            BY LenProperties
          <6> QED BY <2>7, <6>1, OnceIs
        <5>2. s.loco.speed > 0 /\ NoStop(q)
          BY <1>3, <4>2, <5>1 DEF Runs
        <5> QED BY <5>2, Orders
      <4> QED BY <4>1, <4>2
    <3>5. StopsLast(p) /\ ~HasOnce(p)
      BY <1>1, <2>7, <3>1, <3>4, Sent
    <3>6. Stops(u.nodes, u.loco, p)
      BY <2>3, <2>4, <3>2, <3>4, <3>5 DEF Stops
    <3>7. SpeedFits(u.nodes, u.loco, p)
      BY <1>3, <2>3, <2>4, <3>2, <3>6 DEF SpeedFits
    <3> QED BY <1>2, <2>4, <2>7, <3>1, <3>3, <3>4, <3>7 DEF SpeedOK
  <2> QED BY <2>1, <2>2, <2>5, <2>6, <2>7 DEF SetLine
<1> QED BY <1>4, <1>5 DEF StopRel

\* PathToNode.  While the train turns (Held says what is common to all steps)
\* no latch but those of its own nodes changes.
Others(a, b) ==
  /\ b.stopped = a.stopped /\ b.go = a.go /\ b.stopping = a.stopping
  /\ \A n \in Setters \ Turning : b.latch[n] = a.latch[n]
TurnsOK(Q, s) ==
  /\ s.nodes.turn = "turning" /\ s.nodes.go > 0 /\ s.nodes.latch["crawl"].done
  /\ ~s.nodes.latch["done"].sent /\ ~s.nodes.latch["done"].done

LEMMA TurnsMeans ==
  ASSUME NEW Q, NEW s, TurnsOK(Q, s) PROVE SpeedOK(Q, s) <=> Turns(s.nodes, s.loco, Line(Q, s))
BY DEF TurnsOK, SpeedOK, SpeedFits

LEMMA TurnStopSpeed ==
  ASSUME NEW Q \in Seq(Command), NEW s \in StepState, NEW u, Clean(Q, s, u), TurnsOK(Q, s),
         SetRel("turn_stop", s.loco.speed, 0, s, u, Plain("speed", 0)), s.loco.rolls,
         ~s.nodes.stopped, s.nodes.again > 0, ~s.nodes.latch["turn_go"].done,
         \/ Turns(s.nodes, s.loco, Line(Q, s))
         \/ /\ ~s.nodes.latch["turn_stop"].sent /\ ~s.nodes.latch["turn_stop"].done
            /\ ~HasOnce(Line(Q, s)) => s.loco.speed > 0 /\ NoStop(Line(Q, s))
  PROVE  TurnsOK(Q, u) /\ Turns(u.nodes, u.loco, Line(Q, u))
<1>1. PICK c \in Command : c = Plain("speed", 0) /\ ~c.once /\ IsStop(c) /\ ~IsGo(c)
  BY CommandFacts, SpeedKinds
<1>2. PICK q \in Seq(Command) : q = Line(Q, s)
  BY LineType
<1>3. /\ SetLine(Q, "turn_stop", s.loco.speed, 0, s, u, c) /\ u.loco = s.loco
      /\ LatchOnly(s.nodes, u.nodes, "turn_stop")
  BY <1>1, SetLineFacts
<1>4. /\ u.nodes.stopped = s.nodes.stopped /\ u.nodes.go = s.nodes.go
      /\ u.nodes.turn = s.nodes.turn /\ u.nodes.again = s.nodes.again
      /\ u.nodes.latch["crawl"] = s.nodes.latch["crawl"] /\ u.nodes.latch["done"] = s.nodes.latch["done"]
      /\ u.nodes.latch["turn_go"] = s.nodes.latch["turn_go"]
  BY <1>3 DEF LatchOnly, Setters, Turning
<1>5. TurnsOK(Q, u)
  BY <1>4 DEF TurnsOK
<1>6. s.loco.speed \in Nat
  BY DEF StepState, LocoState
<1>7. CASE SetDone("turn_stop", s.loco.speed, 0, s, u) /\ Line(Q, u) = q
  <2>1. u.nodes.latch["turn_stop"].sent
        /\ (s.nodes.latch["turn_stop"].done \/ s.nodes.latch["turn_stop"].sent)
    BY <1>7 DEF SetDone, Confirmed
  <2>2. Turns(s.nodes, s.loco, q)
    BY <1>2, <2>1
  <2>3. StopsLast(q) /\ (s.loco.speed = 0 => NoGo(q)) /\ ~HasOnce(q)
    BY <2>2, Orders DEF Turns
  <2> QED BY <1>3, <1>4, <1>5, <1>7, <2>1, <2>3 DEF Turns
<1>8. CASE SetWaits("turn_stop", s.loco.speed, 0, s, u) /\ Line(Q, u) = q
  BY <1>2, <1>3, <1>5, <1>8 DEF SetWaits
<1>9. CASE SetSends("turn_stop", s.loco.speed, 0, s, u, c) /\ Line(Q, u) = Append(q, c) /\ ~HasOnce(q)
  <2>1. PICK p : p = Append(q, c)
    OBVIOUS
  <2>2. ~(s.nodes.latch["turn_stop"].sent /\ s.loco.speed = 0) /\ u.nodes.latch["turn_stop"].sent
    BY <1>9 DEF SetSends, Confirmed
  <2>3. StopsLast(q) /\ s.loco.speed > 0
    BY <1>2, <1>6, <1>9, <2>2, Orders DEF Turns
  <2>4. StopsLast(p) /\ ~HasOnce(p)
    BY <1>1, <1>9, <2>1, <2>3, Sent
  <2> QED BY <1>3, <1>4, <1>5, <1>9, <2>1, <2>2, <2>3, <2>4 DEF Turns
<1> QED BY <1>2, <1>3, <1>7, <1>8, <1>9 DEF SetLine

LEMMA TurnBackSpeed ==
  ASSUME NEW Q \in Seq(Command), NEW s \in StepState, NEW u, NEW v, NEW now, Clean(Q, s, u), TurnsOK(Q, s),
         Plain("back", v) \in Command, SetRel("turn", now, v, s, u, Plain("back", v)), ~s.loco.rolls,
         ~s.nodes.stopped, s.nodes.again > 0, ~s.nodes.latch["turn_go"].done,
         \/ Turns(s.nodes, s.loco, Line(Q, s))
         \/ /\ ~s.nodes.latch["turn"].sent /\ ~s.nodes.latch["turn"].done
            /\ ~s.nodes.latch["turn_stop"].sent
            /\ ~HasOnce(Line(Q, s)) => s.loco.speed > 0 /\ NoStop(Line(Q, s))
  PROVE  TurnsOK(Q, u) /\ Turns(u.nodes, u.loco, Line(Q, u)) /\ u.nodes.again > 0
<1>1. PICK c \in Command : c = Plain("back", v) /\ ~c.once /\ ~IsStop(c) /\ ~IsGo(c)
  BY SpeedKinds
<1>2. PICK q \in Seq(Command) : q = Line(Q, s)
  BY LineType
<1>3. /\ SetLine(Q, "turn", now, v, s, u, c) /\ u.loco = s.loco
      /\ LatchOnly(s.nodes, u.nodes, "turn")
  BY <1>1, SetLineFacts
<1>4. /\ u.nodes.stopped = s.nodes.stopped /\ u.nodes.go = s.nodes.go
      /\ u.nodes.turn = s.nodes.turn /\ u.nodes.again = s.nodes.again
      /\ u.nodes.latch["crawl"] = s.nodes.latch["crawl"] /\ u.nodes.latch["done"] = s.nodes.latch["done"]
      /\ u.nodes.latch["turn_go"] = s.nodes.latch["turn_go"]
      /\ u.nodes.latch["turn_stop"] = s.nodes.latch["turn_stop"]
  BY <1>3 DEF LatchOnly, Setters, Turning
<1>5. TurnsOK(Q, u) /\ u.nodes.again > 0
  BY <1>4 DEF TurnsOK
<1>6. s.loco.speed \in Nat
  BY DEF StepState, LocoState
<1>7. CASE (SetDone("turn", now, v, s, u) \/ SetWaits("turn", now, v, s, u)) /\ Line(Q, u) = q
  <2>1. s.nodes.latch["turn"].done \/ s.nodes.latch["turn"].sent
    BY <1>7 DEF SetDone, SetWaits, Confirmed
  <2>2. Turns(s.nodes, s.loco, q)
    BY <1>2, <2>1
  <2> QED BY <1>3, <1>4, <1>5, <1>7, <2>2 DEF Turns
<1>8. CASE SetSends("turn", now, v, s, u, c) /\ Line(Q, u) = Append(q, c) /\ ~HasOnce(q)
  <2>1. PICK p : p = Append(q, c)
    OBVIOUS
  <2>2. /\ ~s.nodes.latch["turn_stop"].sent => s.loco.speed > 0 /\ NoStop(q)
        /\ s.nodes.latch["turn_stop"].sent => GoesLast(q) /\ (s.loco.speed > 0 => NoStop(q))
    BY <1>2, <1>8 DEF Turns
  <2>3. /\ ~s.nodes.latch["turn_stop"].sent => s.loco.speed > 0 /\ NoStop(p)
        /\ s.nodes.latch["turn_stop"].sent => GoesLast(p) /\ (s.loco.speed > 0 => NoStop(p))
        /\ ~HasOnce(p)
    BY <1>1, <1>8, <2>1, <2>2, Sent
  <2> QED BY <1>3, <1>4, <1>5, <1>8, <2>1, <2>3 DEF Turns
<1> QED BY <1>2, <1>3, <1>7, <1>8 DEF SetLine

LEMMA TurnGoSpeed ==
  ASSUME NEW Q \in Seq(Command), NEW s \in StepState, NEW u, Clean(Q, s, u), TurnsOK(Q, s),
         SetRel("turn_go", s.loco.speed, s.nodes.again, s, u, Plain("speed", s.nodes.again)), ~s.loco.rolls,
         Turns(s.nodes, s.loco, Line(Q, s))
  PROVE  /\ u.r = "Running" => TurnsOK(Q, u) /\ Turns(u.nodes, u.loco, Line(Q, u))
         /\ u.r = "Success" => /\ ~u.nodes.stopped /\ u.loco.speed > 0 /\ ~HasOnce(Line(Q, u))
                               /\ NoStop(Line(Q, u)) /\ u.nodes.go > 0
<1>0. s.nodes.again > 0 /\ s.nodes.again \in Nat /\ s.loco.speed \in Nat
  BY DEF Turns, StepState, NodesState, LocoState
<1>1. PICK c \in Command : c = Plain("speed", s.nodes.again) /\ ~c.once /\ ~IsStop(c) /\ IsGo(c)
  BY <1>0, CommandFacts, SpeedKinds
<1>2. PICK q \in Seq(Command) : q = Line(Q, s)
  BY LineType
<1>3. /\ SetLine(Q, "turn_go", s.loco.speed, s.nodes.again, s, u, c) /\ u.loco = s.loco
      /\ LatchOnly(s.nodes, u.nodes, "turn_go")
  BY <1>1, SetLineFacts
<1>4. /\ u.nodes.stopped = s.nodes.stopped /\ u.nodes.go = s.nodes.go
      /\ u.nodes.turn = s.nodes.turn /\ u.nodes.again = s.nodes.again
      /\ u.nodes.latch["crawl"] = s.nodes.latch["crawl"] /\ u.nodes.latch["done"] = s.nodes.latch["done"]
      /\ u.nodes.latch["turn_stop"] = s.nodes.latch["turn_stop"]
  BY <1>3 DEF LatchOnly, Setters, Turning
<1>5. TurnsOK(Q, u)
  BY <1>4 DEF TurnsOK
<1>6. /\ ~s.nodes.stopped /\ ~s.nodes.latch["turn_go"].done /\ ~HasOnce(q)
      /\ ~s.nodes.latch["turn_stop"].sent => s.loco.speed > 0 /\ NoStop(q)
      /\ s.nodes.latch["turn_stop"].sent => GoesLast(q) /\ (s.loco.speed > 0 => NoStop(q))
  BY <1>2 DEF Turns
<1>7. CASE SetDone("turn_go", s.loco.speed, s.nodes.again, s, u) /\ Line(Q, u) = q
  <2>1. u.r = "Success" /\ s.loco.speed = s.nodes.again
    BY <1>6, <1>7 DEF SetDone, Confirmed
  <2> QED BY <1>0, <1>3, <1>4, <1>6, <1>7, <2>1 DEF TurnsOK
<1>8. CASE SetWaits("turn_go", s.loco.speed, s.nodes.again, s, u) /\ Line(Q, u) = q
  BY <1>2, <1>3, <1>5, <1>8 DEF SetWaits
<1>9. CASE SetSends("turn_go", s.loco.speed, s.nodes.again, s, u, c) /\ Line(Q, u) = Append(q, c)
  <2>1. PICK p : p = Append(q, c)
    OBVIOUS
  <2>2. /\ ~s.nodes.latch["turn_stop"].sent => s.loco.speed > 0 /\ NoStop(p)
        /\ s.nodes.latch["turn_stop"].sent => GoesLast(p) /\ (s.loco.speed > 0 => NoStop(p))
        /\ ~HasOnce(p)
    <3>1. /\ GoesLast(q) => GoesLast(p)
          /\ NoStop(q) => NoStop(p)
          /\ ~HasOnce(q) => ~HasOnce(p)
      BY <1>1, <2>1, Sent
    <3> QED BY <1>6, <3>1
  <2>3. u.r = "Running" /\ ~u.nodes.latch["turn_go"].done
    BY <1>9 DEF SetSends
  <2> QED BY <1>0, <1>3, <1>4, <1>5, <1>6, <1>9, <2>1, <2>2, <2>3 DEF Turns
<1> QED BY <1>2, <1>3, <1>7, <1>8, <1>9 DEF SetLine

LEMMA FreshSends ==
  ASSUME NEW s \in StepState, NEW u, NEW n, NEW now, NEW v, NEW c \in Command, SetRel(n, now, v, s, u, c),
         ~s.nodes.latch[n].sent, ~s.nodes.latch[n].done
  PROVE  u.out # s.out /\ u.r = "Running"
<1>1. u.out = Append(s.out, c) /\ u.r = "Running"
  BY DEF SetRel, SetDone, SetWaits, SetSends, Confirmed
<1>2. s.out \in Seq(Command)
  BY DEF StepState
<1>3. Len(u.out) = Len(s.out) + 1 /\ Len(s.out) \in Nat
  BY <1>1, <1>2, AppendProperties, LenProperties
<1> QED BY <1>1, <1>3

PathSound(Q, s, u) ==
  /\ SpeedOK(Q, u) /\ u.loco = s.loco /\ Others(s.nodes, u.nodes)
  /\ u.r = "Success" => u.nodes.turn \in {"none", "done"}

LEMMA PathSpeed ==
  ASSUME NEW Q \in Seq(Command), NEW s \in StepState, NEW u, SpeedOK(Q, s), Clean(Q, s, u), PathRel(s, u),
         s.nodes.latch["crawl"].done, ~s.nodes.stopped,
         s.nodes.turn # "turning" => \A n \in Turning : ~s.nodes.latch[n].sent /\ ~s.nodes.latch[n].done
  PROVE  PathSound(Q, s, u)
<1>1. PICK q \in Seq(Command) : q = Line(Q, s)
  BY LineType
<1>2. SpeedFits(s.nodes, s.loco, q) /\ s.nodes.go > 0
  BY <1>1 DEF SpeedOK, SpeedFits
<1>3. CASE /\ s.nodes.turn \in {"none", "done"} /\ u \in StepState /\ Same(s, u)
           /\ u.nodes = s.nodes /\ u.out = s.out /\ u.r = "Success"
  BY <1>3 DEF PathSound, SpeedOK, Line, Same, SameTrain, Others
<1>4. ASSUME s.nodes.turn \in {"wanted", "turning"}, NEW i \in StepState, InitRel(s, i), TurnRel(i, u)
      PROVE  PathSound(Q, s, u)
  <2>1. /\ i.loco = s.loco /\ i.out = s.out /\ Line(Q, i) = q /\ i.nodes.latch = s.nodes.latch
        /\ i.nodes.stopped = s.nodes.stopped /\ i.nodes.go = s.nodes.go /\ i.nodes.stopping = s.nodes.stopping
        /\ i.nodes.turn = "turning"
        /\ s.nodes.turn = "wanted" => i.nodes.again = s.loco.speed
        /\ s.nodes.turn = "turning" => i.nodes.again = s.nodes.again
    BY <1>1, <1>4 DEF InitRel, Same, SameTrain, SameLatches, SameRun, Line
  <2>2. /\ ~s.nodes.latch["done"].sent /\ ~s.nodes.latch["done"].done
        /\ s.nodes.turn = "turning" => Turns(s.nodes, s.loco, q)
        /\ s.nodes.turn = "wanted" => Runs(s.nodes, s.loco, q)
    BY <1>2, <1>4 DEF SpeedFits, Stops
  <2>3. TurnsOK(Q, i)
    BY <1>2, <2>1, <2>2 DEF TurnsOK
  <2>4. s.nodes.turn = "turning" => Turns(i.nodes, i.loco, q)
    BY <2>1, <2>2 DEF Turns
  <2>5. /\ s.nodes.turn = "wanted" =>
             /\ ~i.nodes.latch["turn_stop"].sent /\ ~i.nodes.latch["turn_stop"].done
             /\ ~i.nodes.latch["turn"].sent /\ ~i.nodes.latch["turn"].done
             /\ ~i.nodes.latch["turn_go"].done
    BY <1>4, <2>1 DEF Turning
  <2>6. s.nodes.turn = "wanted" => (~HasOnce(q) => i.loco.speed > 0 /\ NoStop(q))
    <3>1. Len(q) = 1 => 1 \in DOMAIN q
      BY LenProperties
    <3> QED BY <2>1, <2>2, <3>1, OnceIs DEF Runs
  <2>7. i.nodes.again \in Nat
    BY DEF StepState, NodesState
  <2>8. ASSUME NEW d \in StepState, i.loco.rolls,
               SetRel("turn_stop", i.loco.speed, 0, i, d, Plain("speed", 0)),
               u \in StepState /\ Same(d, u) /\ u.nodes = d.nodes /\ u.out = d.out /\ u.r = "Running"
        PROVE  PathSound(Q, s, u)
    <3>1. Plain("speed", 0) \in Command
      BY CommandFacts
    <3>2. Clean(Q, i, d)
      BY <1>1, <2>1, <2>8 DEF Clean
    <3>3. s.nodes.turn = "wanted" => ~HasOnce(q)
      BY <2>1, <2>5, <2>8, <3>1, <3>2, FreshSends DEF Clean
    <3>4. i.nodes.again > 0 /\ ~i.nodes.latch["turn_go"].done
      BY <1>4, <2>1, <2>4, <2>5, <2>6, <3>3 DEF Turns
    <3>5. TurnsOK(Q, d) /\ Turns(d.nodes, d.loco, Line(Q, d))
      <4>1. \/ Turns(i.nodes, i.loco, Line(Q, i))
            \/ /\ ~i.nodes.latch["turn_stop"].sent /\ ~i.nodes.latch["turn_stop"].done
               /\ ~HasOnce(Line(Q, i)) => i.loco.speed > 0 /\ NoStop(Line(Q, i))
        BY <1>4, <2>1, <2>4, <2>5, <2>6
      <4>2. ~i.nodes.stopped
        BY <2>1
      <4> QED BY <2>3, <2>8, <3>2, <3>4, <4>1, <4>2, TurnStopSpeed
    <3>6. SpeedOK(Q, d)
      BY <3>5, TurnsMeans
    <3>7. d.loco = s.loco /\ Others(s.nodes, d.nodes)
      BY <2>1, <2>8 DEF SetRel, Same, SameTrain, LatchOnly, Others, Turning
    <3> QED BY <2>8, <3>6, <3>7 DEF PathSound, SpeedOK, Line, Same, SameTrain
  <2>9. ASSUME ~i.loco.rolls, NEW d \in StepState,
               SetRel("turn", i.loco.back, i.nodes.back, i, d, Plain("back", i.nodes.back)),
               \/ d.r = "Running" /\ u = d
               \/ /\ d.r = "Success"
                  /\ \E g \in StepState :
                       /\ \/ d.nodes.again = 0 /\ g = d
                          \/ d.nodes.again > 0 /\ SetRel("turn_go", d.loco.speed, d.nodes.again, d, g,
                                                         Plain("speed", d.nodes.again))
                       /\ \/ g.r = "Running" /\ u = g
                          \/ g.r = "Success" /\ FinishRel(g, u)
        PROVE  PathSound(Q, s, u)
    <3>1. Plain("back", i.nodes.back) \in Command
      <4>1. i.nodes.back \in BOOLEAN
        BY DEF StepState, NodesState
      <4> QED BY <4>1, CommandFacts
    <3>2. d.out = i.out \/ d.r = "Running"
      BY <2>9 DEF SetRel, SetDone, SetWaits, SetSends
    <3>3. Clean(Q, i, d)
      <4>1. CASE d.out = i.out
        BY <4>1 DEF Clean
      <4>2. CASE d.r = "Running"
        BY <1>1, <2>1, <2>9, <4>2 DEF Clean
      <4> QED BY <3>2, <4>1, <4>2
    <3>4. s.nodes.turn = "wanted" => ~HasOnce(q) /\ d.r = "Running"
      BY <2>1, <2>5, <2>9, <3>1, <3>3, FreshSends DEF Clean
    <3>5. i.nodes.again > 0 /\ ~i.nodes.latch["turn_go"].done
      BY <1>4, <2>1, <2>4, <2>5, <2>6, <3>4 DEF Turns
    <3>6. TurnsOK(Q, d) /\ Turns(d.nodes, d.loco, Line(Q, d)) /\ d.nodes.again > 0
      <4>1. \/ Turns(i.nodes, i.loco, Line(Q, i))
            \/ /\ ~i.nodes.latch["turn"].sent /\ ~i.nodes.latch["turn"].done
               /\ ~i.nodes.latch["turn_stop"].sent
               /\ ~HasOnce(Line(Q, i)) => i.loco.speed > 0 /\ NoStop(Line(Q, i))
        BY <1>4, <2>1, <2>4, <2>5, <2>6
      <4>2. ~i.nodes.stopped
        BY <2>1
      <4> QED BY <2>3, <2>9, <3>1, <3>3, <3>5, <4>1, <4>2, TurnBackSpeed
    <3>7. SpeedOK(Q, d)
      BY <3>6, TurnsMeans
    <3>8. d.loco = s.loco /\ Others(s.nodes, d.nodes)
      BY <2>1, <2>9 DEF SetRel, Same, SameTrain, LatchOnly, Others, Turning
    <3>9. CASE d.r = "Running" /\ u = d
      BY <3>7, <3>8, <3>9 DEF PathSound
    <3>10. ASSUME d.r = "Success", NEW g \in StepState,
                  SetRel("turn_go", d.loco.speed, d.nodes.again, d, g, Plain("speed", d.nodes.again)),
                  \/ g.r = "Running" /\ u = g
                  \/ g.r = "Success" /\ FinishRel(g, u)
           PROVE  PathSound(Q, s, u)
      <4>1. u.out = g.out /\ d.out = s.out /\ Line(Q, d) = q
        BY <1>1, <2>1, <3>2, <3>10 DEF FinishRel, Line
      <4>2. Clean(Q, d, g) /\ ~d.loco.rolls
        BY <1>1, <2>1, <2>9, <3>8, <4>1 DEF Clean
      <4>3. /\ g.r = "Running" => TurnsOK(Q, g) /\ Turns(g.nodes, g.loco, Line(Q, g))
            /\ g.r = "Success" => /\ ~g.nodes.stopped /\ g.loco.speed > 0 /\ ~HasOnce(Line(Q, g))
                                  /\ NoStop(Line(Q, g)) /\ g.nodes.go > 0
        BY <3>6, <3>10, <4>2, TurnGoSpeed
      <4>4. g.loco = s.loco /\ Others(s.nodes, g.nodes)
        BY <3>8, <3>10 DEF SetRel, Same, SameTrain, LatchOnly, Others, Turning
      <4>5. CASE g.r = "Running" /\ u = g
        <5>1. SpeedOK(Q, g)
          BY <4>3, <4>5, TurnsMeans
        <5> QED BY <4>4, <4>5, <5>1 DEF PathSound
      <4>6. CASE g.r = "Success" /\ FinishRel(g, u)
        <5>1. /\ u.loco = s.loco /\ Line(Q, u) = Line(Q, g) /\ Others(s.nodes, u.nodes) /\ u.nodes.turn = "done"
              /\ u.nodes.stopped = g.nodes.stopped /\ u.nodes.go = g.nodes.go
          BY <4>4, <4>6 DEF FinishRel, Same, SameTrain, SameRun, Others, Line
        <5>2. Runs(u.nodes, u.loco, Line(Q, u))
          BY <4>3, <4>4, <4>6, <5>1 DEF Runs
        <5>3. u.nodes.latch["crawl"] = s.nodes.latch["crawl"] /\ u.nodes.latch["done"] = s.nodes.latch["done"]
          BY <5>1 DEF Others, Setters, Turning
        <5>4. SpeedOK(Q, u)
          BY <2>2, <4>3, <4>6, <5>1, <5>2, <5>3 DEF SpeedOK, SpeedFits
        <5> QED BY <5>1, <5>4 DEF PathSound
      <4> QED BY <3>10, <4>5, <4>6
    <3> QED BY <2>9, <3>6, <3>9, <3>10
  <2> QED BY <1>4, <2>8, <2>9 DEF TurnRel
<1> QED BY <1>3, <1>4 DEF PathRel
-----------------------------------------------------------------------------
(* A tick. *)
-----------------------------------------------------------------------------
(* A whole tick: the turn for both trees, leaf by leaf.                     *)
Plainly == {"crawl", "max", "test", "slow", "test_2", "stop"}
LeafNames == Plainly \cup {"reserve", "path", "done"} \cup Repeats
LeafSound(W, s, u) ==
  /\ u \in StepState /\ u.loco = s.loco /\ TurnOK(W, u)
  /\ s.nodes.turn \in {"turning", "done"} =>
       u.nodes.turn \in {"turning", "done"} /\ u.nodes.back = s.nodes.back

LEMMA SpeedsOf == \A n \in Plainly : SpeedOf(n) \in Nat
BY TreesAssumption DEF Plainly, SpeedOf

LEMMA PlainLeaf ==
  ASSUME NEW s \in StepState, NEW n \in Plainly
  PROVE  SetRel(n, s.loco.speed, SpeedOf(n), s, TickLeaf(n, s), Plain("speed", SpeedOf(n)))
<1>1. TickLeaf(n, s) = Set(n, "speed", SpeedOf(n), s)
  BY DEF TickLeaf, Plainly, Repeats
<1>2. n \in Setters /\ Plain("speed", SpeedOf(n)) \in Command
  BY SpeedsOf, CommandFacts DEF Plainly, Setters
<1> QED BY <1>1, <1>2, SetFacts DEF Now

LEMMA QuietSound ==
  ASSUME NEW W, NEW s, NEW u \in StepState, SameTrain(s, u), Quiet(s.nodes, u.nodes), TurnOK(W, u)
  PROVE  LeafSound(W, s, u)
BY DEF LeafSound, SameTrain, Quiet

LEMMA LeafTurn ==
  ASSUME NEW W, NEW s \in StepState, NEW n \in LeafNames, s.r = "Success", TurnOK(W, s)
  PROVE  LeafSound(W, s, TickLeaf(n, s))
<1>0. PICK u : u = TickLeaf(n, s)
  OBVIOUS
<1>1. CASE n \in Plainly
  <2>1. SetRel(n, s.loco.speed, SpeedOf(n), s, u, Plain("speed", SpeedOf(n)))
    BY <1>0, <1>1, PlainLeaf
  <2>2. n \in Setters \ Turning /\ SpeedOf(n) \in Nat
    BY <1>1, SpeedsOf DEF Plainly, Setters, Turning
  <2>3. TurnOK(W, u)
    BY <2>1, <2>2, SetQuiet
  <2>4. u \in StepState /\ Same(s, u) /\ Quiet(s.nodes, u.nodes)
    BY <2>1, <2>2 DEF SetRel, LatchOnly, Quiet, Setters
  <2> QED BY <1>0, <2>3, <2>4, QuietSound DEF Same
<1>2. CASE n = "reserve"
  <2>1. ReserveRel(s, u)
    BY <1>0, <1>2, ReserveFacts DEF TickLeaf, Repeats
  <2>2. u \in StepState /\ Same(s, u) /\ Quiet(s.nodes, u.nodes)
    BY <2>1 DEF ReserveRel, Quiet
  <2>3. \A v \in Nat : Once(v) \in Command /\ Speeds(Once(v))
    BY CommandFacts, Kinds
  <2>4. s.nodes.go \in Nat
    BY DEF StepState, NodesState
  <2>5. u.out = s.out \/ \E c \in Command : Speeds(c) /\ u.out = Append(s.out, c)
    BY <2>1, <2>3, <2>4 DEF ReserveRel
  <2>6. TurnOK(W, u)
    BY <2>2, <2>5, QuietTurn DEF Same
  <2> QED BY <1>0, <2>2, <2>6, QuietSound DEF Same
<1>3. CASE n = "path"
  <2>1. PathRel(s, u)
    BY <1>0, <1>3, PathFacts DEF TickLeaf, Repeats
  <2> QED BY <1>0, <2>1, PathTurn DEF LeafSound
<1>4. CASE n = "done"
  <2>1. StopRel(s, u)
    BY <1>0, <1>4, StopFacts DEF TickLeaf, Repeats
  <2>2. CASE u \in StepState /\ Same(s, u) /\ u.nodes = s.nodes /\ u.out = s.out /\ u.r = "Running"
    BY <1>0, <2>2 DEF LeafSound, TurnOK, Same, SameTrain
  <2>3. ASSUME NEW i \in StepState, NEW d \in StepState,
               Same(s, i) /\ i.out = s.out /\ SameLatches(s.nodes, i.nodes) /\ SameTurn(s.nodes, i.nodes),
               SetRel("done", i.loco.speed, 0, i, d, Plain("speed", 0)),
               u \in StepState /\ Same(d, u) /\ u.nodes = d.nodes /\ u.out = d.out
        PROVE  LeafSound(W, s, u)
    <3>1. Quiet(s.nodes, i.nodes)
      BY <2>3 DEF Quiet, SameLatches, SameTurn
    <3>2. TurnOK(W, i)
      BY <2>3, <3>1, QuietTurn DEF Same
    <3>3. "done" \in Setters \ Turning
      BY DEF Setters, Turning
    <3>4. TurnOK(W, d)
      BY <2>3, <3>2, <3>3, SetQuiet
    <3>5. Quiet(s.nodes, u.nodes) /\ Same(s, u)
      BY <2>3, <3>1, <3>3 DEF SetRel, LatchOnly, Quiet, Same, SameTrain, Setters
    <3>6. TurnOK(W, u)
      BY <2>3, <3>4 DEF TurnOK, Same, SameTrain
    <3> QED BY <2>3, <3>5, <3>6, QuietSound DEF Same
  <2> QED BY <1>0, <2>1, <2>2, <2>3 DEF StopRel
<1>5. CASE n \in Repeats
  <2>1. u = RepeatTick(n, s)
    BY <1>0, <1>5 DEF TickLeaf, Repeats
  <2>2. RepeatRel(n, s, u)
    BY <1>5, <2>1, RepeatFacts
  <2>3. u \in StepState /\ SameTrain(s, u) /\ Quiet(s.nodes, u.nodes) /\ u.out = s.out
    BY <2>2 DEF RepeatRel, Quiet
  <2>4. TurnOK(W, u)
    BY <2>3, QuietTurn
  <2> QED BY <1>0, <2>3, <2>4, QuietSound
<1> QED BY <1>1, <1>2, <1>3, <1>4, <1>5 DEF LeafNames

LEMMA NextSound ==
  ASSUME NEW W, NEW s, NEW u, NEW n \in LeafNames, LeafSound(W, s, u)
  PROVE  LeafSound(W, s, NextLeaf(n, u))
<1>1. u \in StepState /\ TurnOK(W, u)
  BY DEF LeafSound
<1>2. CASE u.r = "Success"
  <2>1. LeafSound(W, u, TickLeaf(n, u)) /\ NextLeaf(n, u) = TickLeaf(n, u)
    BY <1>1, <1>2, LeafTurn, AfterSuccess
  <2> QED BY <2>1 DEF LeafSound
<1>3. CASE u.r # "Success"
  BY <1>3, AfterSuccess
<1> QED BY <1>2, <1>3

LEMMA TreeLeaves ==
  ASSUME tree \in {"navigate", "calibrate"}
  PROVE  Len(Leaves(tree)) \in Nat /\ \A k \in 1 .. Len(Leaves(tree)) : Leaves(tree)[k] \in LeafNames
<1>1. CASE tree = "navigate"
  BY <1>1 DEF Leaves, LeafNames, Plainly
<1>2. CASE tree # "navigate"
  BY <1>2 DEF Leaves, LeafNames, Plainly, Repeats
<1> QED BY <1>1, <1>2

LEMMA TickTurn ==
  ASSUME NEW W, NEW s \in StepState, TurnOK(W, s), tree \in {"navigate", "calibrate"}
  PROVE  LeafSound(W, s, Tick(s))
<1>1. PICK leaves : leaves = Leaves(tree)
  OBVIOUS
<1>2. Len(leaves) \in Nat /\ \A k \in 1 .. Len(leaves) : leaves[k] \in LeafNames
  BY <1>1, TreeLeaves
<1>3. PICK f : /\ f[0] = s /\ \A k \in 1 .. Len(leaves) : f[k] = NextLeaf(leaves[k], f[k - 1])
               /\ Sequence(leaves, s) = f[Len(leaves)]
  BY <1>2, Ticked
<1> DEFINE S == {m \in Nat : m <= Len(leaves) => LeafSound(W, s, f[m])}
<1>4. 0 \in S
  BY <1>3 DEF LeafSound
<1>5. ASSUME NEW m \in S PROVE m + 1 \in S
  <2>1. SUFFICES ASSUME m + 1 <= Len(leaves) PROVE LeafSound(W, s, f[m + 1])
    OBVIOUS
  <2>2. m \in Nat /\ LeafSound(W, s, f[m]) /\ m + 1 \in 1 .. Len(leaves) /\ (m + 1) - 1 = m
    BY <1>2, <2>1
  <2>3. f[m + 1] = NextLeaf(leaves[m + 1], f[m]) /\ leaves[m + 1] \in LeafNames
    BY <1>2, <1>3, <2>2
  <2> QED BY <2>2, <2>3, NextSound
<1>6. S = Nat
  <2> HIDE DEF S
  <2>1. S \in SUBSET Nat
    BY DEF S
  <2> QED BY <1>4, <1>5, <2>1, SetInduction
<1>7. LeafSound(W, s, f[Len(leaves)])
  BY <1>2, <1>6
<1> QED BY <1>1, <1>3, <1>7 DEF Tick

(* What a later leaf sends comes after what an earlier one has sent.        *)
OneMore(s, u) == u.out = s.out \/ \E c \in Command : u.out = Append(s.out, c)
Earlier(s, u) == u.out = s.out \/ (u.out # <<>> /\ Range(s.out) \subseteq Range(Front(u.out)))

LEMMA FrontFacts ==
  ASSUME NEW q \in Seq(Command)
  PROVE  /\ Range(Front(q)) \subseteq Range(q)
         /\ \A c \in Command : Front(Append(q, c)) = q /\ Append(q, c) # <<>>
<1>1. Range(Front(q)) \subseteq Range(q)
  <2>1. /\ DOMAIN Front(q) \subseteq DOMAIN q
        /\ \A i \in DOMAIN Front(q) : Front(q)[i] = q[i]
    <3>1. CASE q = <<>>
      <4>1. Len(q) = 0
        BY <3>1
      <4>2. Front(q) = <<>>
        BY <3>1, <4>1 DEF Front
      <4> QED BY <3>1, <4>2
    <3>2. CASE q # <<>>
      <4>1. Len(q) \in Nat /\ Len(q) > 0
        BY <3>2, LenProperties, EmptySeq
      <4>2. PICK m \in Nat : m = Len(q) - 1
        BY <4>1
      <4>3. \A i \in 1 .. m : q[i] \in Command
        BY <4>1, <4>2, ElementOfSeq
      <4>4. /\ Front(q) = SubSeq(q, 1, m) /\ SubSeq(q, 1, m) \in Seq(Command)
            /\ Len(SubSeq(q, 1, m)) = m /\ \A i \in 1 .. m : SubSeq(q, 1, m)[i] = q[i]
        <5>1. 1 \in Int /\ m \in Int
          BY <4>2
        <5> QED BY <4>2, <4>3, <5>1, SubSeqProperties DEF Front
      <4> QED BY <4>1, <4>2, <4>4, LenProperties
    <3> QED BY <3>1, <3>2
  <2> QED BY <2>1 DEF Range
<1>2. ASSUME NEW c \in Command PROVE Front(Append(q, c)) = q /\ Append(q, c) # <<>>
  <2>1. PICK p : p = Append(q, c)
    OBVIOUS
  <2>2. p \in Seq(Command) /\ Len(q) \in Nat /\ Len(p) = Len(q) + 1 /\ \A i \in 1 .. Len(q) : p[i] = q[i]
    BY <2>1, AppendProperties, LenProperties
  <2>3. p # <<>>
    BY <2>2
  <2>4. /\ Len(Front(p)) = Len(q) /\ Front(p) \in Seq(Command)
        /\ \A i \in 1 .. Len(q) : Front(p)[i] = p[i]
    BY <2>2, SubSeqProperties DEF Front
  <2>5. \A i \in 1 .. Len(q) : Front(p)[i] = q[i]
    BY <2>2, <2>4
  <2>6. Front(p) = q
    BY <2>4, <2>5, SeqEqual
  <2> QED BY <2>1, <2>3, <2>6
<1> QED BY <1>1, <1>2

LEMMA EarlierOne ==
  ASSUME NEW s \in StepState, NEW u, OneMore(s, u) PROVE Earlier(s, u)
<1>1. s.out \in Seq(Command)
  BY DEF StepState
<1> QED BY <1>1, FrontFacts DEF OneMore, Earlier

LEMMA EarlierAll ==
  ASSUME NEW a, NEW b \in StepState, NEW c, Earlier(a, b), Earlier(b, c) PROVE Earlier(a, c)
<1>1. b.out \in Seq(Command)
  BY DEF StepState
<1>2. Range(Front(b.out)) \subseteq Range(b.out)
  BY <1>1, FrontFacts
<1> QED BY <1>2 DEF Earlier

LEMMA OnceRange == \A q : HasOnce(q) <=> \E c \in Range(q) : c.once
BY DEF HasOnce, ToSet, Range

LEMMA LineRange ==
  ASSUME NEW Q \in Seq(Command), NEW s \in StepState
  PROVE  /\ \A c : c \in Range(Line(Q, s)) <=> c \in Range(Q) \/ c \in Range(s.out)
         /\ NoStop(Line(Q, s)) => NoStop(Q)
<1>1. s.out \in Seq(Command)
  BY DEF StepState
<1>2. Range(Line(Q, s)) = Range(Q) \cup Range(s.out)
  BY <1>1, RangeConcatenation DEF Line
<1>3. \A q : NoStop(q) <=> \A c \in Range(q) : ~IsStop(c)
  BY DEF NoStop, Range
<1> QED BY <1>2, <1>3

\* Nothing of PathReservationNode was under way when another node sent.
Unmixed(Q, t) == t.out # <<>> => \A c : c \in Range(Q) \/ c \in Range(Front(t.out)) => ~c.once

LEMMA CleanLeaf ==
  ASSUME NEW Q \in Seq(Command), NEW s \in StepState, NEW u, NEW t, OneMore(s, u), Earlier(u, t), Unmixed(Q, t),
         u \in StepState
  PROVE  Clean(Q, s, u)
<1>1. SUFFICES ASSUME u.out # s.out PROVE ~HasOnce(Line(Q, s))
  BY DEF Clean
<1>2. u.out # <<>> /\ Range(s.out) \subseteq Range(Front(u.out))
  BY <1>1, EarlierOne DEF Earlier
<1>3. t.out # <<>> /\ Range(s.out) \subseteq Range(Front(t.out))
  <2>1. u.out \in Seq(Command)
    BY DEF StepState
  <2>2. Range(Front(u.out)) \subseteq Range(u.out)
    BY <2>1, FrontFacts
  <2> QED BY <1>2, <2>2 DEF Earlier
<1>4. \A c \in Range(Line(Q, s)) : ~c.once
  BY <1>3, LineRange DEF Unmixed
<1> QED BY <1>4, OnceRange

LEMMA SetOneMore ==
  ASSUME NEW s, NEW u, NEW n, NEW now, NEW v, NEW c \in Command, SetRel(n, now, v, s, u, c)
  PROVE  OneMore(s, u)
BY DEF SetRel, SetDone, SetWaits, SetSends, OneMore

LEMMA LeafOneMore ==
  ASSUME NEW s \in StepState, NEW n \in {"crawl", "reserve", "path", "max", "done"}, s.r = "Success"
  PROVE  OneMore(s, TickLeaf(n, s))
<1>0. PICK u : u = TickLeaf(n, s)
  OBVIOUS
<1>1. CASE n \in {"crawl", "max"}
  <2>1. n \in Plainly
    BY <1>1 DEF Plainly
  <2>2. Plain("speed", SpeedOf(n)) \in Command
    BY <2>1, SpeedsOf, CommandFacts
  <2> QED BY <2>1, <2>2, PlainLeaf, SetOneMore
<1>2. CASE n = "reserve"
  <2>1. ReserveRel(s, u)
    BY <1>0, <1>2, ReserveFacts DEF TickLeaf, Repeats
  <2>2. \A v \in Nat : Once(v) \in Command
    BY CommandFacts
  <2>3. s.nodes.go \in Nat
    BY DEF StepState, NodesState
  <2> QED BY <1>0, <2>1, <2>2, <2>3 DEF ReserveRel, OneMore
<1>3. CASE n = "path"
  <2>1. PathRel(s, u)
    BY <1>0, <1>3, PathFacts DEF TickLeaf, Repeats
  <2>2. ASSUME NEW i \in StepState, InitRel(s, i), TurnRel(i, u) PROVE OneMore(s, u)
    <3>1. i.out = s.out
      BY <2>2 DEF InitRel
    <3>2. \A v \in Nat : Plain("speed", v) \in Command
      BY CommandFacts
    <3>3. i.nodes.back \in BOOLEAN
      BY DEF StepState, NodesState
    <3>4. Plain("back", i.nodes.back) \in Command
      BY <3>3, CommandFacts
    <3>5. ASSUME NEW d \in StepState, SetRel("turn_stop", i.loco.speed, 0, i, d, Plain("speed", 0)), u.out = d.out
          PROVE  OneMore(s, u)
      BY <3>1, <3>2, <3>5, SetOneMore DEF OneMore
    <3>6. ASSUME NEW d \in StepState,
                 SetRel("turn", i.loco.back, i.nodes.back, i, d, Plain("back", i.nodes.back)),
                 \/ d.r = "Running" /\ u = d
                 \/ /\ d.r = "Success"
                    /\ \E g \in StepState :
                         /\ \/ d.nodes.again = 0 /\ g = d
                            \/ d.nodes.again > 0 /\ SetRel("turn_go", d.loco.speed, d.nodes.again, d, g,
                                                           Plain("speed", d.nodes.again))
                         /\ \/ g.r = "Running" /\ u = g
                            \/ g.r = "Success" /\ FinishRel(g, u)
          PROVE  OneMore(s, u)
      <4>1. OneMore(i, d)
        BY <3>4, <3>6, SetOneMore
      <4>2. CASE d.r = "Running" /\ u = d
        BY <3>1, <4>1, <4>2 DEF OneMore
      <4>3. ASSUME d.r = "Success", NEW g \in StepState,
                   \/ d.nodes.again = 0 /\ g = d
                   \/ d.nodes.again > 0 /\ SetRel("turn_go", d.loco.speed, d.nodes.again, d, g,
                                                  Plain("speed", d.nodes.again)),
                   \/ g.r = "Running" /\ u = g
                   \/ g.r = "Success" /\ FinishRel(g, u)
            PROVE  OneMore(s, u)
        <5>1. d.out = i.out
          BY <3>6, <4>3 DEF SetRel, SetDone, SetWaits, SetSends
        <5>2. u.out = g.out
          BY <4>3 DEF FinishRel
        <5>3. d.nodes.again \in Nat
          BY DEF StepState, NodesState
        <5>4. OneMore(d, g)
          <6>1. CASE d.nodes.again = 0 /\ g = d
            BY <6>1 DEF OneMore
          <6>2. CASE SetRel("turn_go", d.loco.speed, d.nodes.again, d, g, Plain("speed", d.nodes.again))
            BY <3>2, <5>3, <6>2, SetOneMore
          <6> QED BY <4>3, <6>1, <6>2
        <5> QED BY <3>1, <5>1, <5>2, <5>4 DEF OneMore
      <4> QED BY <3>6, <4>2, <4>3
    <3> QED BY <2>2, <3>5, <3>6 DEF TurnRel
  <2>3. CASE u.out = s.out
    BY <1>0, <2>3 DEF OneMore
  <2> QED BY <1>0, <2>1, <2>2, <2>3 DEF PathRel
<1>4. CASE n = "done"
  <2>1. StopRel(s, u)
    BY <1>0, <1>4, StopFacts DEF TickLeaf, Repeats
  <2>2. CASE u.out = s.out
    BY <1>0, <2>2 DEF OneMore
  <2>3. ASSUME NEW i \in StepState, NEW d \in StepState, i.out = s.out,
               SetRel("done", i.loco.speed, 0, i, d, Plain("speed", 0)), u.out = d.out
        PROVE  OneMore(s, u)
    <3>1. Plain("speed", 0) \in Command
      BY CommandFacts
    <3>2. OneMore(i, d)
      BY <2>3, <3>1, SetOneMore
    <3> QED BY <2>3, <3>2 DEF OneMore
  <2> QED BY <1>0, <2>1, <2>2, <2>3 DEF StopRel
<1> QED BY <1>1, <1>2, <1>3, <1>4

LEMMA NextOneMore ==
  ASSUME NEW s \in StepState, NEW n \in {"crawl", "reserve", "path", "max", "done"}
  PROVE  OneMore(s, NextLeaf(n, s))
<1>1. CASE s.r = "Success"
  BY <1>1, AfterSuccess, LeafOneMore
<1>2. CASE s.r # "Success"
  BY <1>2, AfterSuccess DEF OneMore
<1> QED BY <1>1, <1>2

\* A leaf in a tick that ends with t.
LEMMA InTick ==
  ASSUME NEW Q \in Seq(Command), NEW s \in StepState, NEW n \in {"crawl", "reserve", "path", "max", "done"},
         NEW u \in StepState, u = NextLeaf(n, s), NEW t, Earlier(u, t), Unmixed(Q, t)
  PROVE  Clean(Q, s, u) /\ Earlier(s, t)
<1>1. OneMore(s, u)
  BY NextOneMore
<1>2. Earlier(s, u)
  BY <1>1, EarlierOne
<1> QED BY <1>1, <1>2, CleanLeaf, EarlierAll

LEMMA NavigateTick ==
  ASSUME NEW s, s.r = "Success", tree = "navigate"
  PROVE  \E a, b, c, d : /\ a = NextLeaf("crawl", s) /\ b = NextLeaf("reserve", a) /\ c = NextLeaf("path", b)
                         /\ d = NextLeaf("max", c) /\ Tick(s) = NextLeaf("done", d)
<1>1. PICK leaves : leaves = <<"crawl", "reserve", "path", "max", "done">>
  OBVIOUS
<1>2. Tick(s) = Sequence(leaves, s) /\ Len(leaves) = 5 /\ Len(leaves) \in Nat
  BY <1>1 DEF Tick, Leaves
<1>3. /\ leaves[1] = "crawl" /\ leaves[2] = "reserve" /\ leaves[3] = "path"
      /\ leaves[4] = "max" /\ leaves[5] = "done"
  BY <1>1
<1>4. PICK f : /\ f[0] = s /\ \A k \in 1 .. Len(leaves) : f[k] = NextLeaf(leaves[k], f[k - 1])
               /\ Sequence(leaves, s) = f[Len(leaves)]
  BY <1>2, Ticked
<1>5. /\ f[1] = NextLeaf(leaves[1], f[0]) /\ f[2] = NextLeaf(leaves[2], f[1])
      /\ f[3] = NextLeaf(leaves[3], f[2]) /\ f[4] = NextLeaf(leaves[4], f[3])
      /\ f[5] = NextLeaf(leaves[5], f[4])
  <2>1. \A k \in 1 .. 5 : f[k] = NextLeaf(leaves[k], f[k - 1])
    BY <1>2, <1>4
  <2>2. /\ 1 \in 1 .. 5 /\ 2 \in 1 .. 5 /\ 3 \in 1 .. 5 /\ 4 \in 1 .. 5 /\ 5 \in 1 .. 5
        /\ 1 - 1 = 0 /\ 2 - 1 = 1 /\ 3 - 1 = 2 /\ 4 - 1 = 3 /\ 5 - 1 = 4
    OBVIOUS
  <2> QED BY <2>1, <2>2
<1> QED BY <1>2, <1>3, <1>4, <1>5

LEMMA SoundHere ==
  ASSUME NEW W, NEW s \in StepState, TurnOK(W, s) PROVE LeafSound(W, s, s)
BY DEF LeafSound

\* Until StopAtDonePath is ticked, the tree's last latch is as before.
Before(s, u) == u.loco = s.loco /\ u.nodes.latch["done"] = s.nodes.latch["done"]

LEMMA CrawlLeaf ==
  ASSUME NEW Q \in Seq(Command), NEW s \in StepState, NEW u, s.r = "Success", u = NextLeaf("crawl", s),
         SpeedOK(Q, s), Clean(Q, s, u)
  PROVE  /\ SpeedOK(Q, u) /\ Before(s, u) /\ u.reserved = s.reserved /\ u.nodes.stopping = s.nodes.stopping
         /\ u.nodes.turn = s.nodes.turn
         /\ u.r = "Success" => u.nodes.latch["crawl"].done
<1>1. u = TickLeaf("crawl", s)
  BY AfterSuccess
<1>2. "crawl" \in Plainly /\ SpeedOf("crawl") = CRAWL
  BY DEF Plainly, SpeedOf
<1>3. SetRel("crawl", s.loco.speed, CRAWL, s, u, Plain("speed", CRAWL))
  BY <1>1, <1>2, PlainLeaf
<1>4. "done" \in Setters \ {"crawl"}
  BY DEF Setters
<1>5. /\ Before(s, u) /\ u.reserved = s.reserved /\ u.nodes.stopping = s.nodes.stopping
      /\ u.nodes.turn = s.nodes.turn
  BY <1>3, <1>4 DEF SetRel, Same, SameTrain, LatchOnly, Before
<1> QED BY <1>3, <1>5, CrawlSpeed

LEMMA ReserveLeaf ==
  ASSUME NEW Q \in Seq(Command), NEW s \in StepState, NEW u, u = NextLeaf("reserve", s),
         SpeedOK(Q, s), s.r = "Success" => Clean(Q, s, u) /\ s.nodes.latch["crawl"].done,
         s.nodes.stopping => s.reserved = "all",
         NEW t \in StepState, Earlier(u, t), s.nodes.turn = "turning" => ~HasOnce(t.out)
  PROVE  /\ SpeedOK(Q, u) /\ Before(s, u)
         /\ u.r = "Success" => u.nodes.latch["crawl"].done /\ ~u.nodes.stopped
<1>1. CASE s.r # "Success"
  BY <1>1, AfterSuccess DEF Before
<1>2. CASE s.r = "Success"
  <2>1. u = Reserve(s)
    BY <1>2, AfterSuccess DEF TickLeaf, Repeats
  <2>2. ReserveRel(s, u)
    BY <2>1, ReserveFacts
  <2>3. ASSUME s.nodes.turn = "turning" PROVE u.out = s.out
    <3>1. \A c \in Range(t.out) : ~c.once
      BY <2>3, OnceRange
    <3>2. u \in StepState /\ u.out \in Seq(Command)
      BY <2>2 DEF ReserveRel, StepState
    <3>3. ASSUME NEW v \in Nat, u.out = Append(s.out, Once(v)) PROVE FALSE
      <4>1. Once(v) \in Command /\ Once(v).once
        BY CommandFacts, SpeedKinds
      <4>2. s.out \in Seq(Command)
        BY DEF StepState
      <4>3. Once(v) \in Range(u.out)
        <5>1. PICK c \in Command : c = Once(v)
          BY <4>1
        <5>2. Range(Append(s.out, c)) = Range(s.out) \cup {c}
          BY <4>2, QueueAppend
        <5> QED BY <3>3, <5>1, <5>2
      <4>4. CASE t.out = u.out
        BY <3>1, <4>1, <4>3, <4>4
      <4>5. CASE t.out # <<>> /\ Range(u.out) \subseteq Range(Front(t.out))
        <5>1. t.out \in Seq(Command)
          BY DEF StepState
        <5> QED BY <3>1, <4>1, <4>3, <4>5, <5>1, FrontFacts
      <4> QED BY <4>4, <4>5 DEF Earlier
    <3>4. s.nodes.go \in Nat /\ 0 \in Nat
      BY DEF StepState, NodesState
    <3> QED BY <2>2, <3>3, <3>4 DEF ReserveRel
  <2>4. SpeedOK(Q, u) /\ (u.r = "Success" => ~u.nodes.stopped)
    BY <1>2, <2>2, <2>3, ReserveSpeed
  <2>5. Before(s, u) /\ u.nodes.latch["crawl"] = s.nodes.latch["crawl"]
    BY <2>2 DEF ReserveRel, Same, SameTrain, Before
  <2> QED BY <1>2, <2>4, <2>5
<1> QED BY <1>1, <1>2

LEMMA PathLeaf ==
  ASSUME NEW Q \in Seq(Command), NEW s \in StepState, NEW u, u = NextLeaf("path", s), SpeedOK(Q, s),
         NEW W, TurnOK(W, s),
         s.r = "Success" => Clean(Q, s, u) /\ s.nodes.latch["crawl"].done /\ ~s.nodes.stopped
  PROVE  /\ SpeedOK(Q, u) /\ Before(s, u)
         /\ u.r = "Success" => /\ u.nodes.latch["crawl"].done /\ ~u.nodes.stopped
                               /\ u.nodes.turn \in {"none", "done"}
<1>1. CASE s.r # "Success"
  BY <1>1, AfterSuccess DEF Before
<1>2. CASE s.r = "Success"
  <2>1. u = PathToNode(s)
    BY <1>2, AfterSuccess DEF TickLeaf, Repeats
  <2>2. PathRel(s, u)
    BY <1>2, <2>1, PathFacts
  <2>3. s.nodes.turn # "turning" => \A n \in Turning : ~s.nodes.latch[n].sent /\ ~s.nodes.latch[n].done
    BY DEF TurnOK, TurnFits
  <2>4. PathSound(Q, s, u)
    BY <1>2, <2>2, <2>3, PathSpeed
  <2>5. "done" \in Setters \ Turning /\ "crawl" \in Setters \ Turning
    BY DEF Setters, Turning
  <2> QED BY <1>2, <2>4, <2>5 DEF PathSound, Others, Before
<1> QED BY <1>1, <1>2

LEMMA MaxLeaf ==
  ASSUME NEW Q \in Seq(Command), NEW s \in StepState, NEW u, u = NextLeaf("max", s), SpeedOK(Q, s),
         s.r = "Success" => /\ Clean(Q, s, u) /\ s.nodes.latch["crawl"].done /\ ~s.nodes.stopped
                            /\ s.nodes.turn \in {"none", "done"}
  PROVE  /\ SpeedOK(Q, u) /\ Before(s, u)
         /\ u.r = "Success" => /\ u.nodes.latch["crawl"].done /\ u.nodes.latch["max"].done
                               /\ ~u.nodes.stopped /\ u.nodes.turn \in {"none", "done"}
<1>1. CASE s.r # "Success"
  BY <1>1, AfterSuccess DEF Before
<1>2. CASE s.r = "Success"
  <2>1. u = TickLeaf("max", s)
    BY <1>2, AfterSuccess
  <2>2. "max" \in Plainly /\ SpeedOf("max") = MAX
    BY DEF Plainly, SpeedOf
  <2>3. SetRel("max", s.loco.speed, MAX, s, u, Plain("speed", MAX))
    BY <2>1, <2>2, PlainLeaf
  <2>4. SpeedOK(Q, u) /\ (u.r = "Success" => u.nodes.latch["max"].done)
    BY <1>2, <2>3, MaxSpeed
  <2>5. "done" \in Setters \ {"max"} /\ "crawl" \in Setters \ {"max"}
    BY DEF Setters
  <2> QED BY <1>2, <2>3, <2>4, <2>5 DEF SetRel, Same, SameTrain, LatchOnly, Before
<1> QED BY <1>1, <1>2

LEMMA DoneLeaf ==
  ASSUME NEW Q \in Seq(Command), NEW s \in StepState, NEW u, u = NextLeaf("done", s), SpeedOK(Q, s),
         s.r = "Success" => /\ Clean(Q, s, u) /\ s.nodes.latch["crawl"].done /\ s.nodes.latch["max"].done
                            /\ ~s.nodes.stopped /\ s.nodes.turn \in {"none", "done"}
  PROVE  /\ SpeedOK(Q, u) /\ (u.r = "Success" => u.nodes.latch["done"].done)
         /\ u.nodes.latch["done"].sent /\ ~s.nodes.latch["done"].sent => s.loco.speed > 0 /\ NoStop(Q)
<1>1. CASE s.r # "Success"
  BY <1>1, AfterSuccess
<1>2. CASE s.r = "Success"
  <2>1. u = StopAtDone(s)
    BY <1>2, AfterSuccess DEF TickLeaf, Repeats
  <2>2. StopRel(s, u)
    BY <2>1, StopFacts
  <2> QED BY <1>2, <2>2, DoneSpeed, LineRange
<1> QED BY <1>1, <1>2

\* A tick of NavigateTree.
LEMMA TickSpeed ==
  ASSUME NEW Q \in Seq(Command), NEW W, NEW s \in StepState, NEW t, t = Tick(s), tree = "navigate",
         s.r = "Success", s.out = <<>>, TurnOK(W, s), SpeedOK(Q, s), Unmixed(Q, t),
         s.nodes.stopping => s.reserved = "all", s.nodes.turn = "turning" => ~HasOnce(t.out)
  PROVE  /\ SpeedOK(Q, t) /\ (t.r = "Success" => t.nodes.latch["done"].done)
         /\ t.nodes.latch["done"].sent /\ ~s.nodes.latch["done"].sent => s.loco.speed > 0 /\ NoStop(Q)
<1>1. PICK a, b, c, d : /\ a = NextLeaf("crawl", s) /\ b = NextLeaf("reserve", a) /\ c = NextLeaf("path", b)
                        /\ d = NextLeaf("max", c) /\ t = NextLeaf("done", d)
  BY NavigateTick
<1>2. "crawl" \in LeafNames /\ "reserve" \in LeafNames /\ "path" \in LeafNames /\ "max" \in LeafNames /\ "done" \in LeafNames
  BY DEF LeafNames, Plainly
<1>3. /\ LeafSound(W, s, a) /\ LeafSound(W, s, b) /\ LeafSound(W, s, c) /\ LeafSound(W, s, d)
      /\ LeafSound(W, s, t)
  <2>0. LeafSound(W, s, s)
    BY SoundHere
  <2>1. LeafSound(W, s, a)
    BY <1>1, <1>2, <2>0, NextSound
  <2>2. LeafSound(W, s, b)
    BY <1>1, <1>2, <2>1, NextSound
  <2>3. LeafSound(W, s, c)
    BY <1>1, <1>2, <2>2, NextSound
  <2>4. LeafSound(W, s, d)
    BY <1>1, <1>2, <2>3, NextSound
  <2>5. LeafSound(W, s, t)
    BY <1>1, <1>2, <2>4, NextSound
  <2> QED BY <2>1, <2>2, <2>3, <2>4, <2>5
<1>4. /\ a \in StepState /\ b \in StepState /\ c \in StepState /\ d \in StepState /\ t \in StepState
      /\ TurnOK(W, b)
  BY <1>3 DEF LeafSound
<1>5. Clean(Q, d, t) /\ Earlier(d, t)
  <2>1. Earlier(t, t)
    BY DEF Earlier
  <2> QED BY <1>1, <1>4, <2>1, InTick
<1>6. Clean(Q, c, d) /\ Earlier(c, t)
  BY <1>1, <1>4, <1>5, InTick
<1>7. Clean(Q, b, c) /\ Earlier(b, t)
  BY <1>1, <1>4, <1>6, InTick
<1>8. Clean(Q, a, b) /\ Earlier(a, t)
  BY <1>1, <1>4, <1>7, InTick
<1>9. Clean(Q, s, a)
  BY <1>1, <1>4, <1>8, InTick
<1>10. /\ SpeedOK(Q, a) /\ Before(s, a) /\ a.reserved = s.reserved /\ a.nodes.stopping = s.nodes.stopping
       /\ a.nodes.turn = s.nodes.turn /\ (a.r = "Success" => a.nodes.latch["crawl"].done)
  BY <1>1, <1>9, CrawlLeaf
<1>11. /\ SpeedOK(Q, b) /\ Before(a, b)
       /\ b.r = "Success" => b.nodes.latch["crawl"].done /\ ~b.nodes.stopped
  <2>1. a.nodes.stopping => a.reserved = "all"
    BY <1>10
  <2>2. a.nodes.turn = "turning" => ~HasOnce(t.out)
    BY <1>10
  <2>3. a.r = "Success" => Clean(Q, a, b) /\ a.nodes.latch["crawl"].done
    BY <1>8, <1>10
  <2>4. SpeedOK(Q, a)
    BY <1>10
  <2> QED BY <1>1, <1>4, <1>7, <2>1, <2>2, <2>3, <2>4, ReserveLeaf
<1>12. /\ SpeedOK(Q, c) /\ Before(b, c)
       /\ c.r = "Success" => /\ c.nodes.latch["crawl"].done /\ ~c.nodes.stopped
                             /\ c.nodes.turn \in {"none", "done"}
  BY <1>1, <1>4, <1>7, <1>11, PathLeaf
<1>13. /\ SpeedOK(Q, d) /\ Before(c, d)
       /\ d.r = "Success" => /\ d.nodes.latch["crawl"].done /\ d.nodes.latch["max"].done
                             /\ ~d.nodes.stopped /\ d.nodes.turn \in {"none", "done"}
  BY <1>1, <1>4, <1>6, <1>12, MaxLeaf
<1>14. /\ SpeedOK(Q, t) /\ (t.r = "Success" => t.nodes.latch["done"].done)
       /\ t.nodes.latch["done"].sent /\ ~d.nodes.latch["done"].sent => d.loco.speed > 0 /\ NoStop(Q)
  BY <1>1, <1>4, <1>5, <1>13, DoneLeaf
<1>15. d.loco = s.loco /\ d.nodes.latch["done"] = s.nodes.latch["done"]
  BY <1>10, <1>11, <1>12, <1>13 DEF Before
<1> QED BY <1>14, <1>15
-----------------------------------------------------------------------------
(* Losing a command or its answer, and reading an answer, take one out of   *)
(* the line.                                                                *)
Without(p, q, j) ==
  /\ p \in Seq(Command) /\ q \in Seq(Command) /\ j \in 1 .. Len(q) /\ Len(q) = Len(p) + 1
  /\ \A i \in 1 .. Len(p) : p[i] = IF i < j THEN q[i] ELSE q[i + 1]

LEMMA WithoutFacts ==
  ASSUME NEW p, NEW q, NEW j, Without(p, q, j)
  PROVE  /\ Range(p) \subseteq Range(q) /\ q[j] \in Range(q)
         /\ StopsLast(q) => StopsLast(p)
         /\ GoesLast(q) => GoesLast(p)
         /\ NoStop(q) => NoStop(p)
         /\ NoGo(q) => NoGo(p)
         /\ ~HasOnce(q) => ~HasOnce(p)
<1>1. PICK m, n \in Nat : m = Len(p) /\ n = Len(q) /\ n = m + 1
  BY LenProperties DEF Without
<1>2. DOMAIN p = 1 .. m /\ DOMAIN q = 1 .. n /\ j \in 1 .. n
  BY <1>1, LenProperties DEF Without
<1>3. PICK g : g = [i \in 1 .. m |-> IF i < j THEN i ELSE i + 1]
  OBVIOUS
<1>4. \A i \in 1 .. m : g[i] \in 1 .. n /\ p[i] = q[g[i]]
  BY <1>1, <1>2, <1>3 DEF Without
<1>5. \A i, k \in 1 .. m : i < k => g[i] < g[k]
  BY <1>1, <1>2, <1>3
<1>6. Range(p) \subseteq Range(q) /\ q[j] \in Range(q)
  <2>1. \A r, i : i \in DOMAIN r => r[i] \in Range(r)
    BY DEF Range
  <2>2. ASSUME NEW x \in Range(p) PROVE x \in Range(q)
    <3>1. PICK i \in 1 .. m : x = p[i]
      BY <1>2 DEF Range
    <3> QED BY <1>2, <1>4, <2>1, <3>1
  <2> QED BY <1>2, <2>1, <2>2
<1>7. StopsLast(q) => StopsLast(p)
  BY <1>2, <1>4, <1>5 DEF StopsLast
<1>8. GoesLast(q) => GoesLast(p)
  BY <1>2, <1>4, <1>5 DEF GoesLast
<1>9. (NoStop(q) => NoStop(p)) /\ (NoGo(q) => NoGo(p))
  BY <1>2, <1>4 DEF NoStop, NoGo
<1>10. ~HasOnce(q) => ~HasOnce(p)
  BY <1>6, OnceRange
<1> QED BY <1>6, <1>7, <1>8, <1>9, <1>10

LEMMA WithoutMiddle ==
  ASSUME NEW a \in Seq(Command), NEW w \in Seq(Command), w # <<>>
  PROVE  Without(a \o Tail(w), a \o w, Len(a) + 1) /\ (a \o w)[Len(a) + 1] = Head(w)
<1>1. PICK p, q : p = a \o Tail(w) /\ q = a \o w
  OBVIOUS
<1>2. PICK m, n \in Nat : m = Len(a) /\ n = Len(w)
  BY LenProperties
<1>3. /\ n > 0 /\ Tail(w) \in Seq(Command) /\ Len(Tail(w)) = n - 1
      /\ \A i \in 1 .. n - 1 : Tail(w)[i] = w[i + 1]
  BY <1>2, HeadTailProperties, EmptySeq, LenProperties
<1>4. /\ p \in Seq(Command) /\ Len(p) = (m + n) - 1
      /\ \A i \in 1 .. (m + n) - 1 : p[i] = IF i <= m THEN a[i] ELSE Tail(w)[i - m]
  <2>1. Len(a) + Len(Tail(w)) = (m + n) - 1
    BY <1>2, <1>3
  <2> QED BY <1>1, <1>2, <1>3, <2>1, ConcatProperties
<1>5. /\ q \in Seq(Command) /\ Len(q) = m + n
      /\ \A i \in 1 .. m + n : q[i] = IF i <= m THEN a[i] ELSE w[i - m]
  BY <1>1, <1>2, ConcatProperties
<1>6. \A i \in 1 .. (m + n) - 1 : p[i] = IF i < m + 1 THEN q[i] ELSE q[i + 1]
  <2>1. ASSUME NEW i \in 1 .. (m + n) - 1, i <= m PROVE p[i] = q[i]
    <3>1. p[i] = a[i]
      BY <1>4, <2>1
    <3>2. i \in 1 .. m + n
      BY <1>3
    <3> QED BY <1>5, <2>1, <3>1, <3>2
  <2>2. ASSUME NEW i \in 1 .. (m + n) - 1, ~(i <= m) PROVE p[i] = q[i + 1]
    <3>1. PICK k \in 1 .. n - 1 : k = i - m
      BY <2>2
    <3>2. p[i] = Tail(w)[k] /\ Tail(w)[k] = w[k + 1]
      BY <1>3, <1>4, <2>2, <3>1
    <3>3. i + 1 \in 1 .. m + n /\ ~(i + 1 <= m) /\ (i + 1) - m = k + 1
      BY <2>2, <3>1
    <3> QED BY <1>5, <3>2, <3>3
  <2> QED BY <2>1, <2>2
<1>7. q[m + 1] = Head(w)
  <2>1. m + 1 \in 1 .. m + n /\ ~(m + 1 <= m) /\ (m + 1) - m = 1
    BY <1>3
  <2>2. q[m + 1] = w[1]
    BY <1>5, <2>1
  <2>3. Head(w) = w[1]
    OBVIOUS
  <2> QED BY <2>2, <2>3
<1>8. m + 1 \in 1 .. m + n /\ m + n = ((m + n) - 1) + 1
  BY <1>3
<1> QED BY <1>1, <1>2, <1>4, <1>5, <1>6, <1>7, <1>8 DEF Without

LEMMA WithoutFirst ==
  ASSUME NEW a \in Seq(Command), NEW w \in Seq(Command), a # <<>>
  PROVE  Without(Tail(a) \o w, a \o w, 1) /\ (a \o w)[1] = Head(a)
<1>1. PICK q : q = a \o w
  OBVIOUS
<1>2. q \in Seq(Command) /\ Len(q) = Len(a) + Len(w) /\ Len(a) > 0 /\ Len(a) \in Nat /\ Len(w) \in Nat
  BY <1>1, ConcatProperties, LenProperties, EmptySeq
<1>3. q # <<>> /\ q[1] = Head(a)
  <2>1. 1 \in 1 .. Len(a) + Len(w) /\ 1 <= Len(a)
    BY <1>2
  <2>2. q[1] = a[1]
    BY <1>1, <2>1, ConcatProperties
  <2>3. Head(a) = a[1]
    OBVIOUS
  <2> QED BY <1>2, <2>2, <2>3
<1>4. Tail(a) \o w = Tail(q)
  BY <1>1, ConcatTail
<1>5. /\ Tail(q) \in Seq(Command) /\ Len(Tail(q)) = Len(q) - 1
      /\ \A i \in 1 .. Len(Tail(q)) : Tail(q)[i] = q[i + 1]
  BY <1>2, <1>3, HeadTailProperties
<1>6. \A i \in 1 .. Len(Tail(q)) : Tail(q)[i] = IF i < 1 THEN q[i] ELSE q[i + 1]
  BY <1>5, LenProperties
<1>7. 1 \in 1 .. Len(q) /\ Len(q) = Len(Tail(q)) + 1
  BY <1>2, <1>5
<1> QED BY <1>1, <1>2, <1>3, <1>4, <1>5, <1>6, <1>7 DEF Without

\* A command that is lost, and not one of PathReservationNode, does no harm.
LEMMA FitsLost ==
  ASSUME NEW nd, NEW lc, NEW p, NEW q, NEW j, Without(p, q, j), ~q[j].once, SpeedFits(nd, lc, q)
  PROVE  SpeedFits(nd, lc, p)
<1>1. /\ StopsLast(q) => StopsLast(p)
      /\ GoesLast(q) => GoesLast(p)
      /\ NoStop(q) => NoStop(p)
      /\ NoGo(q) => NoGo(p)
      /\ ~HasOnce(q) => ~HasOnce(p)
  BY WithoutFacts
<1>2. Crawls(nd, lc, q) => Crawls(nd, lc, p)
  BY <1>1 DEF Crawls
<1>3. Turns(nd, lc, q) => Turns(nd, lc, p)
  BY <1>1 DEF Turns
<1>4. Stops(nd, lc, q) => Stops(nd, lc, p)
  BY <1>1 DEF Stops
<1>5. Runs(nd, lc, q) => Runs(nd, lc, p)
  <2>1. PICK m, n \in Nat : m = Len(p) /\ n = Len(q) /\ n = m + 1
    BY LenProperties DEF Without
  <2>2. j \in 1 .. n /\ \A i \in 1 .. m : p[i] = IF i < j THEN q[i] ELSE q[i + 1]
    BY <2>1 DEF Without
  <2>3. ASSUME n = 1, q[1].once PROVE FALSE
    <3>1. j = 1
      BY <2>2, <2>3
    <3> QED BY <2>3, <3>1
  <2>4. ASSUME q[n].once PROVE p[m].once
    <3>1. j # n
      BY <2>4
    <3>2. PICK k \in 1 .. n : k = j
      BY <2>2
    <3>3. k < m + 1
      BY <2>1, <3>1, <3>2
    <3>4. m \in 1 .. m /\ ~(m < k)
      BY <3>2, <3>3
    <3> QED BY <2>1, <2>2, <2>4, <3>2, <3>4
  <2>5. q # <<>>
    <3>1. Len(<<>>) = 0
      OBVIOUS
    <3>2. Len(q) # 0
      BY <2>1
    <3> QED BY <3>1, <3>2
  <2> QED BY <1>1, <2>1, <2>3, <2>4, <2>5 DEF Runs
<1> QED BY <1>2, <1>3, <1>4, <1>5, <1>1 DEF SpeedFits

\* The estimate that the train rolls follows its speed.
LEMMA FitsRolls ==
  ASSUME NEW nd, NEW lc \in LocoState, NEW lr, NEW q, NEW rolls \in BOOLEAN, lr = [lc EXCEPT !.rolls = rolls],
         rolls = lc.rolls \/ (lc.speed > 0 /\ ~lc.rolls) \/ (lc.speed = 0 /\ lc.rolls),
         SpeedFits(nd, lc, q)
  PROVE  SpeedFits(nd, lr, q)
<1>1. lr.speed = lc.speed /\ lr.rolls = rolls /\ lc.speed \in Nat /\ lc.rolls \in BOOLEAN
  BY DEF LocoState
<1>2. Turns(nd, lc, q) => Turns(nd, lr, q)
  <2>1. CASE rolls = lc.rolls
    BY <1>1, <2>1 DEF Turns
  <2>2. CASE lc.speed > 0 /\ ~lc.rolls
    <3>1. Turns(nd, lc, q) /\ nd.latch["turn_stop"].sent => NoStop(q) /\ StopsLast(q) /\ GoesLast(q)
      BY <2>2, Orders DEF Turns
    <3>2. lr.speed > 0 /\ lr.speed # 0
      BY <1>1, <2>2
    <3> QED BY <1>1, <2>2, <3>1, <3>2 DEF Turns
  <2>3. CASE lc.speed = 0 /\ lc.rolls
    <3>1. Turns(nd, lc, q) /\ nd.latch["turn_stop"].sent => NoGo(q) /\ StopsLast(q) /\ GoesLast(q)
      BY <2>3, Orders DEF Turns
    <3>2. lr.speed = 0 /\ ~(lr.speed > 0) /\ ~(lc.speed > 0)
      BY <1>1, <2>3
    <3> QED BY <1>1, <2>3, <3>1, <3>2 DEF Turns
  <2> QED BY <2>1, <2>2, <2>3
<1> QED BY <1>1, <1>2 DEF SpeedFits, Crawls, Runs, Stops

\* An answer is read.
LEMMA AnswerSpeed ==
  ASSUME NEW lc \in LocoState, NEW h \in Command, NEW lh, lh = [lc EXCEPT ![h.what] = h.value]
  PROVE  /\ lh \in LocoState /\ lh.rolls = lc.rolls
         /\ IsStop(h) => lh.speed = 0
         /\ IsGo(h) => lh.speed > 0
         /\ IsTurn(h) => lh.back = h.value /\ lh.speed = lc.speed
         /\ ~IsTurn(h) => lh.back = lc.back
         /\ IsStop(h) \/ IsGo(h) \/ (IsTurn(h) /\ ~IsStop(h) /\ ~IsGo(h))
<1>1. CASE h.what = "speed"
  <2>1. h.value \in Nat
    BY <1>1 DEF Command
  <2> QED BY <1>1, <2>1 DEF LocoState, IsStop, IsGo, IsTurn
<1>2. CASE h.what = "back"
  <2>1. h.value \in BOOLEAN
    BY <1>2 DEF Command
  <2> QED BY <1>2, <2>1 DEF LocoState, IsStop, IsGo, IsTurn
<1> QED BY <1>1, <1>2 DEF Command

LEMMA FitsAnswer ==
  ASSUME NEW nd, NEW lc \in LocoState, NEW p, NEW q, NEW lh, Without(p, q, 1),
         lh = [lc EXCEPT ![q[1].what] = q[1].value], SpeedFits(nd, lc, q)
  PROVE  SpeedFits(nd, lh, p)
<1>1. PICK h \in Command : h = q[1]
  BY ElementOfSeq DEF Without
<1>2. PICK m, n \in Nat : /\ m = Len(p) /\ n = Len(q) /\ n = m + 1 /\ DOMAIN q = 1 .. n /\ DOMAIN p = 1 .. m
                          /\ \A i \in 1 .. m : p[i] = q[i + 1] /\ i + 1 \in 1 .. n /\ 1 < i + 1
  <2>1. PICK m, n \in Nat : m = Len(p) /\ n = Len(q) /\ n = m + 1
    BY LenProperties DEF Without
  <2>2. DOMAIN q = 1 .. n /\ DOMAIN p = 1 .. m
    BY <2>1, LenProperties DEF Without
  <2>3. \A i \in 1 .. m : p[i] = q[i + 1] /\ i + 1 \in 1 .. n /\ 1 < i + 1
    BY <2>1 DEF Without
  <2> QED BY <2>1, <2>2, <2>3
<1>3. /\ lh.rolls = lc.rolls /\ lh.speed \in Nat
      /\ IsStop(h) => lh.speed = 0
      /\ IsGo(h) => lh.speed > 0
      /\ ~IsStop(h) /\ ~IsGo(h) => lh.speed = lc.speed
      /\ IsStop(h) => ~IsGo(h)
  <2>1. IsStop(h) => ~IsGo(h)
    BY DEF IsStop, IsGo
  <2> QED BY <1>1, <2>1, AnswerSpeed DEF LocoState
<1>4. /\ StopsLast(q) => StopsLast(p)
      /\ GoesLast(q) => GoesLast(p)
      /\ NoStop(q) => NoStop(p) /\ ~IsStop(h)
      /\ NoGo(q) => NoGo(p) /\ ~IsGo(h)
      /\ ~HasOnce(q) => ~HasOnce(p)
  <2>1. 1 \in DOMAIN q
    BY <1>2
  <2>2. (NoStop(q) => ~IsStop(h)) /\ (NoGo(q) => ~IsGo(h))
    BY <1>1, <2>1 DEF NoStop, NoGo
  <2> QED BY <2>2, WithoutFacts
<1>5. StopsLast(q) /\ IsStop(h) => NoGo(p)
  BY <1>1, <1>2 DEF StopsLast, NoGo
<1>6. GoesLast(q) /\ IsGo(h) => NoStop(p)
  BY <1>1, <1>2 DEF GoesLast, NoStop
<1>7. lc.speed \in Nat
  BY DEF LocoState
<1>8. Crawls(nd, lc, q) => Crawls(nd, lh, p)
  BY <1>4 DEF Crawls
<1>9. Runs(nd, lc, q) => Runs(nd, lh, p)
  <2>1. CASE ~nd.stopped /\ lc.speed > 0 /\ ~HasOnce(q) /\ NoStop(q)
    <3>1. lh.speed > 0
      BY <1>3, <1>4, <2>1
    <3> QED BY <1>4, <2>1, <3>1 DEF Runs
  <2>2. CASE ~nd.stopped /\ Len(q) = 1 /\ q[1].once /\ IsGo(q[1])
    <3>1. m = 0
      BY <1>2, <2>2
    <3>2. p \in Seq(Command) /\ p = <<>>
      BY <1>2, <3>1, EmptySeq DEF Without
    <3> QED BY <1>1, <1>3, <2>2, <3>2, EmptyOrders DEF Runs
  <2>3. CASE nd.stopped /\ (q = <<>> \/ q[Len(q)].once)
    <3>1. CASE m = 0
      <4>1. p = <<>>
        BY <1>2, <3>1, EmptySeq DEF Without
      <4> QED BY <2>3, <4>1 DEF Runs
    <3>2. CASE m # 0
      <4>1. q # <<>> /\ m \in 1 .. m
        BY <1>2, <3>2
      <4>2. p[m] = q[n]
        BY <1>2, <4>1
      <4> QED BY <1>2, <2>3, <4>1, <4>2 DEF Runs
    <3> QED BY <3>1, <3>2
  <2> QED BY <2>1, <2>2, <2>3 DEF Runs
<1>10. Turns(nd, lc, q) => Turns(nd, lh, p)
  <2>1. SUFFICES ASSUME Turns(nd, lc, q) PROVE Turns(nd, lh, p)
    OBVIOUS
  <2>2. CASE ~nd.latch["turn_stop"].sent
    <3>1. lh.speed > 0 /\ NoStop(p)
      BY <1>3, <1>4, <2>1, <2>2 DEF Turns
    <3> QED BY <1>4, <2>1, <2>2, <3>1 DEF Turns
  <2>3. CASE nd.latch["turn_stop"].sent /\ lc.rolls
    <3>1. StopsLast(q) /\ (lc.speed = 0 => NoGo(q))
      BY <2>1, <2>3 DEF Turns
    <3>2. StopsLast(p) /\ (lh.speed = 0 => NoGo(p))
      BY <1>3, <1>4, <1>5, <3>1
    <3> QED BY <1>3, <1>4, <2>1, <2>3, <3>2 DEF Turns
  <2>4. CASE nd.latch["turn_stop"].sent /\ ~lc.rolls
    <3>1. GoesLast(q) /\ (lc.speed > 0 => NoStop(q))
      BY <2>1, <2>4 DEF Turns
    <3>2. GoesLast(p) /\ (lh.speed > 0 => NoStop(p))
      BY <1>3, <1>4, <1>6, <3>1
    <3> QED BY <1>3, <1>4, <2>1, <2>4, <3>2 DEF Turns
  <2> QED BY <2>2, <2>3, <2>4
<1>11. Stops(nd, lc, q) => Stops(nd, lh, p)
  <2>1. SUFFICES ASSUME Stops(nd, lc, q) PROVE Stops(nd, lh, p)
    OBVIOUS
  <2>2. StopsLast(q) /\ (lc.speed = 0 => NoGo(q)) /\ (nd.latch["done"].done => lc.speed = 0)
    BY <2>1 DEF Stops
  <2>3. StopsLast(p) /\ (lh.speed = 0 => NoGo(p)) /\ (nd.latch["done"].done => lh.speed = 0)
    BY <1>3, <1>4, <1>5, <2>2
  <2> QED BY <1>4, <2>1, <2>3 DEF Stops
<1> QED BY <1>8, <1>9, <1>10, <1>11, <1>4 DEF SpeedFits

\* Time passes: only the latches age.
SameSigns(a, b) ==
  /\ SameRun(a, b) /\ SameTurn(a, b)
  /\ \A n \in Setters : b.latch[n].sent = a.latch[n].sent /\ b.latch[n].done = a.latch[n].done

LEMMA AgedFits ==
  ASSUME NEW a, NEW b, NEW lc, NEW q, NEW W, SameSigns(a, b)
  PROVE  /\ SpeedFits(a, lc, q) => SpeedFits(b, lc, q)
         /\ TurnFits(a, lc, W) => TurnFits(b, lc, W)
<1>1. /\ \A n \in Turning : n \in Setters
      /\ "crawl" \in Setters /\ "max" \in Setters /\ "done" \in Setters
      /\ "turn_stop" \in Setters /\ "turn" \in Setters /\ "turn_go" \in Setters
  BY DEF Setters, Turning
<1>2. TurnFits(a, lc, W) => TurnFits(b, lc, W)
  BY <1>1 DEF TurnFits, SameSigns, SameTurn
<1>3. SpeedFits(a, lc, q) => SpeedFits(b, lc, q)
  BY <1>1 DEF SpeedFits, Crawls, Runs, Turns, Stops, SameSigns, SameTurn, SameRun
<1> QED BY <1>2, <1>3
-----------------------------------------------------------------------------
LEMMA ToSetRange == \A q : ToSet(q) = Range(q)
BY DEF ToSet, Range

LEMMA TurnFitsLess ==
  ASSUME NEW nd, NEW lc, NEW V, NEW W, V \subseteq W, TurnFits(nd, lc, W) PROVE TurnFits(nd, lc, V)
BY DEF TurnFits

LEMMA TreeInitial == TreeInit => TreeIInv
<1>1. SUFFICES ASSUME TreeInit PROVE TreeIInv
  OBVIOUS
<1>2. PICK turn \in {"none", "wanted"} :
        nodes = [latch |-> [n \in Setters |-> Fresh], times |-> [n \in Repeats |-> Times(n)],
                 stopped |-> FALSE, go |-> GO, stopping |-> FALSE,
                 turn |-> turn, back |-> FALSE, again |-> 0]
  BY <1>1 DEF TreeInit
<1>3. \A n \in Repeats : Times(n) \in Nat
  BY TreesAssumption DEF Times, Repeats
<1>4. [n \in Setters |-> Fresh] \in [Setters -> Latch]
  BY DEF Fresh, Latch
<1>5. GO \in Nat /\ GO > 0
  BY TreesAssumption
<1>6. nodes \in NodesState
  <2>1. [n \in Repeats |-> Times(n)] \in [Repeats -> Nat]
    BY <1>3
  <2> QED BY <1>2, <1>4, <1>5, <2>1 DEF NodesState
<1>7. /\ loco \in LocoState /\ loco.back = FALSE /\ real.back = FALSE /\ real.speed = 0
      /\ real \in [speed : Nat, back : BOOLEAN]
  BY <1>1 DEF TreeInit, LocoState
<1>8. <<>> \in Seq(Command)
  OBVIOUS
<1>9. PICK q \in Seq(Command) : q = answers \o wire /\ q = <<>>
  BY <1>1, <1>8, ConcatEmptySeq DEF TreeInit
<1>10. ToSet(q) = {}
  BY <1>9 DEF ToSet
<1>11. \A n \in Setters : ~nodes.latch[n].sent /\ ~nodes.latch[n].done
  BY <1>2 DEF Fresh
<1>12. /\ nodes.turn \in {"none", "wanted"} /\ ~nodes.stopped /\ nodes.go = GO
  BY <1>2
<1>13. TreeTypeOK
  BY <1>1, <1>6, <1>7, <1>8 DEF TreeInit, TreeTypeOK, LocoState
<1>14. TurnFits(nodes, loco, ToSet(q))
  <2>1. \A n \in Turning : n \in Setters
    BY DEF Setters
  <2> QED BY <1>7, <1>10, <1>11, <1>12, <2>1 DEF TurnFits
<1>15. TurnSeen
  BY <1>12 DEF TurnSeen
<1>16. SpeedFits(nodes, loco, q)
  <2>1. "crawl" \in Setters /\ "done" \in Setters
    BY DEF Setters
  <2>2. Crawls(nodes, loco, q)
    BY <1>9, <1>12, EmptyOrders DEF Crawls
  <2> QED BY <1>5, <1>11, <1>12, <2>1, <2>2 DEF SpeedFits
<1>17. StopSeen
  <2>1. "done" \in Setters
    BY DEF Setters
  <2> QED BY <1>11, <2>1 DEF StopSeen
<1>18. result # "Success"
  BY <1>1 DEF TreeInit
<1> QED BY <1>9, <1>13, <1>14, <1>15, <1>16, <1>17, <1>18 DEF TreeIInv

LEMMA TreeExecutes == TreeIInv /\ Execute => TreeIInv'
<1>1. SUFFICES ASSUME TreeIInv, Execute PROVE TreeIInv'
  OBVIOUS
<1>2. /\ wire \in Seq(Command) /\ answers \in Seq(Command) /\ wire # <<>>
      /\ real \in [speed : Nat, back : BOOLEAN]
  BY <1>1 DEF TreeIInv, TreeTypeOK, Execute
<1>3. PICK h \in Command : h = Head(wire)
  BY <1>2, HeadTailProperties
<1>4. /\ answers' = Append(answers, h) /\ wire' = Tail(wire) /\ real' = [real EXCEPT ![h.what] = h.value]
      /\ tree' = tree /\ nodes' = nodes /\ loco' = loco /\ result' = result /\ near' = near /\ mixed' = mixed
  BY <1>1, <1>3 DEF Execute
<1>5. PICK q \in Seq(Command) : q = answers \o wire
  BY <1>2, ConcatProperties
<1>6. answers' \o wire' = q
  BY <1>2, <1>3, <1>4, <1>5, QueueMove
<1>7. answers' \in Seq(Command) /\ wire' \in Seq(Command) /\ ToSet(answers') = ToSet(answers) \cup {h}
  BY <1>2, <1>4, AppendProperties, HeadTailProperties, QueueAppend, ToSetRange
<1>8. Len(answers) + 1 \in DOMAIN q /\ q[Len(answers) + 1] = h /\ h \in ToSet(q)
  <2>1. Without(answers \o Tail(wire), q, Len(answers) + 1) /\ q[Len(answers) + 1] = h
    BY <1>2, <1>3, <1>5, WithoutMiddle
  <2>2. Len(answers) + 1 \in DOMAIN q
    BY <2>1, LenProperties DEF Without
  <2> QED BY <2>1, <2>2, WithoutFacts, ToSetRange
<1>9. \A c \in ToSet(answers) : c \in ToSet(q) /\ \E i \in DOMAIN q : i < Len(answers) + 1 /\ q[i] = c
  <2>1. ASSUME NEW c \in ToSet(answers) PROVE \E i \in DOMAIN q : i < Len(answers) + 1 /\ q[i] = c
    <3>1. PICK i \in 1 .. Len(answers) : answers[i] = c
      BY <1>2, LenProperties DEF ToSet
    <3>2. /\ Len(q) = Len(answers) + Len(wire) /\ Len(q) \in Nat /\ Len(answers) \in Nat /\ Len(wire) \in Nat
          /\ DOMAIN q = 1 .. Len(q)
      BY <1>2, <1>5, ConcatProperties, LenProperties
    <3>3. i \in 1 .. Len(answers) + Len(wire) /\ i <= Len(answers)
      BY <3>2
    <3>4. q[i] = answers[i]
      BY <1>2, <1>5, <3>3, ConcatProperties
    <3> QED BY <3>1, <3>2, <3>3, <3>4
  <2> QED BY <2>1 DEF ToSet
<1>10. TurnFits(nodes, loco, ToSet(q)) /\ TurnSeen
  BY <1>1, <1>5 DEF TreeIInv
<1>11. /\ real' \in [speed : Nat, back : BOOLEAN]
       /\ h.what = "speed" => real'.back = real.back /\ real'.speed = h.value
       /\ h.what = "back" => real'.back = h.value /\ real'.speed = real.speed
       /\ h.what \in {"speed", "back"}
  BY <1>2, <1>4 DEF Command
<1>12. TreeTypeOK'
  BY <1>1, <1>4, <1>7, <1>11 DEF TreeIInv, TreeTypeOK
<1>13. TurnFits(nodes, loco, ToSet(q))'
  <2>1. q = (answers \o wire)'
    BY <1>6
  <2>2. nodes.turn \in {"none", "wanted"} => real'.back = real.back
    BY <1>8, <1>10, <1>11 DEF TurnFits, IsTurn
  <2>3. nodes.turn \in {"turning", "done"} => (real.back = nodes.back => real'.back = nodes.back)
    BY <1>8, <1>10, <1>11 DEF TurnFits, IsTurn
  <2> QED BY <1>4, <1>10, <2>2, <2>3 DEF TurnFits
<1>14. TurnSeen'
  <2>1. nodes.turn \in {"turning", "done"} =>
          /\ real.back = nodes.back => real'.back = nodes.back
          /\ IsTurn(h) => real'.back = nodes.back
    BY <1>8, <1>10, <1>11 DEF TurnFits, IsTurn
  <2> QED BY <1>4, <1>7, <1>10, <2>1 DEF TurnSeen
<1>15. ASSUME tree = "navigate", ~mixed, nodes.latch["done"].sent,
              loco.speed = 0 \/ \E c \in ToSet(answers) \cup {h} : IsStop(c)
       PROVE  real'.speed = 0
  <2>1. SpeedFits(nodes, loco, q) /\ StopSeen
    BY <1>1, <1>5, <1>15 DEF TreeIInv
  <2>2. StopsLast(q) /\ (loco.speed = 0 => NoGo(q))
    BY <1>15, <2>1 DEF SpeedFits, Stops
  <2>3. CASE IsStop(h)
    BY <1>11, <2>3 DEF IsStop
  <2>4. CASE IsGo(h)
    <3>1. loco.speed # 0
      BY <1>8, <2>2, <2>4 DEF NoGo
    <3>2. \A c \in ToSet(answers) : ~IsStop(c)
      BY <1>8, <1>9, <2>2, <2>4 DEF StopsLast
    <3>3. ~IsStop(h)
      BY <2>4 DEF IsGo, IsStop
    <3> QED BY <1>15, <3>1, <3>2, <3>3
  <2>5. CASE ~IsStop(h) /\ ~IsGo(h)
    <3>1. h.what = "back"
      <4>1. ASSUME h.what = "speed" PROVE FALSE
        <5>1. h.value \in Nat
          BY <4>1 DEF Command
        <5>2. h.value = 0 \/ h.value > 0
          BY <5>1
        <5> QED BY <2>5, <4>1, <5>2 DEF IsStop, IsGo
      <4> QED BY <1>11, <4>1
    <3> QED BY <1>11, <1>15, <2>1, <2>5, <3>1 DEF StopSeen
  <2> QED BY <2>3, <2>4, <2>5
<1>16. tree = "navigate" /\ ~mixed => StopSeen'
  BY <1>4, <1>7, <1>15 DEF StopSeen
<1>17. tree = "navigate" /\ ~mixed => SpeedFits(nodes, loco, q)
  BY <1>1, <1>5 DEF TreeIInv
<1>18. tree = "navigate" /\ result = "Success" => nodes.latch["done"].done
  BY <1>1 DEF TreeIInv
<1> HIDE <1>1
<1>19. /\ tree' = tree /\ nodes' = nodes /\ loco' = loco /\ result' = result /\ mixed' = mixed
  BY <1>4
<1> QED BY <1>6, <1>12, <1>13, <1>14, <1>16, <1>17, <1>18, <1>19 DEF TreeIInv

\* A command or an answer is lost.
LEMMA TreeLoses ==
  ASSUME TreeIInv, NEW p, NEW j, Without(p, answers \o wire, j), p = answers' \o wire',
         answers' \in Seq(Command), wire' \in Seq(Command), ToSet(answers') \subseteq ToSet(answers),
         mixed' = (mixed \/ (answers \o wire)[j].once),
         tree' = tree, nodes' = nodes, loco' = loco, result' = result, near' = near, real' = real
  PROVE  TreeIInv'
<1>1. PICK q : q = answers \o wire
  OBVIOUS
<1>2. Range(p) \subseteq Range(q) /\ q[j] \in Range(q) /\ q \in Seq(Command)
  BY <1>1, WithoutFacts DEF Without
<1>3. ToSet(p) \subseteq ToSet(q)
  BY <1>2, ToSetRange
<1>4. q[j] \in Command
  <2>1. j \in 1 .. Len(q)
    BY <1>1 DEF Without
  <2> QED BY <1>2, <2>1, ElementOfSeq
<1>5. q[j].once \in BOOLEAN /\ mixed \in BOOLEAN
  BY <1>4 DEF TreeIInv, TreeTypeOK, Command
<1>6. mixed' \in BOOLEAN /\ (~mixed' => ~mixed /\ ~q[j].once)
  BY <1>1, <1>5
<1>7. TreeTypeOK'
  BY <1>6 DEF TreeIInv, TreeTypeOK
<1>8. TurnFits(nodes, loco, ToSet(q))
  BY <1>1 DEF TreeIInv
<1>9. TurnFits(nodes, loco, ToSet(p))
  BY <1>3, <1>8, TurnFitsLess
<1>10. TurnFits(nodes, loco, ToSet(answers \o wire))'
  BY <1>9 DEF TurnFits
<1>11. TurnSeen'
  BY DEF TreeIInv, TurnSeen
<1>12. tree = "navigate" /\ ~mixed' => SpeedFits(nodes, loco, p) /\ StopSeen
  <2>1. SUFFICES ASSUME tree = "navigate", ~mixed' PROVE SpeedFits(nodes, loco, p) /\ StopSeen
    OBVIOUS
  <2>2. SpeedFits(nodes, loco, q) /\ StopSeen /\ ~q[j].once
    BY <1>1, <1>6, <2>1 DEF TreeIInv
  <2> QED BY <1>1, <2>2, FitsLost
<1>13. tree = "navigate" /\ ~mixed' => StopSeen'
  BY <1>12 DEF StopSeen
<1>14. tree = "navigate" /\ result = "Success" => nodes.latch["done"].done
  BY DEF TreeIInv
<1> QED BY <1>7, <1>10, <1>11, <1>12, <1>13, <1>14 DEF TreeIInv

LEMMA TreeLosesCommand == TreeIInv /\ LoseCommand => TreeIInv'
<1>1. SUFFICES ASSUME TreeIInv, LoseCommand PROVE TreeIInv'
  OBVIOUS
<1>2. wire \in Seq(Command) /\ answers \in Seq(Command) /\ wire # <<>>
  BY <1>1 DEF TreeIInv, TreeTypeOK, LoseCommand
<1>3. /\ wire' = Tail(wire) /\ mixed' = (mixed \/ Head(wire).once) /\ answers' = answers
      /\ tree' = tree /\ nodes' = nodes /\ loco' = loco /\ result' = result /\ near' = near /\ real' = real
  BY <1>1 DEF LoseCommand
<1>4. /\ Without(answers \o Tail(wire), answers \o wire, Len(answers) + 1)
      /\ (answers \o wire)[Len(answers) + 1] = Head(wire)
  BY <1>2, WithoutMiddle
<1>5. wire' \in Seq(Command)
  BY <1>2, <1>3, HeadTailProperties
<1>6. answers \o Tail(wire) = answers' \o wire'
  BY <1>3
<1>7. mixed' = (mixed \/ (answers \o wire)[Len(answers) + 1].once)
  BY <1>3, <1>4
<1>8. ToSet(answers') \subseteq ToSet(answers)
  BY <1>3
<1> QED BY <1>1, <1>2, <1>3, <1>4, <1>5, <1>6, <1>7, <1>8, TreeLoses

LEMMA TreeLosesAnswer == TreeIInv /\ LoseAnswer => TreeIInv'
<1>1. SUFFICES ASSUME TreeIInv, LoseAnswer PROVE TreeIInv'
  OBVIOUS
<1>2. wire \in Seq(Command) /\ answers \in Seq(Command) /\ answers # <<>>
  BY <1>1 DEF TreeIInv, TreeTypeOK, LoseAnswer
<1>3. /\ answers' = Tail(answers) /\ mixed' = (mixed \/ Head(answers).once) /\ wire' = wire
      /\ tree' = tree /\ nodes' = nodes /\ loco' = loco /\ result' = result /\ near' = near /\ real' = real
  BY <1>1 DEF LoseAnswer
<1>4. Without(Tail(answers) \o wire, answers \o wire, 1) /\ (answers \o wire)[1] = Head(answers)
  BY <1>2, WithoutFirst
<1>5. answers' \in Seq(Command)
  BY <1>2, <1>3, HeadTailProperties
<1>6. Tail(answers) \o wire = answers' \o wire'
  BY <1>3
<1>7. mixed' = (mixed \/ (answers \o wire)[1].once)
  BY <1>3, <1>4
<1>8. ToSet(answers') \subseteq ToSet(answers)
  BY <1>2, <1>3, QueueTail, ToSetRange
<1> QED BY <1>1, <1>2, <1>3, <1>4, <1>5, <1>6, <1>7, <1>8, TreeLoses

LEMMA TreeComesNear == TreeIInv /\ ComeNear => TreeIInv'
<1>1. SUFFICES ASSUME TreeIInv, ComeNear PROVE TreeIInv'
  OBVIOUS
<1>2. /\ near' = TRUE /\ tree' = tree /\ nodes' = nodes /\ loco' = loco /\ result' = result
      /\ real' = real /\ wire' = wire /\ answers' = answers /\ mixed' = mixed
  BY <1>1 DEF ComeNear
<1>3. TreeTypeOK'
  BY <1>1, <1>2 DEF TreeIInv, TreeTypeOK
<1> QED BY <1>1, <1>2, <1>3 DEF TreeIInv, TurnFits, TurnSeen, StopSeen

LEMMA TreeStutters == TreeIInv /\ UNCHANGED treeVars => TreeIInv'
BY DEF treeVars, world, TreeIInv, TreeTypeOK, TurnFits, TurnSeen, StopSeen
-----------------------------------------------------------------------------
(* An update.                                                               *)
LEMMA TickEnds ==
  ASSUME NEW W, NEW s \in StepState, TurnOK(W, s), NEW t, t = Tick(s), tree = "navigate", s.r = "Success",
         t.r = "Success"
  PROVE  t.nodes.latch["done"].done
<1>1. PICK a, b, c, d : /\ a = NextLeaf("crawl", s) /\ b = NextLeaf("reserve", a) /\ c = NextLeaf("path", b)
                        /\ d = NextLeaf("max", c) /\ t = NextLeaf("done", d)
  BY NavigateTick
<1>2. "crawl" \in LeafNames /\ "reserve" \in LeafNames /\ "path" \in LeafNames /\ "max" \in LeafNames
  BY DEF LeafNames, Plainly
<1>3. d \in StepState
  <2>0. LeafSound(W, s, s)
    BY SoundHere
  <2>1. LeafSound(W, s, a)
    BY <1>1, <1>2, <2>0, NextSound
  <2>2. LeafSound(W, s, b)
    BY <1>1, <1>2, <2>1, NextSound
  <2>3. LeafSound(W, s, c)
    BY <1>1, <1>2, <2>2, NextSound
  <2>4. LeafSound(W, s, d)
    BY <1>1, <1>2, <2>3, NextSound
  <2> QED BY <2>4 DEF LeafSound
<1>4. d.r = "Success"
  BY <1>1, AfterSuccess
<1>5. t = StopAtDone(d)
  BY <1>1, <1>4, AfterSuccess DEF TickLeaf, Repeats
<1>6. StopRel(d, t)
  BY <1>3, <1>5, StopFacts
<1> QED BY <1>6 DEF StopRel, SetRel, SetDone, SetWaits, SetSends

\* The estimate changes only toward the speed that the last update showed.
Settled(lc, rolls) == rolls = lc.rolls \/ (lc.speed > 0 /\ ~lc.rolls) \/ (lc.speed = 0 /\ lc.rolls)
Rolling(lc, rolls) == [lc EXCEPT !.rolls = rolls]

LEMMA RollingFacts ==
  \A lc \in LocoState : \A rolls \in BOOLEAN :
    /\ Rolling(lc, rolls) \in LocoState
    /\ Rolling(lc, rolls).speed = lc.speed /\ Rolling(lc, rolls).back = lc.back
BY DEF Rolling, LocoState

Joined(a, w, out) ==
  /\ (a \o w) \o out = a \o (w \o out)
  /\ w \o out \in Seq(Command) /\ (a \o w) \o out \in Seq(Command)
  /\ Range((a \o w) \o out) = Range(a \o w) \cup Range(out)
  /\ Range(w \o a \o out) = (Range(w) \cup Range(a)) \cup Range(out)
  /\ out # <<>> => Front(out) \in Seq(Command)

LEMMA Appended ==
  ASSUME NEW a \in Seq(Command), NEW w \in Seq(Command), NEW out \in Seq(Command)
  PROVE  Joined(a, w, out)
<1>1. PICK aw, wa \in Seq(Command) : aw = a \o w /\ wa = w \o a
  BY ConcatProperties
<1>2. (a \o w) \o out = a \o (w \o out)
  BY ConcatAssociative, SMTT(30)
<1>3. w \o out \in Seq(Command) /\ aw \o out \in Seq(Command)
  BY ConcatProperties
<1>4. Range(aw \o out) = Range(aw) \cup Range(out)
  BY RangeConcatenation
<1>5. Range(wa \o out) = Range(wa) \cup Range(out)
  BY RangeConcatenation
<1>6. Range(wa) = Range(w) \cup Range(a)
  BY <1>1, RangeConcatenation
<1>7. ASSUME out # <<>> PROVE Front(out) \in Seq(Command)
  <2>1. PICK n \in Nat : n = Len(out) /\ n # 0
    BY <1>7, EmptySeq, LenProperties
  <2>2. PICK m \in Nat : m = n - 1
    <3>1. n - 1 \in Nat
      BY <2>1
    <3> QED BY <3>1
  <2>3. \A i \in 1 .. m : out[i] \in Command
    BY <2>1, <2>2, ElementOfSeq
  <2>4. 1 \in Int /\ m \in Int
    BY <2>2
  <2> QED BY <2>1, <2>2, <2>3, <2>4, SubSeqProperties DEF Front
<1> QED BY <1>1, <1>2, <1>3, <1>4, <1>5, <1>6, <1>7 DEF Joined

LEMMA TreeUpdates ==
  ASSUME TreeIInv, NEW event \in {"answer", "sensor", "tick"}, NEW train \in LocoState,
         NEW aged \in NodesState, NEW reserved \in {"short", "some", "all"},
         Update(event, train, aged, reserved), SameSigns(nodes, aged),
         NEW Q \in Seq(Command), Q = answers' \o wire, Range(Q) \subseteq Range(answers \o wire),
         answers' \in Seq(Command), ToSet(answers') \subseteq ToSet(answers),
         TurnFits(nodes, train, Range(Q)),
         \A rolls \in BOOLEAN : tree = "navigate" /\ ~mixed /\ Settled(loco, rolls) =>
                                  SpeedFits(nodes, Rolling(train, rolls), Q),
         tree = "navigate" /\ ~mixed /\ nodes.latch["done"].sent /\ train.speed = 0 => real.speed = 0
  PROVE  TreeIInv'
<1>1. PICK rolls, s, t :
        /\ rolls \in BOOLEAN /\ Settled(loco, rolls)
        /\ nodes.stopping => reserved = "all"
        /\ s = [r |-> "Success", nodes |-> aged, loco |-> Rolling(train, rolls),
                out |-> <<>>, event |-> event, counted |-> FALSE,
                reserved |-> reserved, near |-> near /\ rolls]
        /\ t = Tick(s)
        /\ result' = t.r /\ nodes' = t.nodes /\ loco' = t.loco /\ wire' = wire \o t.out
        /\ mixed' = \/ mixed
                    \/ nodes.turn = "turning" /\ HasOnce(t.out)
                    \/ t.out # <<>> /\ HasOnce(wire \o answers \o Front(t.out))
        /\ tree' = tree /\ near' = near /\ real' = real
  <2>1. loco \in LocoState /\ loco.rolls \in BOOLEAN /\ loco.speed \in Nat
    BY DEF TreeIInv, TreeTypeOK, LocoState
  <2>2. \A rolls \in (IF (loco.speed > 0) = loco.rolls THEN {loco.rolls} ELSE BOOLEAN) :
          rolls \in BOOLEAN /\ Settled(loco, rolls)
    <3>1. CASE (loco.speed > 0) = loco.rolls
      BY <2>1, <3>1 DEF Settled
    <3>2. CASE (loco.speed > 0) # loco.rolls
      <4>1. (loco.speed > 0 /\ ~loco.rolls) \/ (loco.speed = 0 /\ loco.rolls)
        BY <2>1, <3>2
      <4> QED BY <3>2, <4>1 DEF Settled
    <3> QED BY <3>1, <3>2
  <2>3. PICK rolls \in (IF (loco.speed > 0) = loco.rolls THEN {loco.rolls} ELSE BOOLEAN) :
          /\ nodes.stopping => reserved = "all"
          /\ \E t \in {Tick([r |-> "Success", nodes |-> aged, loco |-> [train EXCEPT !.rolls = rolls],
                             out |-> <<>>, event |-> event, counted |-> FALSE,
                             reserved |-> reserved, near |-> near /\ rolls])} :
               /\ result' = t.r /\ nodes' = t.nodes /\ loco' = t.loco /\ wire' = wire \o t.out
               /\ mixed' = \/ mixed
                           \/ nodes.turn = "turning" /\ HasOnce(t.out)
                           \/ t.out # <<>> /\ HasOnce(wire \o answers \o Front(t.out))
          /\ tree' = tree /\ near' = near /\ real' = real
    BY DEF Update
  <2>4. PICK s : s = [r |-> "Success", nodes |-> aged, loco |-> Rolling(train, rolls),
                      out |-> <<>>, event |-> event, counted |-> FALSE,
                      reserved |-> reserved, near |-> near /\ rolls]
    OBVIOUS
  <2>5. PICK t :
          /\ t = Tick(s)
          /\ result' = t.r /\ nodes' = t.nodes /\ loco' = t.loco /\ wire' = wire \o t.out
          /\ mixed' = \/ mixed
                      \/ nodes.turn = "turning" /\ HasOnce(t.out)
                      \/ t.out # <<>> /\ HasOnce(wire \o answers \o Front(t.out))
    BY <2>3, <2>4 DEF Rolling
  <2>6. rolls \in BOOLEAN /\ Settled(loco, rolls)
    BY <2>2
  <2> QED BY <2>3, <2>4, <2>5, <2>6
<1>2. near \in BOOLEAN /\ wire \in Seq(Command) /\ answers \in Seq(Command) /\ tree \in {"navigate", "calibrate"}
  BY DEF TreeIInv, TreeTypeOK
<1>3. PICK lr \in LocoState : lr = Rolling(train, rolls) /\ lr.speed = train.speed /\ lr.back = train.back
  BY <1>1, RollingFacts
<1>4. PICK seen \in BOOLEAN : seen = (near /\ rolls)
  OBVIOUS
<1>5. /\ s.r = "Success" /\ s.nodes = aged /\ s.loco = lr /\ s.out = <<>> /\ s.reserved = reserved
  BY <1>1, <1>3
<1>6. s \in StepState
  <2>1. <<>> \in Seq(Command)
    OBVIOUS
  <2>2. s = [r |-> "Success", nodes |-> aged, loco |-> lr, out |-> <<>>, event |-> event, counted |-> FALSE,
             reserved |-> reserved, near |-> seen]
    BY <1>1, <1>3, <1>4
  <2> QED BY <2>1, <2>2 DEF StepState
<1>7. Range(s.out) = {}
  BY <1>5 DEF Range
<1>8. TurnOK(Range(Q), s)
  <2>1. TurnFits(aged, train, Range(Q))
    BY AgedFits
  <2>2. TurnFits(aged, lr, Range(Q))
    BY <1>3, <2>1 DEF TurnFits
  <2> QED BY <1>5, <1>7, <2>2 DEF TurnOK
<1>9. LeafSound(Range(Q), s, t)
  BY <1>1, <1>2, <1>6, <1>8, TickTurn
<1>10. t \in StepState /\ t.loco = lr /\ TurnFits(t.nodes, t.loco, Range(Q) \cup Range(t.out)) /\ t.out \in Seq(Command)
  BY <1>5, <1>9 DEF LeafSound, TurnOK, StepState
<1>11. PICK p \in Seq(Command) : /\ p = Q \o t.out /\ p = answers' \o wire' /\ Range(p) = Range(Q) \cup Range(t.out)
                                 /\ wire' \in Seq(Command)
  <2>1. PICK a, w, out \in Seq(Command) : a = answers' /\ w = wire /\ out = t.out
    BY <1>2, <1>10
  <2>2. Joined(a, w, out)
    BY Appended
  <2>3. a \o w = Q /\ wire' = w \o out
    BY <1>1, <2>1
  <2> QED BY <2>1, <2>2, <2>3 DEF Joined
<1>12. mixed' \in BOOLEAN /\ (~mixed' => ~mixed /\ Unmixed(Q, t) /\ (nodes.turn = "turning" => ~HasOnce(t.out)))
  <2>1. mixed \in BOOLEAN
    BY DEF TreeIInv, TreeTypeOK
  <2>2. PICK e, g \in BOOLEAN : /\ e = (nodes.turn = "turning" /\ HasOnce(t.out))
                                /\ g = (t.out # <<>> /\ HasOnce(wire \o answers \o Front(t.out)))
    OBVIOUS
  <2>3. mixed' = (mixed \/ e \/ g)
    BY <1>1, <2>2
  <2>4. mixed' \in BOOLEAN /\ (~mixed' => ~mixed /\ ~e /\ ~g)
    BY <2>1, <2>3
  <2>5. ASSUME t.out # <<>>, ~HasOnce(wire \o answers \o Front(t.out)),
               NEW c, c \in Range(Q) \/ c \in Range(Front(t.out))
        PROVE  ~c.once
    <3>1. PICK v, w, out \in Seq(Command) : v = answers /\ w = wire /\ out = t.out
      BY <1>2, <1>10
    <3>3. Range(wire \o answers \o Front(t.out)) = (Range(wire) \cup Range(answers)) \cup Range(Front(t.out))
      <4>1. PICK front \in Seq(Command) : front = Front(out)
        BY <2>5, <3>1, Appended DEF Joined
      <4>2. Range(w \o v \o front) = (Range(w) \cup Range(v)) \cup Range(front)
        BY Appended DEF Joined
      <4> QED BY <3>1, <4>1, <4>2
    <3>4. Range(answers \o wire) = Range(answers) \cup Range(wire)
      BY <1>2, RangeConcatenation
    <3>5. c \in Range(wire \o answers \o Front(t.out))
      BY <2>5, <3>3, <3>4
    <3> QED BY <2>5, <3>5, OnceRange
  <2> QED BY <2>2, <2>4, <2>5 DEF Unmixed
<1>13. TreeTypeOK'
  <2>1. t.nodes \in NodesState /\ t.r \in {"Success", "Running"}
    BY <1>10 DEF StepState
  <2>2. real \in [speed : Nat, back : BOOLEAN]
    BY DEF TreeIInv, TreeTypeOK
  <2>3. t.loco \in LocoState
    BY <1>10
  <2> QED BY <1>1, <1>2, <1>11, <1>12, <2>1, <2>2, <2>3 DEF TreeTypeOK, LocoState
<1>14. TurnFits(nodes, loco, ToSet(answers \o wire))'
  <2>1. TurnFits(t.nodes, t.loco, ToSet(p))
    BY <1>10, <1>11, ToSetRange
  <2>2. nodes' = t.nodes /\ loco' = t.loco /\ (answers \o wire)' = p /\ real' = real
    BY <1>1, <1>11
  <2> QED BY <2>1, <2>2 DEF TurnFits
<1>15. \A c \in ToSet(answers') : c \in Range(Q)
  <2>1. Range(Q) = Range(answers') \cup Range(wire)
    BY <1>2, RangeConcatenation
  <2> QED BY <2>1, ToSetRange
<1>16. TurnSeen'
  <2>1. ASSUME t.nodes.turn \in {"turning", "done"}, NEW c \in ToSet(answers'), IsTurn(c)
        PROVE  real.back = t.nodes.back
    <3>1. nodes.turn \in {"turning", "done"}
      <4>1. nodes.turn \notin {"none", "wanted"}
        BY <1>15, <2>1 DEF TurnFits
      <4> QED BY <4>1 DEF TreeIInv, TreeTypeOK, NodesState
    <3>2. aged.turn = nodes.turn /\ aged.back = nodes.back
      BY DEF SameSigns, SameTurn
    <3>3. t.nodes.back = nodes.back
      BY <1>5, <1>9, <3>1, <3>2 DEF LeafSound
    <3>4. real.back = nodes.back
      BY <2>1, <3>1 DEF TreeIInv, TurnSeen
    <3> QED BY <3>3, <3>4
  <2> QED BY <1>1, <2>1 DEF TurnSeen
<1>17. ASSUME tree = "navigate", ~mixed'
       PROVE  /\ SpeedFits(t.nodes, t.loco, p)
              /\ t.nodes.latch["done"].sent /\ (t.loco.speed = 0 \/ \E c \in ToSet(answers') : IsStop(c)) => real.speed = 0
  <2>1. ~mixed /\ Unmixed(Q, t) /\ (nodes.turn = "turning" => ~HasOnce(t.out))
    BY <1>12, <1>17
  <2>2. SpeedFits(aged, lr, Q)
    <3>1. SpeedFits(nodes, lr, Q)
      BY <1>1, <1>3, <1>17, <2>1
    <3> QED BY <3>1, AgedFits
  <2>3. Line(Q, s) = Q
    BY <1>5, ConcatEmptySeq DEF Line
  <2>4. SpeedOK(Q, s)
    BY <1>5, <2>2, <2>3 DEF SpeedOK
  <2>5. "done" \in Setters
    BY DEF Setters
  <2>6. /\ aged.turn = nodes.turn /\ aged.stopping = nodes.stopping
        /\ aged.latch["done"].sent = nodes.latch["done"].sent
    BY <2>5 DEF SameSigns, SameTurn, SameRun
  <2>7. (s.nodes.stopping => s.reserved = "all") /\ (s.nodes.turn = "turning" => ~HasOnce(t.out))
    BY <1>1, <1>5, <2>1, <2>6
  <2>8. /\ SpeedOK(Q, t)
        /\ t.nodes.latch["done"].sent /\ ~s.nodes.latch["done"].sent => s.loco.speed > 0 /\ NoStop(Q)
    <3>1. t = Tick(s) /\ s.r = "Success" /\ s.out = <<>>
      BY <1>1, <1>5
    <3>2. PICK W : W = Range(Q)
      OBVIOUS
    <3>3. TurnOK(W, s)
      BY <1>8, <3>2
    <3>4. Unmixed(Q, t)
      BY <2>1
    <3> HIDE <1>1
    <3> QED BY <1>6, <1>17, <2>4, <2>7, <3>1, <3>3, <3>4, TickSpeed
  <2>9. SpeedFits(t.nodes, t.loco, p)
    BY <1>11, <2>8 DEF SpeedOK, Line
  <2>10. ASSUME t.nodes.latch["done"].sent, t.loco.speed = 0 \/ \E c \in ToSet(answers') : IsStop(c)
         PROVE  real.speed = 0
    <3>1. CASE nodes.latch["done"].sent
      <4>1. CASE t.loco.speed = 0
        BY <1>3, <1>10, <1>17, <2>1, <3>1, <4>1
      <4>2. CASE \E c \in ToSet(answers') : IsStop(c)
        BY <1>17, <2>1, <3>1, <4>2 DEF TreeIInv, StopSeen
      <4> QED BY <2>10, <4>1, <4>2
    <3>2. CASE ~nodes.latch["done"].sent
      <4>1. lr.speed > 0 /\ NoStop(Q)
        BY <1>5, <2>6, <2>8, <2>10, <3>2
      <4>2. \A c \in Range(Q) : ~IsStop(c)
        BY <4>1 DEF NoStop, Range
      <4>3. t.loco.speed # 0
        BY <1>10, <4>1
      <4> QED BY <1>15, <2>10, <4>2, <4>3
    <3> QED BY <3>1, <3>2
  <2> QED BY <2>9, <2>10
<1>18. tree = "navigate" /\ t.r = "Success" => t.nodes.latch["done"].done
  BY <1>1, <1>5, <1>6, <1>8, TickEnds
<1>19. tree = "navigate" /\ ~mixed' => StopSeen'
  BY <1>1, <1>17 DEF StopSeen
<1>20. p = (answers \o wire)'
  BY <1>11
<1> QED BY <1>1, <1>13, <1>14, <1>16, <1>17, <1>18, <1>19, <1>20 DEF TreeIInv

LEMMA TreeReadsAnswer == TreeIInv /\ UpdateAnswer => TreeIInv'
<1>1. SUFFICES ASSUME TreeIInv, UpdateAnswer PROVE TreeIInv'
  OBVIOUS
<1>2. /\ wire \in Seq(Command) /\ answers \in Seq(Command) /\ answers # <<>> /\ answers' = Tail(answers)
      /\ loco \in LocoState /\ nodes \in NodesState
  BY <1>1 DEF TreeIInv, TreeTypeOK, UpdateAnswer, LocoState
<1>3. PICK h \in Command : h = Head(answers)
  BY <1>2, HeadTailProperties
<1>4. PICK train : train = [loco EXCEPT ![h.what] = h.value]
  OBVIOUS
<1>5. PICK reserved \in Reserved : Update("answer", train, nodes, reserved)
  BY <1>1, <1>3, <1>4 DEF UpdateAnswer
<1>6. reserved \in {"short", "some", "all"}
  BY DEF Reserved
<1>7. /\ train \in LocoState /\ train.rolls = loco.rolls
      /\ IsStop(h) => train.speed = 0
      /\ IsGo(h) => train.speed > 0
      /\ IsTurn(h) => train.back = h.value /\ train.speed = loco.speed
      /\ ~IsTurn(h) => train.back = loco.back
      /\ IsStop(h) \/ IsGo(h) \/ (IsTurn(h) /\ ~IsStop(h) /\ ~IsGo(h))
  BY <1>2, <1>4, AnswerSpeed
<1>8. PICK q, Q \in Seq(Command) : q = answers \o wire /\ Q = answers' \o wire /\ Without(Q, q, 1) /\ q[1] = h
  <2>1. Without(Tail(answers) \o wire, answers \o wire, 1) /\ (answers \o wire)[1] = Head(answers)
    BY <1>2, WithoutFirst
  <2> QED BY <1>2, <1>3, <2>1 DEF Without
<1>9. Range(Q) \subseteq Range(q) /\ h \in Range(q)
  BY <1>8, WithoutFacts
<1>10. /\ answers' \in Seq(Command) /\ ToSet(answers') \subseteq ToSet(answers) /\ h \in ToSet(answers)
  BY <1>2, <1>3, HeadTailProperties, QueueTail, ToSetRange
<1>11. SameSigns(nodes, nodes)
  BY DEF SameSigns, SameRun, SameTurn
<1>12. TurnFits(nodes, train, Range(Q))
  <2>1. TurnFits(nodes, loco, Range(q)) /\ TurnSeen
    BY <1>1, <1>8, ToSetRange DEF TreeIInv
  <2>2. TurnFits(nodes, loco, Range(Q))
    BY <1>9, <2>1, TurnFitsLess
  <2>3. CASE ~IsTurn(h)
    BY <1>7, <2>2, <2>3 DEF TurnFits
  <2>4. CASE IsTurn(h)
    <3>1. nodes.turn \notin {"none", "wanted"}
      BY <1>9, <2>1, <2>4 DEF TurnFits
    <3>2. nodes.turn \in {"turning", "done"} => real.back = nodes.back
      BY <1>10, <2>1, <2>4 DEF TurnSeen
    <3> QED BY <2>2, <3>1, <3>2 DEF TurnFits
  <2> QED BY <2>3, <2>4
<1>13. ASSUME NEW rolls \in BOOLEAN, tree = "navigate", ~mixed, Settled(loco, rolls)
       PROVE  SpeedFits(nodes, Rolling(train, rolls), Q)
  <2>1. SpeedFits(nodes, loco, q)
    BY <1>1, <1>8, <1>13 DEF TreeIInv
  <2>2. PICK lr \in LocoState : lr = [loco EXCEPT !.rolls = rolls]
    BY <1>2, RollingFacts DEF Rolling
  <2>3. SpeedFits(nodes, lr, q)
    BY <1>2, <1>13, <2>1, <2>2, FitsRolls DEF Settled
  <2>4. PICK lh : lh = [lr EXCEPT ![q[1].what] = q[1].value]
    OBVIOUS
  <2>5. SpeedFits(nodes, lh, Q)
    BY <1>8, <2>3, <2>4, FitsAnswer
  <2>6. lh = Rolling(train, rolls)
    <3>1. h.what \in {"speed", "back"}
      BY DEF Command
    <3>2. lh = [[loco EXCEPT !.rolls = rolls] EXCEPT ![h.what] = h.value]
      BY <1>8, <2>2, <2>4
    <3>3. CASE h.what = "speed"
      BY <1>2, <1>4, <3>2, <3>3 DEF Rolling, LocoState
    <3>4. CASE h.what = "back"
      BY <1>2, <1>4, <3>2, <3>4 DEF Rolling, LocoState
    <3> QED BY <3>1, <3>3, <3>4
  <2> QED BY <2>5, <2>6
<1>14. ASSUME tree = "navigate", ~mixed, nodes.latch["done"].sent, train.speed = 0 PROVE real.speed = 0
  <2>1. StopSeen
    BY <1>1, <1>14 DEF TreeIInv
  <2>2. CASE IsStop(h)
    BY <1>10, <1>14, <2>1, <2>2 DEF StopSeen
  <2>3. CASE IsGo(h)
    BY <1>7, <1>14, <2>3
  <2>4. CASE IsTurn(h)
    BY <1>7, <1>14, <2>1, <2>4 DEF StopSeen
  <2> QED BY <1>7, <2>2, <2>3, <2>4
<1>15. PICK event \in {"answer", "sensor", "tick"} : event = "answer"
  OBVIOUS
<1>16. Update(event, train, nodes, reserved)
  BY <1>5, <1>15
<1> QED BY <1>1, <1>2, <1>6, <1>7, <1>8, <1>9, <1>10, <1>11, <1>12, <1>13, <1>14, <1>16, TreeUpdates

\* The other updates show the train as the last one left it.
LEMMA TreeSeesTrain ==
  ASSUME TreeIInv, NEW event \in {"answer", "sensor", "tick"}, NEW aged \in NodesState,
         NEW reserved \in Reserved, Update(event, loco, aged, reserved), SameSigns(nodes, aged),
         answers' = answers
  PROVE  TreeIInv'
<1>1. /\ wire \in Seq(Command) /\ answers \in Seq(Command) /\ loco \in LocoState
      /\ reserved \in {"short", "some", "all"}
  BY DEF TreeIInv, TreeTypeOK, LocoState, Reserved
<1>2. PICK Q \in Seq(Command) : Q = answers \o wire /\ Q = answers' \o wire
  BY <1>1, ConcatProperties
<1>3. TurnFits(nodes, loco, Range(Q))
  BY <1>2, ToSetRange DEF TreeIInv
<1>4. ASSUME NEW rolls \in BOOLEAN, tree = "navigate", ~mixed, Settled(loco, rolls)
      PROVE  SpeedFits(nodes, Rolling(loco, rolls), Q)
  <2>1. SpeedFits(nodes, loco, Q)
    BY <1>2, <1>4 DEF TreeIInv
  <2>2. PICK lr \in LocoState : lr = [loco EXCEPT !.rolls = rolls] /\ lr = Rolling(loco, rolls)
    BY <1>1, RollingFacts DEF Rolling
  <2>3. SpeedFits(nodes, lr, Q)
    BY <1>1, <1>4, <2>1, <2>2, FitsRolls DEF Settled
  <2> QED BY <2>2, <2>3
<1>5. tree = "navigate" /\ ~mixed /\ nodes.latch["done"].sent /\ loco.speed = 0 => real.speed = 0
  BY DEF TreeIInv, StopSeen
<1>6. /\ Range(Q) \subseteq Range(answers \o wire) /\ answers' \in Seq(Command)
      /\ ToSet(answers') \subseteq ToSet(answers)
  BY <1>1, <1>2
<1> QED BY <1>1, <1>2, <1>3, <1>4, <1>5, <1>6, TreeUpdates

LEMMA TreeHitsSensor == TreeIInv /\ UpdateSensor => TreeIInv'
<1>1. SUFFICES ASSUME TreeIInv, UpdateSensor PROVE TreeIInv'
  OBVIOUS
<1>2. PICK event \in {"answer", "sensor", "tick"}, reserved \in Reserved :
        Update(event, loco, nodes, reserved) /\ answers' = answers
  BY <1>1 DEF UpdateSensor
<1>3. nodes \in NodesState
  BY <1>1 DEF TreeIInv, TreeTypeOK
<1>4. SameSigns(nodes, nodes)
  BY DEF SameSigns, SameRun, SameTurn
<1> QED BY <1>1, <1>2, <1>3, <1>4, TreeSeesTrain

LEMMA OlderFacts ==
  \A l \in Latch : Older(l) \in Latch /\ Older(l).sent = l.sent /\ Older(l).done = l.done
BY DEF Latch, Older

\* A tick changes the ages only.
LEMMA TickAges ==
  ASSUME TreeIInv, NEW reserved \in Reserved, UpdateTick(reserved)
  PROVE  \E event \in {"answer", "sensor", "tick"} : \E aged \in NodesState :
           Update(event, loco, aged, reserved) /\ answers' = answers /\ SameSigns(nodes, aged)
<1>1. nodes \in NodesState
  BY DEF TreeIInv, TreeTypeOK
<1>2. PICK latch \in [Setters -> Latch] : latch = [n \in Setters |-> Older(nodes.latch[n])]
  BY <1>1, OlderFacts DEF NodesState
<1>3. PICK aged \in NodesState : aged = [nodes EXCEPT !.latch = latch]
  BY <1>1 DEF NodesState
<1>4. [nodes EXCEPT !.latch = [n \in Setters |-> Older(@[n])]] = aged
  BY <1>2, <1>3
<1>5. PICK event \in {"answer", "sensor", "tick"} : event = "tick"
  OBVIOUS
<1>6. Update(event, loco, aged, reserved) /\ answers' = answers
  BY <1>4, <1>5 DEF UpdateTick
<1>7. SameSigns(nodes, aged)
  <2>1. \A n \in Setters : latch[n].sent = nodes.latch[n].sent /\ latch[n].done = nodes.latch[n].done
    BY <1>1, <1>2, OlderFacts DEF NodesState
  <2>2. aged.latch = latch /\ SameRun(nodes, aged) /\ SameTurn(nodes, aged)
    BY <1>1, <1>3 DEF NodesState, SameRun, SameTurn
  <2> QED BY <2>1, <2>2 DEF SameSigns
<1> QED BY <1>6, <1>7

LEMMA TreeTakesTime == ASSUME NEW reserved \in Reserved PROVE TreeIInv /\ UpdateTick(reserved) => TreeIInv'
<1>1. SUFFICES ASSUME TreeIInv, UpdateTick(reserved) PROVE TreeIInv'
  OBVIOUS
<1>2. PICK event \in {"answer", "sensor", "tick"}, aged \in NodesState :
        Update(event, loco, aged, reserved) /\ answers' = answers /\ SameSigns(nodes, aged)
  BY <1>1, TickAges
<1> QED BY <1>1, <1>2, TreeSeesTrain
-----------------------------------------------------------------------------
(* In every state of a tree, its train and the station, whatever is lost:    *)
(* only one direction is ever sent, what the train's state or an answer     *)
(* shows of it the train has, and, while no command of PathReservationNode  *)
(* has met another, the commands under way are those of one phase of the    *)
(* navigation in an order that ends at the speed the tree last asked for.   *)
THEOREM TreeInvariant == TreeSpec => []TreeIInv
<1>1. TreeInit => TreeIInv
  BY TreeInitial
<1>2. TreeIInv /\ [TreeNext]_treeVars => TreeIInv'
  BY TreeExecutes, TreeLosesCommand, TreeLosesAnswer, TreeComesNear, TreeReadsAnswer, TreeHitsSensor,
     TreeTakesTime, TreeStutters DEF TreeNext
<1> QED BY <1>1, <1>2, PTL DEF TreeSpec

(* A train that ReverseTree has turned has its new direction, however often  *)
(* the command was sent, lost or executed twice.                            *)
THEOREM TreeTurnedForGood == TreeSpec => []TurnedForGood
<1>1. TreeIInv => TurnedForGood
  BY DEF TreeIInv, TurnFits, TurnedForGood
<1> QED BY <1>1, TreeInvariant, PTL

(* When NavigateTree ends the train stands: StopAtDonePath takes no answer   *)
(* to an earlier command for that to its stop.                              *)
THEOREM TreeStandsAtEnd == TreeSpec => []StandsAtEnd
<1>1. TreeIInv => StandsAtEnd
  <2>1. SUFFICES ASSUME TreeIInv, tree = "navigate", result = "Success", ~mixed PROVE real.speed = 0
    BY DEF StandsAtEnd
  <2>2. nodes.latch["done"].done /\ SpeedFits(nodes, loco, answers \o wire) /\ StopSeen
    BY <2>1 DEF TreeIInv
  <2>3. nodes.latch["done"].sent /\ nodes.latch["crawl"].done
    BY <2>2 DEF SpeedFits
  <2>4. loco.speed = 0
    BY <2>2, <2>3 DEF SpeedFits, Stops
  <2> QED BY <2>2, <2>3, <2>4 DEF StopSeen
<1> QED BY <1>1, TreeInvariant, PTL
-----------------------------------------------------------------------------
(* Calibration.  How a change of speed goes on when a command is sent,      *)
(* executed or lost, or its answer is read.                                 *)
LEMMA ChangesKeeps ==
  ASSUME NEW v, NEW w, NEW lc, NEW q, NEW a, NEW speed, Changes(v, w, lc, q, a, speed), lc.speed = w
  PROVE  Keeps(w, lc, q, a, speed)
<1>1. \A i \in DOMAIN q : q[i].what = "speed" => q[i].value = w
  BY DEF Changes, Sets
<1>2. speed = w
  BY DEF Changes
<1> QED BY <1>1, <1>2 DEF Keeps, Changes

LEMMA KeepsChanges ==
  ASSUME NEW v, NEW w, NEW lc, NEW q, NEW a, NEW speed, Keeps(v, lc, q, a, speed), a \subseteq Range(q)
  PROVE  Changes(v, w, lc, q, a, speed)
<1>1. /\ \A i \in DOMAIN q : q[i].what = "speed" => q[i].value = v
      /\ lc.speed = v /\ speed = v
  BY DEF Keeps, Changes
<1>2. \A c \in a : c.what = "speed" => c.value = v
  BY <1>1 DEF Range
<1> QED BY <1>1, <1>2 DEF Changes, Sets

LEMMA ChangesAsk ==
  ASSUME NEW v, NEW w, NEW lc, NEW q \in Seq(Command), NEW a, NEW speed, Changes(v, w, lc, q, a, speed),
         NEW c \in Command, c.what = "speed" => c.value = w
  PROVE  Changes(v, w, lc, Append(q, c), a, speed)
<1>1. PICK p : p = Append(q, c)
  OBVIOUS
<1>2. /\ Len(q) \in Nat /\ p[Len(q) + 1] = c /\ DOMAIN q = 1 .. Len(q) /\ DOMAIN p = 1 .. (Len(q) + 1)
      /\ \A i \in 1 .. Len(q) : p[i] = q[i]
  BY <1>1, AppendProperties, LenProperties
<1>3. \A i \in DOMAIN p : (i \in DOMAIN q /\ p[i] = q[i]) \/ (i = Len(q) + 1 /\ p[i] = c)
  BY <1>2
<1>4. \A i \in DOMAIN p : p[i].what = "speed" => p[i].value \in {v, w}
  BY <1>3 DEF Changes
<1>5. ASSUME v # w, NEW i \in DOMAIN p, NEW j \in DOMAIN p, i < j, Sets(p[i], w) PROVE ~Sets(p[j], v)
  <2>1. i \in DOMAIN q /\ p[i] = q[i]
    BY <1>2, <1>5
  <2>2. CASE j \in DOMAIN q /\ p[j] = q[j]
    BY <1>5, <2>1, <2>2 DEF Changes
  <2>3. CASE j = Len(q) + 1 /\ p[j] = c
    BY <1>5, <2>3 DEF Sets
  <2> QED BY <1>3, <2>2, <2>3
<1>6. ASSUME v # w, lc.speed = w, NEW i \in DOMAIN p PROVE ~Sets(p[i], v)
  BY <1>3, <1>6 DEF Changes, Sets
<1> QED BY <1>1, <1>4, <1>5, <1>6 DEF Changes

LEMMA ChangesLost ==
  ASSUME NEW p, NEW q, NEW j, Without(p, q, j), NEW v, NEW w, NEW lc, NEW a, NEW b, NEW speed,
         Changes(v, w, lc, q, a, speed), b \subseteq a
  PROVE  Changes(v, w, lc, p, b, speed)
<1>1. PICK m, n \in Nat : m = Len(p) /\ n = Len(q) /\ n = m + 1
  BY LenProperties DEF Without
<1>2. DOMAIN p = 1 .. m /\ DOMAIN q = 1 .. n /\ j \in 1 .. n
  BY <1>1, LenProperties DEF Without
<1>3. PICK g : g = [i \in 1 .. m |-> IF i < j THEN i ELSE i + 1]
  OBVIOUS
<1>4. \A i \in 1 .. m : g[i] \in 1 .. n /\ p[i] = q[g[i]]
  BY <1>1, <1>2, <1>3 DEF Without
<1>5. \A i, k \in 1 .. m : i < k => g[i] < g[k]
  BY <1>1, <1>2, <1>3
<1>6. \A i \in DOMAIN p : p[i].what = "speed" => p[i].value \in {v, w}
  BY <1>2, <1>4 DEF Changes
<1>7. ASSUME v # w, NEW i \in DOMAIN p, NEW k \in DOMAIN p, i < k, Sets(p[i], w) PROVE ~Sets(p[k], v)
  BY <1>2, <1>4, <1>5, <1>7 DEF Changes
<1>8. ASSUME v # w, lc.speed = w, NEW i \in DOMAIN p PROVE ~Sets(p[i], v)
  BY <1>2, <1>4, <1>8 DEF Changes
<1>9. lc.speed = w \/ (\E c \in b : Sets(c, w)) => speed = w
  BY DEF Changes
<1> QED BY <1>6, <1>7, <1>8, <1>9 DEF Changes

LEMMA ChangesRead ==
  ASSUME NEW p, NEW q, Without(p, q, 1), NEW v, NEW w, NEW lc \in LocoState, NEW lh, NEW a, NEW b, NEW speed,
         lh = [lc EXCEPT ![q[1].what] = q[1].value], q[1] \in a, b \subseteq a,
         Changes(v, w, lc, q, a, speed)
  PROVE  Changes(v, w, lh, p, b, speed)
<1>1. PICK h \in Command : h = q[1]
  BY ElementOfSeq DEF Without
<1>2. /\ 1 \in DOMAIN q /\ \A i \in DOMAIN p : i + 1 \in DOMAIN q /\ 1 < i + 1 /\ p[i] = q[i + 1]
  <2>1. PICK m, n \in Nat : m = Len(p) /\ n = Len(q) /\ n = m + 1
    BY LenProperties DEF Without
  <2>2. DOMAIN p = 1 .. m /\ DOMAIN q = 1 .. n
    BY <2>1, LenProperties DEF Without
  <2>3. \A i \in 1 .. m : p[i] = q[i + 1]
    BY <2>1 DEF Without
  <2> QED BY <2>1, <2>2, <2>3
<1>3. Changes(v, w, lc, p, b, speed)
  BY ChangesLost
<1>4. CASE h.what # "speed"
  <2>1. lh.speed = lc.speed
    BY <1>1, <1>4 DEF LocoState, Command
  <2> QED BY <1>3, <2>1 DEF Changes
<1>5. CASE h.what = "speed"
  <2>1. lh.speed = h.value /\ h.value \in {v, w}
    BY <1>1, <1>2, <1>5 DEF LocoState, Changes
  <2>2. CASE h.value = w
    <3>1. Sets(q[1], w) /\ speed = w
      BY <1>1, <1>5, <2>2 DEF Changes, Sets
    <3>2. v # w => \A i \in DOMAIN p : ~Sets(p[i], v)
      BY <1>2, <3>1 DEF Changes
    <3> QED BY <1>3, <2>1, <2>2, <3>1, <3>2 DEF Changes
  <2>3. CASE h.value # w
    BY <1>3, <2>1, <2>3 DEF Changes
  <2> QED BY <2>2, <2>3
<1> QED BY <1>4, <1>5

LEMMA ChangesExecuted ==
  ASSUME NEW v, NEW w, NEW lc, NEW q, NEW m \in DOMAIN q, NEW a, NEW speed, NEW now,
         \A c \in a : \E i \in DOMAIN q : i < m /\ q[i] = c,
         now = IF q[m].what = "speed" THEN q[m].value ELSE speed,
         Changes(v, w, lc, q, a, speed)
  PROVE  Changes(v, w, lc, q, a \cup {q[m]}, now)
<1>1. now \in {v, w}
  BY DEF Changes
<1>2. ASSUME lc.speed = w \/ (\E c \in a \cup {q[m]} : Sets(c, w)) PROVE now = w
  <2>1. CASE Sets(q[m], w)
    BY <2>1 DEF Sets
  <2>2. CASE ~Sets(q[m], w) /\ v # w
    <3>1. ~Sets(q[m], v)
      BY <1>2, <2>2 DEF Changes
    <3>2. q[m].what # "speed"
      BY <2>2, <3>1 DEF Changes, Sets
    <3> QED BY <1>2, <2>2, <3>2 DEF Changes
  <2>3. CASE v = w
    BY <1>1, <2>3
  <2> QED BY <2>1, <2>2, <2>3
<1> QED BY <1>1, <1>2 DEF Changes

\* So the change that each node waits for goes on.
LEMMA DrivesOn ==
  ASSUME NEW nd, NEW lc, NEW q, NEW a, NEW speed, NEW lh, NEW p, NEW b, NEW now, lh.rolls = lc.rolls,
         \A v, w : Changes(v, w, lc, q, a, speed) => Changes(v, w, lh, p, b, now),
         Drives(nd, lc, q, a, speed)
  PROVE  Drives(nd, lh, p, b, now)
BY DEF Drives, Keeps

\* The estimate that the train rolls changes when the speed that it follows is seen.
LEMMA DrivesRolls ==
  ASSUME NEW nd, NEW lc \in LocoState, NEW rolls \in BOOLEAN, NEW q, NEW a, NEW speed, a \subseteq Range(q),
         Settled(lc, rolls), Drives(nd, lc, q, a, speed)
  PROVE  Drives(nd, Rolling(lc, rolls), q, a, speed)
<1>1. PICK lr \in LocoState : /\ lr = Rolling(lc, rolls) /\ lr.speed = lc.speed /\ lr.rolls = rolls
  <2>1. Rolling(lc, rolls).rolls = rolls
    BY DEF Rolling, LocoState
  <2> QED BY <2>1, RollingFacts
<1>2. \A v, w : Changes(v, w, lc, q, a, speed) => Changes(v, w, lr, q, a, speed)
  BY <1>1 DEF Changes
<1>3. lc.rolls \in BOOLEAN /\ lc.speed \in Nat /\ CRAWL \in Nat /\ CRAWL > 0
  BY TreesAssumption DEF LocoState
<1>4. ASSUME Changes(CRAWL, 0, lc, q, a, speed), lc.rolls, ~rolls PROVE Changes(0, CRAWL, lr, q, a, speed)
  <2>1. lc.speed = 0
    BY <1>3, <1>4 DEF Settled
  <2>2. Keeps(0, lc, q, a, speed)
    BY <1>4, <2>1, ChangesKeeps
  <2> QED BY <1>2, <2>2, KeepsChanges
<1>5. ASSUME Changes(0, CRAWL, lc, q, a, speed), ~lc.rolls, rolls PROVE Changes(CRAWL, 0, lr, q, a, speed)
  <2>1. lc.speed = CRAWL
    <3>1. lc.speed > 0
      BY <1>3, <1>5 DEF Settled
    <3>2. lc.speed \in {0, CRAWL}
      BY <1>5 DEF Changes
    <3> QED BY <3>1, <3>2
  <2>2. Keeps(CRAWL, lc, q, a, speed)
    BY <1>5, <2>1, ChangesKeeps
  <2> QED BY <1>2, <2>2, KeepsChanges
<1>6. /\ StopSent(nd) /\ lc.rolls => Changes(CRAWL, 0, lc, q, a, speed) \/ ~nd.latch["crawl"].done \/ nd.latch["test"].sent
      /\ StopSent(nd) /\ ~lc.rolls => Changes(0, CRAWL, lc, q, a, speed) \/ ~nd.latch["crawl"].done \/ nd.latch["test"].sent
  BY DEF Drives
<1>7. nd.latch["crawl"].done /\ ~nd.latch["test"].sent /\ StopSent(nd) =>
        IF lr.rolls THEN Changes(CRAWL, 0, lr, q, a, speed) ELSE Changes(0, CRAWL, lr, q, a, speed)
  BY <1>1, <1>2, <1>3, <1>4, <1>5, <1>6
<1>8. Drives(nd, lr, q, a, speed)
  BY <1>2, <1>7 DEF Drives, Keeps
<1> QED BY <1>1, <1>8

LEMMA AgedDrives ==
  ASSUME NEW b, NEW nd, SameSigns(b, nd), NEW lc, NEW q, NEW a, NEW speed, NEW lp
  PROVE  /\ InOrder(b) => InOrder(nd)
         /\ Drives(b, lc, q, a, speed) => Drives(nd, lc, q, a, speed)
         /\ LapseFits(b, lp) => LapseFits(nd, lp)
<1>1. \A n \in Setters : nd.latch[n].sent = b.latch[n].sent /\ nd.latch[n].done = b.latch[n].done
  BY DEF SameSigns
<1>2. /\ "crawl" \in Setters /\ "test" \in Setters /\ "slow" \in Setters /\ "test_2" \in Setters
      /\ "stop" \in Setters /\ "turn_stop" \in Setters /\ "turn_go" \in Setters
  BY DEF Setters, Turning
<1>3. /\ nd.stopped = b.stopped /\ nd.times = b.times /\ nd.turn = b.turn /\ nd.again = b.again
  BY DEF SameSigns, SameRun, SameTurn
<1>4. InOrder(b) => InOrder(nd)
  BY <1>1, <1>2, <1>3 DEF InOrder
<1>5. Drives(b, lc, q, a, speed) => Drives(nd, lc, q, a, speed)
  BY <1>1, <1>2, <1>3 DEF Drives, StopSent
<1>6. LapseFits(b, lp) => LapseFits(nd, lp)
  BY <1>1, <1>2, <1>3 DEF LapseFits
<1> QED BY <1>4, <1>5, <1>6

\* A node that sets the speed w, which was v.
SetDrives(n, v, w, Q, a, s, u) ==
  /\ u.nodes.latch[n].sent
  /\ Changes(v, w, s.loco, Line(Q, s), a, real.speed) => Changes(v, w, s.loco, Line(Q, u), a, real.speed)
  /\ \/ /\ s.nodes.latch[n].done /\ u.nodes.latch[n].done /\ Line(Q, u) = Line(Q, s) /\ u.r = "Success"
     \/ /\ ~s.nodes.latch[n].done /\ u.nodes.latch[n].done /\ Line(Q, u) = Line(Q, s) /\ u.r = "Success"
        /\ s.nodes.latch[n].sent /\ s.loco.speed = w
     \/ /\ ~s.nodes.latch[n].done /\ ~u.nodes.latch[n].done /\ u.r = "Running"

LEMMA SetDrivesFacts ==
  ASSUME NEW Q \in Seq(Command), NEW a, NEW s \in StepState, NEW u, NEW n, NEW v, NEW w \in Nat,
         SetRel(n, s.loco.speed, w, s, u, Plain("speed", w))
  PROVE  SetDrives(n, v, w, Q, a, s, u)
<1>1. PICK c \in Command : c = Plain("speed", w) /\ c.value = w
  BY CommandFacts DEF Plain, CommandOf
<1>2. PICK q \in Seq(Command) : q = Line(Q, s)
  BY LineType
<1>3. CASE SetDone(n, s.loco.speed, w, s, u)
  <2>1. Line(Q, u) = Line(Q, s)
    BY <1>3 DEF SetDone, Line
  <2> QED BY <1>3, <2>1 DEF SetDone, SetDrives, Confirmed
<1>4. CASE SetWaits(n, s.loco.speed, w, s, u)
  <2>1. Line(Q, u) = Line(Q, s)
    BY <1>4 DEF SetWaits, Line
  <2> QED BY <1>4, <2>1 DEF SetWaits, SetDrives, Confirmed
<1>5. CASE SetSends(n, s.loco.speed, w, s, u, Plain("speed", w))
  <2>1. Line(Q, u) = Append(q, c)
    BY <1>1, <1>2, <1>5, LineGrows DEF SetSends
  <2>2. Changes(v, w, s.loco, q, a, real.speed) => Changes(v, w, s.loco, Append(q, c), a, real.speed)
    BY <1>1, ChangesAsk
  <2> QED BY <1>2, <1>5, <2>1, <2>2 DEF SetSends, SetDrives, Confirmed
<1> QED BY <1>3, <1>4, <1>5 DEF SetRel

LEMMA BackDrives ==
  ASSUME NEW Q \in Seq(Command), NEW a, NEW s \in StepState, NEW u, NEW n, NEW now, NEW b,
         Plain("back", b) \in Command, SetRel(n, now, b, s, u, Plain("back", b)), NEW v, NEW w,
         Changes(v, w, s.loco, Line(Q, s), a, real.speed)
  PROVE  Changes(v, w, s.loco, Line(Q, u), a, real.speed)
<1>1. PICK c \in Command : c = Plain("back", b) /\ c.what # "speed"
  BY DEF Plain, CommandOf
<1>2. PICK q \in Seq(Command) : q = Line(Q, s)
  BY LineType
<1>3. CASE u.out = s.out
  BY <1>3 DEF Line
<1>4. CASE u.out = Append(s.out, c)
  <2>1. Line(Q, u) = Append(q, c)
    BY <1>2, <1>4, LineGrows
  <2> QED BY <1>1, <1>2, <2>1, ChangesAsk
<1> QED BY <1>1, <1>3, <1>4 DEF SetRel, SetDone, SetWaits, SetSends
-----------------------------------------------------------------------------
(* The leaves of CalibrateTree: none but the Repeats counts, and what is    *)
(* known of the current loop stays true.                                    *)
Driven(Q, a, s) == InOrder(s.nodes) /\ Drives(s.nodes, s.loco, Line(Q, s), a, real.speed)
Alike(s, u) ==
  /\ u \in StepState /\ Same(s, u) /\ u.nodes.times = s.nodes.times
Carries(Q, a, s, u) ==
  /\ Alike(s, u) /\ Driven(Q, a, u)
  /\ \A lp : real.speed \in lp /\ LapseFits(s.nodes, lp) => LapseFits(u.nodes, lp)

LEMMA CalibrateSet ==
  ASSUME NEW Q \in Seq(Command), NEW a, NEW n \in Plainly, NEW s \in StepState, NEW u, NEW v, s.r = "Success",
         u = NextLeaf(n, s)
  PROVE  SetDrives(n, v, SpeedOf(n), Q, a, s, u) /\ Alike(s, u) /\ LatchOnly(s.nodes, u.nodes, n)
<1>1. SetRel(n, s.loco.speed, SpeedOf(n), s, u, Plain("speed", SpeedOf(n)))
  BY AfterSuccess, PlainLeaf
<1>2. SetDrives(n, v, SpeedOf(n), Q, a, s, u)
  BY <1>1, SpeedsOf, SetDrivesFacts
<1> QED BY <1>1, <1>2 DEF SetRel, Alike, LatchOnly

LEMMA CarriesItself ==
  ASSUME NEW Q, NEW a, NEW s \in StepState, Driven(Q, a, s) PROVE Carries(Q, a, s, s)
BY DEF Carries, Alike, Same, SameTrain

Crawled(s, u) ==
  /\ u.nodes.turn = s.nodes.turn /\ \A n \in Turning : u.nodes.latch[n] = s.nodes.latch[n]
  /\ u.r = "Success" => u.nodes.latch["crawl"].done

LEMMA CalibrateCrawl ==
  ASSUME NEW Q \in Seq(Command), NEW a, a \subseteq Range(Q), NEW s \in StepState, NEW u, s.r = "Success",
         u = NextLeaf("crawl", s), Driven(Q, a, s)
  PROVE  Carries(Q, a, s, u) /\ Crawled(s, u)
<1>1. "crawl" \in Plainly /\ SpeedOf("crawl") = CRAWL
  BY DEF Plainly, SpeedOf
<1>2. SetDrives("crawl", 0, CRAWL, Q, a, s, u) /\ Alike(s, u) /\ LatchOnly(s.nodes, u.nodes, "crawl")
  BY <1>1, CalibrateSet
<1>3. /\ u.nodes.turn = s.nodes.turn /\ u.nodes.again = s.nodes.again /\ u.nodes.stopped = s.nodes.stopped
      /\ u.nodes.times = s.nodes.times /\ u.loco = s.loco
      /\ \A n \in Turning \cup {"test", "slow", "test_2", "stop"} : u.nodes.latch[n] = s.nodes.latch[n]
  BY <1>2 DEF Alike, Same, SameTrain, LatchOnly, Turning, Setters
<1>4. PICK q, p : q = Line(Q, s) /\ p = Line(Q, u)
  OBVIOUS
<1>5. InOrder(s.nodes) /\ Drives(s.nodes, s.loco, q, a, real.speed)
  BY <1>4 DEF Driven
<1>6. InOrder(u.nodes)
  BY <1>2, <1>3, <1>5 DEF InOrder, SetDrives, Turning
<1>7. Drives(u.nodes, u.loco, p, a, real.speed)
  <2>1. CASE s.nodes.latch["crawl"].done
    BY <1>2, <1>3, <1>4, <1>5, <2>1 DEF Drives, StopSent, SetDrives, Turning
  <2>2. CASE ~s.nodes.latch["crawl"].done
    <3>1. /\ Changes(0, CRAWL, s.loco, p, a, real.speed)
          /\ ~u.nodes.latch["test"].sent /\ ~u.nodes.latch["test"].done /\ ~u.nodes.latch["slow"].sent
          /\ ~u.nodes.latch["slow"].done /\ ~u.nodes.latch["test_2"].sent /\ ~u.nodes.latch["test_2"].done
          /\ u.nodes.turn # "turning"
      BY <1>2, <1>3, <1>4, <1>5, <2>2 DEF Drives, InOrder, SetDrives
    <3>2. u.nodes.latch["crawl"].done => Keeps(CRAWL, s.loco, p, a, real.speed)
      BY <1>2, <2>2, <3>1, ChangesKeeps DEF SetDrives
    <3> QED BY <1>3, <3>1, <3>2 DEF Drives, StopSent
  <2> QED BY <2>1, <2>2
<1>8. \A lp : LapseFits(s.nodes, lp) => LapseFits(u.nodes, lp)
  BY <1>3 DEF LapseFits
<1>9. u.r = "Success" => u.nodes.latch["crawl"].done
  BY <1>2 DEF SetDrives
<1> QED BY <1>2, <1>3, <1>4, <1>6, <1>7, <1>8, <1>9 DEF Carries, Driven, Crawled

\* A train that is calibrated has all of its path reserved.
LEMMA CalibrateReserve ==
  ASSUME NEW Q, NEW a, NEW s \in StepState, NEW u, u = NextLeaf("reserve", s), s.reserved = "all",
         Driven(Q, a, s)
  PROVE  Carries(Q, a, s, u) /\ u.nodes = s.nodes /\ u.r = s.r
<1>1. CASE s.r # "Success"
  BY <1>1, AfterSuccess, CarriesItself
<1>2. CASE s.r = "Success"
  <2>1. u = Reserve(s)
    BY <1>2, AfterSuccess DEF TickLeaf, Repeats
  <2>2. ~s.nodes.stopped
    BY DEF Driven, InOrder
  <2>3. ReserveRel(s, u)
    BY <2>1, ReserveFacts
  <2>4. u \in StepState /\ Same(s, u) /\ u.nodes = s.nodes /\ u.r = "Success" /\ u.out = s.out
    BY <2>2, <2>3 DEF ReserveRel
  <2>5. Line(Q, u) = Line(Q, s) /\ u.loco = s.loco
    BY <2>4 DEF Line, Same, SameTrain
  <2> QED BY <1>2, <2>4, <2>5 DEF Carries, Alike, Driven
<1> QED BY <1>1, <1>2

\* ReverseTree stops the train, turns it, and lets it run at the crawl speed
\* again; s is the record before it, and x after some of its nodes.
StopStarts(Q, a, x) ==
  IF x.nodes.latch["turn_stop"].sent
    THEN IF x.loco.rolls THEN Changes(CRAWL, 0, x.loco, Line(Q, x), a, real.speed)
                         ELSE Changes(0, CRAWL, x.loco, Line(Q, x), a, real.speed)
    ELSE Keeps(CRAWL, x.loco, Line(Q, x), a, real.speed)
InTurn(Q, a, s, x) ==
  /\ Alike(s, x) /\ Others(s.nodes, x.nodes) /\ StopStarts(Q, a, x)
  /\ x.nodes.turn = "turning" /\ x.nodes.again = CRAWL

LEMMA TurnCarries ==
  ASSUME NEW Q, NEW a, NEW s \in StepState, NEW u \in StepState, Alike(s, u), Others(s.nodes, u.nodes),
         Driven(Q, a, s), s.nodes.turn \in {"wanted", "turning"}, s.nodes.latch["crawl"].done,
         \/ /\ u.nodes.turn = "turning" /\ u.nodes.again = CRAWL /\ ~u.nodes.latch["turn_go"].done
            /\ StopStarts(Q, a, u)
         \/ u.nodes.turn = "done" /\ Keeps(CRAWL, u.loco, Line(Q, u), a, real.speed)
  PROVE  Carries(Q, a, s, u)
<1>1. /\ u.nodes.stopped = s.nodes.stopped /\ u.nodes.times = s.nodes.times
      /\ \A n \in {"crawl", "test", "slow", "test_2", "stop"} : u.nodes.latch[n] = s.nodes.latch[n]
  BY DEF Alike, Others, Setters, Turning
<1>2. /\ ~u.nodes.latch["test"].sent /\ ~u.nodes.latch["test"].done /\ ~u.nodes.latch["slow"].sent
      /\ ~u.nodes.latch["slow"].done /\ ~u.nodes.latch["test_2"].sent /\ ~u.nodes.latch["test_2"].done
      /\ u.nodes.latch["crawl"].done /\ ~u.nodes.latch["stop"].sent
  BY <1>1 DEF Driven, InOrder
<1>3. InOrder(u.nodes)
  <2>1. InOrder(s.nodes)
    BY DEF Driven
  <2> QED BY <1>1, <1>2, <2>1 DEF InOrder
<1>4. Drives(u.nodes, u.loco, Line(Q, u), a, real.speed)
  BY <1>2 DEF Drives, StopSent, StopStarts
<1>5. \A lp : LapseFits(s.nodes, lp) => LapseFits(u.nodes, lp)
  BY <1>1 DEF LapseFits
<1> QED BY <1>3, <1>4, <1>5 DEF Carries, Driven

LEMMA TurnStopDrives ==
  ASSUME NEW Q \in Seq(Command), NEW a, a \subseteq Range(Q), NEW s \in StepState, NEW i \in StepState, NEW d,
         InTurn(Q, a, s, i), i.loco.rolls, SetRel("turn_stop", i.loco.speed, 0, i, d, Plain("speed", 0)),
         a \subseteq Range(Line(Q, i))
  PROVE  InTurn(Q, a, s, d) /\ d.nodes.latch["turn_go"] = i.nodes.latch["turn_go"]
<1>1. SetDrives("turn_stop", CRAWL, 0, Q, a, i, d)
  BY SetDrivesFacts
<1>2. d \in StepState /\ Same(i, d) /\ LatchOnly(i.nodes, d.nodes, "turn_stop")
  BY DEF SetRel
<1>3. Alike(s, d) /\ Others(s.nodes, d.nodes) /\ d.nodes.turn = "turning" /\ d.nodes.again = CRAWL
  BY <1>2 DEF Alike, Same, SameTrain, LatchOnly, Others, InTurn, Turning
<1>4. d.loco = i.loco /\ d.nodes.latch["turn_stop"].sent
  BY <1>1, <1>2 DEF Same, SameTrain, SetDrives
<1>5. Changes(CRAWL, 0, i.loco, Line(Q, i), a, real.speed)
  BY KeepsChanges DEF InTurn, StopStarts
<1>6. Changes(CRAWL, 0, i.loco, Line(Q, d), a, real.speed)
  BY <1>1, <1>5 DEF SetDrives
<1>7. "turn_go" \in Setters \ {"turn_stop"}
  BY DEF Setters, Turning
<1> QED BY <1>2, <1>3, <1>4, <1>6, <1>7 DEF InTurn, StopStarts, LatchOnly

LEMMA TurnBackDrives ==
  ASSUME NEW Q \in Seq(Command), NEW a, NEW s \in StepState, NEW i \in StepState, NEW d, NEW now, NEW b \in BOOLEAN,
         InTurn(Q, a, s, i), SetRel("turn", now, b, i, d, Plain("back", b))
  PROVE  InTurn(Q, a, s, d) /\ d.nodes.latch["turn_go"] = i.nodes.latch["turn_go"]
<1>1. d \in StepState /\ Same(i, d) /\ LatchOnly(i.nodes, d.nodes, "turn")
  BY DEF SetRel
<1>2. Alike(s, d) /\ Others(s.nodes, d.nodes) /\ d.nodes.turn = "turning" /\ d.nodes.again = CRAWL
  BY <1>1 DEF Alike, Same, SameTrain, LatchOnly, Others, InTurn, Turning
<1>3. "turn_go" \in Setters \ {"turn"} /\ "turn_stop" \in Setters \ {"turn"}
  BY DEF Setters, Turning
<1>4. /\ d.loco = i.loco /\ d.nodes.latch["turn_stop"] = i.nodes.latch["turn_stop"]
      /\ d.nodes.latch["turn_go"] = i.nodes.latch["turn_go"]
  BY <1>1, <1>3 DEF Same, SameTrain, LatchOnly
<1>5. \A v, w : Changes(v, w, i.loco, Line(Q, i), a, real.speed) => Changes(v, w, i.loco, Line(Q, d), a, real.speed)
  BY CommandFacts, BackDrives
<1>6. StopStarts(Q, a, d)
  BY <1>4, <1>5 DEF InTurn, StopStarts, Keeps
<1> QED BY <1>2, <1>4, <1>6 DEF InTurn

LEMMA TurnGoDrives ==
  ASSUME NEW Q \in Seq(Command), NEW a, NEW s \in StepState, NEW i \in StepState, NEW d,
         InTurn(Q, a, s, i), ~i.loco.rolls, ~i.nodes.latch["turn_go"].done,
         SetRel("turn_go", i.loco.speed, CRAWL, i, d, Plain("speed", CRAWL))
  PROVE  /\ InTurn(Q, a, s, d)
         /\ IF d.r = "Success" THEN Keeps(CRAWL, d.loco, Line(Q, d), a, real.speed)
            ELSE ~d.nodes.latch["turn_go"].done
<1>0. CRAWL \in Nat
  BY TreesAssumption
<1>1. SetDrives("turn_go", 0, CRAWL, Q, a, i, d) /\ SetDrives("turn_go", CRAWL, CRAWL, Q, a, i, d)
  BY <1>0, SetDrivesFacts
<1>2. d \in StepState /\ Same(i, d) /\ LatchOnly(i.nodes, d.nodes, "turn_go")
  BY DEF SetRel
<1>3. Alike(s, d) /\ Others(s.nodes, d.nodes) /\ d.nodes.turn = "turning" /\ d.nodes.again = CRAWL
  BY <1>2 DEF Alike, Same, SameTrain, LatchOnly, Others, InTurn, Turning
<1>4. "turn_stop" \in Setters \ {"turn_go"}
  BY DEF Setters, Turning
<1>5. d.loco = i.loco /\ d.nodes.latch["turn_stop"] = i.nodes.latch["turn_stop"]
  BY <1>2, <1>4 DEF Same, SameTrain, LatchOnly
<1>6. IF i.nodes.latch["turn_stop"].sent THEN Changes(0, CRAWL, i.loco, Line(Q, d), a, real.speed)
      ELSE Changes(CRAWL, CRAWL, i.loco, Line(Q, d), a, real.speed)
  BY <1>1 DEF InTurn, StopStarts, Keeps, SetDrives
<1>7. InTurn(Q, a, s, d)
  BY <1>3, <1>5, <1>6 DEF InTurn, StopStarts, Keeps
<1>8. d.r = "Success" => i.loco.speed = CRAWL
  BY <1>1 DEF SetDrives
<1>9. d.r = "Success" => Keeps(CRAWL, i.loco, Line(Q, d), a, real.speed)
  BY <1>6, <1>8, ChangesKeeps
<1>10. d.r # "Success" => ~d.nodes.latch["turn_go"].done
  BY <1>1 DEF SetDrives
<1> QED BY <1>5, <1>7, <1>9, <1>10

LEMMA CalibratePath ==
  ASSUME NEW Q \in Seq(Command), NEW a, a \subseteq Range(Q), NEW s \in StepState, NEW u, s.r = "Success",
         u = NextLeaf("path", s), Driven(Q, a, s), s.nodes.latch["crawl"].done,
         s.nodes.turn # "turning" => \A n \in Turning : ~s.nodes.latch[n].sent /\ ~s.nodes.latch[n].done
  PROVE  /\ Carries(Q, a, s, u)
         /\ u.r = "Success" => u.nodes.latch["crawl"].done /\ u.nodes.turn \in {"none", "done"}
<1>1. u = PathToNode(s)
  BY AfterSuccess DEF TickLeaf, Repeats
<1>2. PathRel(s, u)
  BY <1>1, PathFacts
<1> HIDE <1>1
<1>3. CASE /\ s.nodes.turn \in {"none", "done"} /\ u \in StepState /\ Same(s, u)
           /\ u.nodes = s.nodes /\ u.out = s.out /\ u.r = "Success"
  BY <1>3 DEF Carries, Alike, Same, SameTrain, Driven, Line
<1>4. ASSUME s.nodes.turn \in {"wanted", "turning"}, NEW i \in StepState, InitRel(s, i), TurnRel(i, u)
      PROVE  /\ Carries(Q, a, s, u)
             /\ u.r = "Success" => u.nodes.latch["crawl"].done /\ u.nodes.turn \in {"none", "done"}
  <2>1. /\ Alike(s, i) /\ Others(s.nodes, i.nodes) /\ i.loco = s.loco /\ Line(Q, i) = Line(Q, s)
        /\ i.nodes.latch = s.nodes.latch /\ i.nodes.turn = "turning"
    BY <1>4 DEF InitRel, Alike, SameLatches, SameRun, Others, Line, Same, SameTrain
  <2>2. ~s.nodes.latch["test"].sent
    BY <1>4 DEF Driven, InOrder
  <2>3. s.nodes.turn = "wanted" => Keeps(CRAWL, s.loco, Line(Q, s), a, real.speed)
    BY <2>2 DEF Driven, Drives, StopSent
  <2>4. i.nodes.again = CRAWL /\ ~i.nodes.latch["turn_go"].done
    <3>1. CASE s.nodes.turn = "wanted"
      BY <1>4, <2>1, <2>3, <3>1 DEF InitRel, Keeps, Changes, Turning
    <3>2. CASE s.nodes.turn = "turning"
      BY <1>4, <2>1, <3>2 DEF InitRel, Driven, InOrder
    <3> QED BY <1>4, <3>1, <3>2
  <2>5. StopStarts(Q, a, i)
    <3>1. CASE s.nodes.turn = "wanted"
      BY <2>1, <2>3, <3>1 DEF StopStarts, Turning
    <3>2. CASE s.nodes.turn = "turning"
      BY <2>1, <2>2, <3>2 DEF StopStarts, Driven, Drives, StopSent
    <3> QED BY <1>4, <3>1, <3>2
  <2>6. InTurn(Q, a, s, i)
    BY <2>1, <2>4, <2>5 DEF InTurn
  <2>7. a \subseteq Range(Line(Q, i))
    BY LineRange
  <2>8. ASSUME NEW d \in StepState, InTurn(Q, a, s, d), ~d.nodes.latch["turn_go"].done,
               u \in StepState, Same(d, u), u.nodes = d.nodes, u.out = d.out, u.r = "Running"
        PROVE  Carries(Q, a, s, u)
    <3>1. Alike(s, u) /\ Others(s.nodes, u.nodes) /\ StopStarts(Q, a, u)
      BY <2>8 DEF InTurn, Alike, Same, SameTrain, StopStarts, Line
    <3>2. u.nodes.turn = "turning" /\ u.nodes.again = CRAWL
      BY <2>8 DEF InTurn
    <3> QED BY <1>4, <2>8, <3>1, <3>2, TurnCarries
  <2>9. ASSUME i.loco.rolls, NEW d \in StepState,
               SetRel("turn_stop", i.loco.speed, 0, i, d, Plain("speed", 0)),
               u \in StepState /\ Same(d, u) /\ u.nodes = d.nodes /\ u.out = d.out /\ u.r = "Running"
        PROVE  Carries(Q, a, s, u) /\ u.r # "Success"
    <3>1. i.loco.rolls /\ SetRel("turn_stop", i.loco.speed, 0, i, d, Plain("speed", 0))
      BY <2>9
    <3>2. InTurn(Q, a, s, d) /\ d.nodes.latch["turn_go"] = i.nodes.latch["turn_go"]
      <4> HIDE <2>9
      <4> QED BY <2>6, <2>7, <3>1, TurnStopDrives
    <3> QED BY <2>4, <2>8, <2>9, <3>2
  <2>10. ASSUME ~i.loco.rolls, NEW d \in StepState,
                SetRel("turn", i.loco.back, i.nodes.back, i, d, Plain("back", i.nodes.back)),
                \/ d.r = "Running" /\ u = d
                \/ /\ d.r = "Success"
                   /\ \E g \in StepState :
                        /\ \/ d.nodes.again = 0 /\ g = d
                           \/ d.nodes.again > 0 /\ SetRel("turn_go", d.loco.speed, d.nodes.again, d, g,
                                                          Plain("speed", d.nodes.again))
                        /\ \/ g.r = "Running" /\ u = g
                           \/ g.r = "Success" /\ FinishRel(g, u)
         PROVE  /\ Carries(Q, a, s, u)
                /\ u.r = "Success" => u.nodes.latch["crawl"].done /\ u.nodes.turn \in {"none", "done"}
    <3>1. i.nodes.back \in BOOLEAN
      BY DEF StepState, NodesState
    <3>2. InTurn(Q, a, s, d) /\ d.nodes.latch["turn_go"] = i.nodes.latch["turn_go"]
      BY <2>6, <2>10, <3>1, TurnBackDrives
    <3>3. CASE d.r = "Running" /\ u = d
      BY <2>4, <2>8, <3>2, <3>3 DEF Same, SameTrain
    <3>4. ASSUME d.r = "Success", NEW g \in StepState,
                 SetRel("turn_go", d.loco.speed, d.nodes.again, d, g, Plain("speed", d.nodes.again)),
                 \/ g.r = "Running" /\ u = g
                 \/ g.r = "Success" /\ FinishRel(g, u)
          PROVE  /\ Carries(Q, a, s, u)
                 /\ u.r = "Success" => u.nodes.latch["crawl"].done /\ u.nodes.turn \in {"none", "done"}
      <4>1. d.nodes.again = CRAWL
        BY <3>2 DEF InTurn
      <4>2. d.loco = i.loco
        BY <2>6, <3>2 DEF InTurn, Alike, Same, SameTrain
      <4>3. /\ InTurn(Q, a, s, g)
            /\ IF g.r = "Success" THEN Keeps(CRAWL, g.loco, Line(Q, g), a, real.speed)
               ELSE ~g.nodes.latch["turn_go"].done
        <5>1. /\ InTurn(Q, a, s, d) /\ ~d.loco.rolls /\ ~d.nodes.latch["turn_go"].done
              /\ SetRel("turn_go", d.loco.speed, CRAWL, d, g, Plain("speed", CRAWL))
          BY <2>4, <2>10, <3>2, <3>4, <4>1, <4>2
        <5> QED BY <5>1, TurnGoDrives
      <4>4. CASE g.r = "Running" /\ u = g
        BY <2>8, <4>3, <4>4 DEF Same, SameTrain
      <4>5. CASE g.r = "Success" /\ FinishRel(g, u)
        <5>1. /\ u \in StepState /\ Same(g, u) /\ u.out = g.out /\ SameRun(g.nodes, u.nodes)
              /\ u.nodes.turn = "done" /\ \A n \in Setters \ Turning : u.nodes.latch[n] = g.nodes.latch[n]
          BY <4>5 DEF FinishRel
        <5>2. Alike(s, u) /\ Others(s.nodes, u.nodes)
          BY <4>3, <5>1 DEF InTurn, Alike, Same, SameTrain, SameRun, Others
        <5>3. Keeps(CRAWL, u.loco, Line(Q, u), a, real.speed)
          BY <4>3, <4>5, <5>1 DEF Line, Same, SameTrain
        <5>4. Carries(Q, a, s, u)
          BY <1>4, <5>1, <5>2, <5>3, TurnCarries
        <5>5. u.nodes.latch["crawl"] = s.nodes.latch["crawl"]
          BY <5>2 DEF Others, Setters, Turning
        <5> QED BY <5>1, <5>4, <5>5
      <4> QED BY <3>4, <4>4, <4>5
    <3>5. d.nodes.again # 0
      BY <3>2, TreesAssumption DEF InTurn
    <3> QED BY <2>10, <3>3, <3>4, <3>5
  <2>11. CASE i.loco.rolls
    <3>1. PICK d \in StepState :
            /\ SetRel("turn_stop", i.loco.speed, 0, i, d, Plain("speed", 0))
            /\ u \in StepState /\ Same(d, u) /\ u.nodes = d.nodes /\ u.out = d.out /\ u.r = "Running"
      BY <1>4, <2>11 DEF TurnRel
    <3> QED BY <2>9, <2>11, <3>1
  <2>12. CASE ~i.loco.rolls
    BY <1>4, <2>10, <2>12 DEF TurnRel
  <2> QED BY <2>11, <2>12
<1> QED BY <1>2, <1>3, <1>4 DEF PathRel

\* The other nodes that set a speed: the latches and the rest that they leave alone.
Sole(n, s, u) ==
  /\ u.nodes.turn = s.nodes.turn /\ u.nodes.again = s.nodes.again /\ u.nodes.stopped = s.nodes.stopped
  /\ u.nodes.times = s.nodes.times /\ u.loco = s.loco
  /\ \A m \in {"crawl", "test", "slow", "test_2", "stop", "turn_stop", "turn_go"} \ {n} :
       u.nodes.latch[m] = s.nodes.latch[m]

LEMMA CalibrateSole ==
  ASSUME NEW n \in Plainly, NEW s, NEW u, Alike(s, u), LatchOnly(s.nodes, u.nodes, n) PROVE Sole(n, s, u)
BY DEF Sole, Alike, Same, SameTrain, LatchOnly, Setters, Turning

LEMMA CalibrateTest ==
  ASSUME NEW Q \in Seq(Command), NEW a, a \subseteq Range(Q), NEW s \in StepState, NEW u, s.r = "Success",
         u = NextLeaf("test", s), Driven(Q, a, s), s.nodes.latch["crawl"].done, s.nodes.turn \in {"none", "done"}
  PROVE  Carries(Q, a, s, u) /\ (u.r = "Success" => u.nodes.latch["test"].done)
<1>1. "test" \in Plainly /\ SpeedOf("test") = TEST
  BY DEF Plainly, SpeedOf
<1>2. SetDrives("test", CRAWL, TEST, Q, a, s, u) /\ Alike(s, u) /\ LatchOnly(s.nodes, u.nodes, "test")
  BY <1>1, CalibrateSet
<1>3. Sole("test", s, u)
  BY <1>1, <1>2, CalibrateSole
<1>4. PICK q, p : q = Line(Q, s) /\ p = Line(Q, u)
  OBVIOUS
<1>5. InOrder(s.nodes) /\ Drives(s.nodes, s.loco, q, a, real.speed) /\ a \subseteq Range(q)
  BY <1>4, LineRange DEF Driven
<1>6. InOrder(u.nodes)
  BY <1>2, <1>3, <1>5 DEF InOrder, SetDrives, Sole
<1>7. Drives(u.nodes, u.loco, p, a, real.speed)
  <2>1. CASE s.nodes.latch["test"].done
    BY <1>2, <1>3, <1>4, <1>5, <2>1 DEF Drives, InOrder, StopSent, SetDrives, Sole
  <2>2. CASE ~s.nodes.latch["test"].done
    <3>1. /\ ~u.nodes.latch["slow"].sent /\ ~u.nodes.latch["slow"].done
          /\ ~u.nodes.latch["test_2"].sent /\ ~u.nodes.latch["test_2"].done
          /\ u.nodes.latch["crawl"].done /\ u.nodes.latch["test"].sent
      BY <1>2, <1>3, <1>5, <2>2 DEF InOrder, SetDrives, Sole
    <3>2. Changes(CRAWL, TEST, s.loco, q, a, real.speed)
      <4>1. CASE s.nodes.latch["test"].sent
        BY <1>5, <2>2, <4>1 DEF Drives
      <4>2. CASE ~s.nodes.latch["test"].sent
        BY <1>5, <4>2, KeepsChanges DEF Drives, StopSent
      <4> QED BY <4>1, <4>2
    <3>3. Changes(CRAWL, TEST, s.loco, p, a, real.speed)
      BY <1>2, <1>4, <3>2 DEF SetDrives
    <3>4. u.nodes.latch["test"].done => Keeps(TEST, s.loco, p, a, real.speed)
      BY <1>2, <2>2, <3>3, ChangesKeeps DEF SetDrives
    <3> QED BY <1>3, <3>1, <3>3, <3>4 DEF Drives, Sole
  <2> QED BY <2>1, <2>2
<1>8. \A lp : LapseFits(s.nodes, lp) => LapseFits(u.nodes, lp)
  BY <1>3 DEF LapseFits, Sole
<1>9. u.r = "Success" => u.nodes.latch["test"].done
  BY <1>2 DEF SetDrives
<1> QED BY <1>2, <1>4, <1>6, <1>7, <1>8, <1>9 DEF Carries, Driven

LEMMA CalibrateSlow ==
  ASSUME NEW Q \in Seq(Command), NEW a, a \subseteq Range(Q), NEW s \in StepState, NEW u, s.r = "Success",
         u = NextLeaf("slow", s), Driven(Q, a, s), s.nodes.latch["test"].done, s.nodes.times["loop_speed"] = 0
  PROVE  /\ Carries(Q, a, s, u)
         /\ u.r = "Success" => u.nodes.latch["slow"].done /\ s.nodes.latch["slow"].sent
<1>1. "slow" \in Plainly /\ SpeedOf("slow") = CRAWL
  BY DEF Plainly, SpeedOf
<1>2. SetDrives("slow", TEST, CRAWL, Q, a, s, u) /\ Alike(s, u) /\ LatchOnly(s.nodes, u.nodes, "slow")
  BY <1>1, CalibrateSet
<1>3. Sole("slow", s, u)
  BY <1>1, <1>2, CalibrateSole
<1>4. PICK q, p : q = Line(Q, s) /\ p = Line(Q, u)
  OBVIOUS
<1>5. InOrder(s.nodes) /\ Drives(s.nodes, s.loco, q, a, real.speed) /\ a \subseteq Range(q)
  BY <1>4, LineRange DEF Driven
<1>6. InOrder(u.nodes)
  BY <1>2, <1>3, <1>5 DEF InOrder, SetDrives, Sole
<1>7. ~s.nodes.latch["slow"].done =>
        /\ ~u.nodes.latch["test_2"].sent /\ ~u.nodes.latch["test_2"].done
        /\ Changes(TEST, CRAWL, s.loco, p, a, real.speed)
        /\ u.nodes.latch["slow"].done => Keeps(CRAWL, s.loco, p, a, real.speed)
  <2> SUFFICES ASSUME ~s.nodes.latch["slow"].done
               PROVE  /\ ~u.nodes.latch["test_2"].sent /\ ~u.nodes.latch["test_2"].done
                      /\ Changes(TEST, CRAWL, s.loco, p, a, real.speed)
                      /\ u.nodes.latch["slow"].done => Keeps(CRAWL, s.loco, p, a, real.speed)
    OBVIOUS
  <2>1. ~u.nodes.latch["test_2"].sent /\ ~u.nodes.latch["test_2"].done
    BY <1>3, <1>5 DEF InOrder, Sole
  <2>2. Changes(TEST, CRAWL, s.loco, q, a, real.speed)
    <3>1. CASE s.nodes.latch["slow"].sent
      BY <1>5, <3>1 DEF Drives
    <3>2. CASE ~s.nodes.latch["slow"].sent
      BY <1>5, <3>2, KeepsChanges DEF Drives
    <3> QED BY <3>1, <3>2
  <2>3. Changes(TEST, CRAWL, s.loco, p, a, real.speed)
    BY <1>2, <1>4, <2>2 DEF SetDrives
  <2>4. u.nodes.latch["slow"].done => Keeps(CRAWL, s.loco, p, a, real.speed)
    BY <1>2, <2>3, ChangesKeeps DEF SetDrives
  <2> QED BY <2>1, <2>3, <2>4
<1>8. u.nodes.latch["crawl"].done /\ u.nodes.latch["test"].done /\ u.nodes.latch["test"].sent /\ u.nodes.latch["slow"].sent
  BY <1>2, <1>3, <1>5 DEF InOrder, SetDrives, Sole
<1>9. Drives(u.nodes, u.loco, p, a, real.speed)
  <2>1. CASE s.nodes.latch["slow"].done
    BY <1>2, <1>3, <1>4, <1>5, <1>8, <2>1 DEF Drives, SetDrives, Sole
  <2>2. CASE ~s.nodes.latch["slow"].done
    BY <1>3, <1>7, <1>8, <2>2 DEF Drives, Sole
  <2> QED BY <2>1, <2>2
<1>10. ASSUME NEW lp, real.speed \in lp, LapseFits(s.nodes, lp) PROVE LapseFits(u.nodes, lp)
  <2>1. CASE s.nodes.latch["slow"].done
    BY <1>2, <1>3, <1>8, <1>10, <1>5, <2>1 DEF LapseFits, InOrder, SetDrives, Sole
  <2>2. CASE ~s.nodes.latch["slow"].done
    <3>1. TEST \in lp /\ lp \subseteq {TEST, CRAWL}
      BY <1>10, <2>2 DEF LapseFits
    <3>2. u.nodes.latch["slow"].done => real.speed = CRAWL
      BY <1>7, <2>2 DEF Keeps, Changes
    <3>3. u.nodes.latch["slow"].done => lp = {TEST, CRAWL}
      BY <1>10, <3>1, <3>2
    <3>4. u.nodes.times["loop_decel"] = DECEL_LOOPS
      BY <1>3, <1>5, <2>2 DEF InOrder, Sole
    <3> QED BY <1>7, <1>8, <2>2, <3>1, <3>3, <3>4 DEF LapseFits
  <2> QED BY <2>1, <2>2
<1>11. u.r = "Success" => u.nodes.latch["slow"].done /\ s.nodes.latch["slow"].sent
  BY <1>2, <1>5 DEF SetDrives, InOrder
<1> QED BY <1>2, <1>4, <1>6, <1>9, <1>10, <1>11 DEF Carries, Driven

LEMMA CalibrateTestTwo ==
  ASSUME NEW Q \in Seq(Command), NEW a, a \subseteq Range(Q), NEW s \in StepState, NEW u, s.r = "Success",
         u = NextLeaf("test_2", s), Driven(Q, a, s), s.nodes.latch["slow"].done, s.nodes.times["loop_decel"] = 0
  PROVE  /\ Carries(Q, a, s, u)
         /\ u.r = "Success" => u.nodes.latch["test_2"].done /\ s.nodes.latch["test_2"].sent
<1>1. "test_2" \in Plainly /\ SpeedOf("test_2") = TEST
  BY DEF Plainly, SpeedOf
<1>2. SetDrives("test_2", CRAWL, TEST, Q, a, s, u) /\ Alike(s, u) /\ LatchOnly(s.nodes, u.nodes, "test_2")
  BY <1>1, CalibrateSet
<1>3. Sole("test_2", s, u)
  BY <1>1, <1>2, CalibrateSole
<1>4. PICK q, p : q = Line(Q, s) /\ p = Line(Q, u)
  OBVIOUS
<1>5. InOrder(s.nodes) /\ Drives(s.nodes, s.loco, q, a, real.speed) /\ a \subseteq Range(q)
  BY <1>4, LineRange DEF Driven
<1>6. InOrder(u.nodes)
  BY <1>2, <1>3, <1>5 DEF InOrder, SetDrives, Sole
<1>7. ~s.nodes.latch["test_2"].done =>
        /\ ~u.nodes.latch["stop"].sent
        /\ Changes(CRAWL, TEST, s.loco, p, a, real.speed)
        /\ u.nodes.latch["test_2"].done => Keeps(TEST, s.loco, p, a, real.speed)
  <2> SUFFICES ASSUME ~s.nodes.latch["test_2"].done
               PROVE  /\ ~u.nodes.latch["stop"].sent
                      /\ Changes(CRAWL, TEST, s.loco, p, a, real.speed)
                      /\ u.nodes.latch["test_2"].done => Keeps(TEST, s.loco, p, a, real.speed)
    OBVIOUS
  <2>1. ~u.nodes.latch["stop"].sent
    BY <1>3, <1>5 DEF InOrder, Sole
  <2>2. Changes(CRAWL, TEST, s.loco, q, a, real.speed)
    <3>1. CASE s.nodes.latch["test_2"].sent
      BY <1>5, <3>1 DEF Drives
    <3>2. CASE ~s.nodes.latch["test_2"].sent
      BY <1>5, <3>2, KeepsChanges DEF Drives
    <3> QED BY <3>1, <3>2
  <2>3. Changes(CRAWL, TEST, s.loco, p, a, real.speed)
    BY <1>2, <1>4, <2>2 DEF SetDrives
  <2>4. u.nodes.latch["test_2"].done => Keeps(TEST, s.loco, p, a, real.speed)
    BY <1>2, <2>3, ChangesKeeps DEF SetDrives
  <2> QED BY <2>1, <2>3, <2>4
<1>8. /\ u.nodes.latch["crawl"].done /\ u.nodes.latch["test"].done /\ u.nodes.latch["test"].sent
      /\ u.nodes.latch["slow"].sent /\ u.nodes.latch["slow"].done /\ u.nodes.latch["test_2"].sent
  BY <1>2, <1>3, <1>5 DEF InOrder, SetDrives, Sole
<1>9. Drives(u.nodes, u.loco, p, a, real.speed)
  <2>1. CASE s.nodes.latch["test_2"].done
    BY <1>2, <1>3, <1>4, <1>5, <1>8, <2>1 DEF Drives, SetDrives, Sole
  <2>2. CASE ~s.nodes.latch["test_2"].done
    BY <1>3, <1>7, <1>8, <2>2 DEF Drives, Sole
  <2> QED BY <2>1, <2>2
<1>10. ASSUME NEW lp, real.speed \in lp, LapseFits(s.nodes, lp) PROVE LapseFits(u.nodes, lp)
  <2>1. CASE s.nodes.latch["test_2"].done
    BY <1>2, <1>3, <1>8, <1>10, <2>1 DEF LapseFits, SetDrives, Sole
  <2>2. CASE ~s.nodes.latch["test_2"].done
    <3>1. CRAWL \in lp /\ lp \subseteq {TEST, CRAWL}
      BY <1>3, <1>8, <1>10, <2>2 DEF LapseFits, Sole
    <3>2. u.nodes.latch["test_2"].done => real.speed = TEST
      BY <1>7, <2>2 DEF Keeps, Changes
    <3>3. u.nodes.latch["test_2"].done => lp = {TEST, CRAWL}
      BY <1>10, <3>1, <3>2
    <3>4. u.nodes.times["loop_accel"] = ACCEL_LOOPS
      BY <1>3, <1>5, <2>2 DEF InOrder, Sole
    <3> QED BY <1>7, <1>8, <2>2, <3>1, <3>3, <3>4 DEF LapseFits
  <2> QED BY <2>1, <2>2
<1>11. u.r = "Success" => u.nodes.latch["test_2"].done /\ s.nodes.latch["test_2"].sent
  BY <1>2, <1>5 DEF SetDrives, InOrder
<1> QED BY <1>2, <1>4, <1>6, <1>9, <1>10, <1>11 DEF Carries, Driven

LEMMA CalibrateStop ==
  ASSUME NEW Q \in Seq(Command), NEW a, NEW s \in StepState, NEW u, s.r = "Success",
         u = NextLeaf("stop", s), Driven(Q, a, s), s.nodes.latch["test_2"].done, s.nodes.times["loop_accel"] = 0
  PROVE  Carries(Q, a, s, u) /\ u.nodes.latch["stop"].sent
<1>1. "stop" \in Plainly /\ SpeedOf("stop") = 0
  BY DEF Plainly, SpeedOf
<1>2. SetDrives("stop", TEST, 0, Q, a, s, u) /\ Alike(s, u) /\ LatchOnly(s.nodes, u.nodes, "stop")
  BY <1>1, CalibrateSet
<1>3. Sole("stop", s, u)
  BY <1>1, <1>2, CalibrateSole
<1>4. InOrder(s.nodes)
  BY DEF Driven
<1>5. InOrder(u.nodes) /\ u.nodes.latch["stop"].sent
  BY <1>2, <1>3, <1>4 DEF InOrder, SetDrives, Sole
<1>6. /\ u.nodes.latch["crawl"].done /\ u.nodes.latch["test"].done /\ u.nodes.latch["test"].sent
      /\ u.nodes.latch["slow"].sent /\ u.nodes.latch["slow"].done
      /\ u.nodes.latch["test_2"].sent /\ u.nodes.latch["test_2"].done
  BY <1>3, <1>4 DEF InOrder, Sole
<1>7. Drives(u.nodes, u.loco, Line(Q, u), a, real.speed)
  BY <1>5, <1>6 DEF Drives
<1>8. \A lp : LapseFits(u.nodes, lp)
  BY <1>5, <1>6 DEF LapseFits
<1> QED BY <1>2, <1>5, <1>7, <1>8 DEF Carries, Driven

\* One hit of the sensor: what was counted before it (T) and is counted after it.
CountsOne(T, times, lp) ==
  \E k \in Repeats :
    /\ T[k] > 0 /\ times = [T EXCEPT ![k] = T[k] - 1]
    /\ T["loop_speed"] <= TOP_SPEED_LOOPS => lp = Lap(Counted(T) + 1)
    /\ k # "loop_speed" => T["loop_speed"] = 0
LapsPart(T, lp, s) ==
  IF s.counted THEN CountsOne(T, s.nodes.times, lp) /\ LapseFits(s.nodes, {real.speed})
  ELSE s.nodes.times = T /\ (T["loop_speed"] <= TOP_SPEED_LOOPS => LapseFits(s.nodes, lp))
Follows(Q, a, s, u) ==
  /\ u \in StepState /\ SameTrain(s, u) /\ Driven(Q, a, u)
  /\ \A T, lp : real.speed \in lp /\ LapsPart(T, lp, s) => LapsPart(T, lp, u)

LEMMA FollowsItself ==
  ASSUME NEW Q, NEW a, NEW s \in StepState, Driven(Q, a, s) PROVE Follows(Q, a, s, s)
BY DEF Follows, SameTrain

LEMMA FollowsOn ==
  ASSUME NEW Q, NEW a, NEW s, NEW u, NEW t, Follows(Q, a, s, u), Follows(Q, a, u, t)
  PROVE  Follows(Q, a, s, t)
BY DEF Follows, SameTrain

LEMMA CarriesFollows ==
  ASSUME NEW Q, NEW a, NEW s, NEW u, Carries(Q, a, s, u)
  PROVE  Follows(Q, a, s, u) /\ u.counted = s.counted /\ u.nodes.times = s.nodes.times
<1>1. /\ u \in StepState /\ SameTrain(s, u) /\ Driven(Q, a, u)
      /\ u.counted = s.counted /\ u.nodes.times = s.nodes.times
  BY DEF Carries, Alike, Same
<1>2. ASSUME NEW T, NEW lp, real.speed \in lp, LapsPart(T, lp, s) PROVE LapsPart(T, lp, u)
  <2>1. CASE s.counted
    <3>1. CountsOne(T, s.nodes.times, lp) /\ LapseFits(s.nodes, {real.speed})
      BY <1>2, <2>1 DEF LapsPart
    <3>2. LapseFits(u.nodes, {real.speed})
      BY <3>1 DEF Carries
    <3> QED BY <1>1, <2>1, <3>1, <3>2 DEF LapsPart
  <2>2. CASE ~s.counted
    <3>1. s.nodes.times = T /\ (T["loop_speed"] <= TOP_SPEED_LOOPS => LapseFits(s.nodes, lp))
      BY <1>2, <2>2 DEF LapsPart
    <3>2. LapseFits(s.nodes, lp) => LapseFits(u.nodes, lp)
      BY <1>2 DEF Carries
    <3> QED BY <1>1, <2>2, <3>1, <3>2 DEF LapsPart
  <2> QED BY <2>1, <2>2
<1> QED BY <1>1, <1>2 DEF Follows

\* A Repeat: the node before it is done, and the one after it has not begun
\* while there is something to count.
Repeated(Q, a, n, next, s, u) ==
  /\ Follows(Q, a, s, u) /\ u.nodes.latch = s.nodes.latch
  /\ u.r = "Success" => u.nodes.times[n] = 0
  /\ u.counted => u.event = "sensor" /\ ~u.nodes.latch[next].sent

LEMMA RepeatDrives ==
  ASSUME NEW Q, NEW a, NEW s \in StepState, NEW u, NEW n \in Repeats, NEW next,
         ~s.counted, s.r = "Success", u = NextLeaf(n, s), Driven(Q, a, s),
         s.nodes.times[n] > 0 => ~s.nodes.latch[next].sent,
         ASSUME u.nodes.latch = s.nodes.latch, u.nodes.stopped = s.nodes.stopped,
                u.nodes.turn = s.nodes.turn, u.nodes.again = s.nodes.again, s.nodes.times[n] > 0,
                u.nodes.times = [s.nodes.times EXCEPT ![n] = s.nodes.times[n] - 1]
         PROVE  /\ InOrder(u.nodes) /\ LapseFits(u.nodes, {real.speed})
                /\ n # "loop_speed" => s.nodes.times["loop_speed"] = 0
                /\ \A lp : s.nodes.times["loop_speed"] <= TOP_SPEED_LOOPS /\ LapseFits(s.nodes, lp)
                              => lp = Lap(Counted(s.nodes.times) + 1)
  PROVE  Repeated(Q, a, n, next, s, u)
<1>1. u = RepeatTick(n, s)
  BY AfterSuccess DEF TickLeaf, Repeats
<1>2. RepeatRel(n, s, u)
  BY <1>1, RepeatFacts
<1>3. s.nodes.times[n] \in Nat
  BY DEF StepState, NodesState
<1>4. Line(Q, u) = Line(Q, s) /\ u.loco = s.loco
  BY <1>2 DEF RepeatRel, SameTrain, Line
<1>5. CASE u.nodes = s.nodes /\ u.counted = s.counted /\ (u.r = "Success" <=> s.nodes.times[n] = 0)
  BY <1>2, <1>4, <1>5 DEF Repeated, RepeatRel, Follows, Driven, LapsPart
<1>6. CASE /\ s.nodes.times[n] > 0 /\ s.event = "sensor" /\ u.counted
           /\ u.nodes.latch = s.nodes.latch /\ u.nodes.stopped = s.nodes.stopped
           /\ u.nodes.turn = s.nodes.turn /\ u.nodes.again = s.nodes.again
           /\ u.nodes.times = [s.nodes.times EXCEPT ![n] = s.nodes.times[n] - 1]
           /\ (u.r = "Success" <=> s.nodes.times[n] = 1)
  <2>1. /\ InOrder(u.nodes) /\ LapseFits(u.nodes, {real.speed})
        /\ n # "loop_speed" => s.nodes.times["loop_speed"] = 0
        /\ \A lp : s.nodes.times["loop_speed"] <= TOP_SPEED_LOOPS /\ LapseFits(s.nodes, lp)
                     => lp = Lap(Counted(s.nodes.times) + 1)
    BY <1>6
  <2>2. Drives(u.nodes, u.loco, Line(Q, u), a, real.speed)
    BY <1>4, <1>6 DEF Driven, Drives, StopSent
  <2>3. ASSUME NEW T, NEW lp, LapsPart(T, lp, s) PROVE LapsPart(T, lp, u)
    <3>1. s.nodes.times = T /\ (T["loop_speed"] <= TOP_SPEED_LOOPS => LapseFits(s.nodes, lp))
      BY <2>3 DEF LapsPart
    <3>2. CountsOne(T, u.nodes.times, lp)
      BY <1>6, <2>1, <3>1 DEF CountsOne
    <3> QED BY <1>6, <2>1, <3>2 DEF LapsPart
  <2>4. u.r = "Success" => u.nodes.times[n] = 0
    <3>1. s.nodes.times \in [Repeats -> Nat]
      BY DEF StepState, NodesState
    <3> QED BY <1>6, <3>1
  <2>5. u.event = "sensor" /\ ~u.nodes.latch[next].sent
    BY <1>2, <1>6 DEF RepeatRel, SameTrain
  <2>6. Follows(Q, a, s, u)
    BY <1>2, <2>1, <2>2, <2>3 DEF Follows, Driven, RepeatRel
  <2> QED BY <1>6, <2>4, <2>5, <2>6 DEF Repeated
<1> HIDE <1>1
<1> QED BY <1>2, <1>5, <1>6 DEF RepeatRel

LEMMA CalibrateLoopSpeed ==
  ASSUME NEW Q, NEW a, NEW s \in StepState, NEW u, ~s.counted, s.r = "Success",
         u = NextLeaf("loop_speed", s), Driven(Q, a, s), s.nodes.latch["test"].done
  PROVE  Repeated(Q, a, "loop_speed", "slow", s, u)
<1>1. PICK T \in [Repeats -> Nat] : T = s.nodes.times
  BY DEF StepState, NodesState
<1>2. InOrder(s.nodes) /\ Drives(s.nodes, s.loco, Line(Q, s), a, real.speed)
  BY DEF Driven
<1>3. /\ "loop_speed" \in Repeats /\ "loop_decel" \in Repeats /\ "loop_accel" \in Repeats
      /\ T["loop_speed"] \in Nat
  BY <1>1 DEF Repeats
<1>4. T["loop_speed"] > 0 => ~s.nodes.latch["slow"].sent
  BY <1>1, <1>2, <1>3 DEF InOrder
<1>5. ASSUME u.nodes.latch = s.nodes.latch, u.nodes.stopped = s.nodes.stopped,
             u.nodes.turn = s.nodes.turn, u.nodes.again = s.nodes.again, T["loop_speed"] > 0,
             u.nodes.times = [T EXCEPT !["loop_speed"] = T["loop_speed"] - 1]
      PROVE  /\ InOrder(u.nodes) /\ LapseFits(u.nodes, {real.speed})
             /\ \A lp : T["loop_speed"] <= TOP_SPEED_LOOPS /\ LapseFits(s.nodes, lp)
                          => lp = Lap(Counted(T) + 1)
  <2>1. /\ ~s.nodes.latch["slow"].sent /\ ~s.nodes.latch["slow"].done
        /\ ~s.nodes.latch["test_2"].sent /\ ~s.nodes.latch["test_2"].done
        /\ ~s.nodes.latch["stop"].sent /\ s.nodes.latch["test"].sent
    BY <1>2, <1>4, <1>5 DEF InOrder
  <2>2. T["loop_decel"] = DECEL_LOOPS /\ T["loop_accel"] = ACCEL_LOOPS
    BY <1>1, <1>2, <2>1 DEF InOrder
  <2>3. u.nodes.times["loop_decel"] = DECEL_LOOPS /\ u.nodes.times["loop_accel"] = ACCEL_LOOPS
    BY <1>3, <1>5, <2>2
  <2>4. InOrder(u.nodes)
    BY <1>1, <1>2, <1>5, <2>1, <2>2, <2>3 DEF InOrder
  <2>5. real.speed = TEST
    BY <1>2, <2>1 DEF Drives, Keeps, Changes
  <2>6. LapseFits(u.nodes, {real.speed})
    BY <1>5, <2>1, <2>5 DEF LapseFits
  <2>7. T["loop_speed"] <= TOP_SPEED_LOOPS => Lap(Counted(T) + 1) = {TEST}
    <3>1. Counted(T) = TOP_SPEED_LOOPS - T["loop_speed"]
      BY <1>3, <2>2, TreesAssumption DEF Counted, TOTAL_LOOPS
    <3>2. PICK i : i = Counted(T) + 1
      OBVIOUS
    <3>3. T["loop_speed"] <= TOP_SPEED_LOOPS => i \in 1 .. TOP_SPEED_LOOPS
      BY <1>3, <1>5, <3>1, <3>2, TreesAssumption
    <3>4. i \in 1 .. TOP_SPEED_LOOPS => Lap(i) = {TEST}
      BY TreesAssumption DEF Lap
    <3> QED BY <3>2, <3>3, <3>4
  <2>8. \A lp : LapseFits(s.nodes, lp) => lp = {TEST}
    BY <2>1 DEF LapseFits
  <2> QED BY <2>4, <2>6, <2>7, <2>8
<1> QED BY <1>1, <1>3, <1>4, <1>5, RepeatDrives

LEMMA CalibrateLoopDecel ==
  ASSUME NEW Q, NEW a, NEW s \in StepState, NEW u, ~s.counted, s.r = "Success",
         u = NextLeaf("loop_decel", s), Driven(Q, a, s), s.nodes.latch["slow"].done
  PROVE  Repeated(Q, a, "loop_decel", "test_2", s, u)
<1>1. PICK T \in [Repeats -> Nat] : T = s.nodes.times
  BY DEF StepState, NodesState
<1>2. InOrder(s.nodes) /\ Drives(s.nodes, s.loco, Line(Q, s), a, real.speed)
  BY DEF Driven
<1>3. /\ "loop_speed" \in Repeats /\ "loop_decel" \in Repeats /\ "loop_accel" \in Repeats
      /\ T["loop_decel"] \in Nat /\ T["loop_decel"] <= DECEL_LOOPS
  BY <1>1, <1>2 DEF Repeats, InOrder
<1>4. T["loop_decel"] > 0 => ~s.nodes.latch["test_2"].sent
  BY <1>1, <1>2, <1>3 DEF InOrder
<1>5. ASSUME u.nodes.latch = s.nodes.latch, u.nodes.stopped = s.nodes.stopped,
             u.nodes.turn = s.nodes.turn, u.nodes.again = s.nodes.again, T["loop_decel"] > 0,
             u.nodes.times = [T EXCEPT !["loop_decel"] = T["loop_decel"] - 1]
      PROVE  /\ InOrder(u.nodes) /\ LapseFits(u.nodes, {real.speed}) /\ T["loop_speed"] = 0
             /\ \A lp : LapseFits(s.nodes, lp) => lp = Lap(Counted(T) + 1)
  <2>1. /\ s.nodes.latch["slow"].sent /\ s.nodes.latch["slow"].done
        /\ ~s.nodes.latch["test_2"].sent /\ ~s.nodes.latch["test_2"].done
        /\ ~s.nodes.latch["stop"].sent /\ s.nodes.latch["test"].done
    BY <1>2, <1>4, <1>5 DEF InOrder
  <2>2. T["loop_speed"] = 0 /\ T["loop_accel"] = ACCEL_LOOPS
    BY <1>1, <1>2, <2>1 DEF InOrder
  <2>3. /\ u.nodes.times["loop_speed"] = 0 /\ u.nodes.times["loop_accel"] = ACCEL_LOOPS
        /\ u.nodes.times["loop_decel"] = T["loop_decel"] - 1
    BY <1>3, <1>5, <2>2
  <2>4. u.nodes.times["loop_decel"] <= DECEL_LOOPS /\ u.nodes.times["loop_decel"] # DECEL_LOOPS
    BY <1>3, <1>5, <2>3, TreesAssumption
  <2>5. InOrder(u.nodes)
    BY <1>1, <1>2, <1>5, <2>1, <2>2, <2>3, <2>4 DEF InOrder
  <2>6. real.speed = CRAWL
    BY <1>2, <2>1 DEF Drives, Keeps, Changes
  <2>7. LapseFits(u.nodes, {real.speed})
    BY <1>5, <2>1, <2>4, <2>6 DEF LapseFits
  <2>8. Lap(Counted(T) + 1) = IF T["loop_decel"] = DECEL_LOOPS THEN {TEST, CRAWL} ELSE {CRAWL}
    <3>1. PICK i \in Nat : i = Counted(T) + 1 /\ i = TOP_SPEED_LOOPS + DECEL_LOOPS - T["loop_decel"] + 1
      BY <1>3, <2>2, TreesAssumption DEF Counted, TOTAL_LOOPS
    <3>2. IF T["loop_decel"] = DECEL_LOOPS THEN i = TOP_SPEED_LOOPS + 1
          ELSE i \in TOP_SPEED_LOOPS + 2 .. TOP_SPEED_LOOPS + DECEL_LOOPS
      BY <1>3, <1>5, <3>1, TreesAssumption
    <3>3. i \in TOP_SPEED_LOOPS + 2 .. TOP_SPEED_LOOPS + DECEL_LOOPS => Lap(i) = {CRAWL}
      BY TreesAssumption DEF Lap
    <3>4. i = TOP_SPEED_LOOPS + 1 => Lap(i) = {TEST, CRAWL}
      BY TreesAssumption DEF Lap
    <3> QED BY <3>1, <3>2, <3>3, <3>4
  <2>9. \A lp : LapseFits(s.nodes, lp) => lp = IF T["loop_decel"] = DECEL_LOOPS THEN {TEST, CRAWL} ELSE {CRAWL}
    BY <1>1, <2>1 DEF LapseFits
  <2> QED BY <2>2, <2>5, <2>7, <2>8, <2>9
<1> QED BY <1>1, <1>3, <1>4, <1>5, RepeatDrives

LEMMA CalibrateLoopAccel ==
  ASSUME NEW Q, NEW a, NEW s \in StepState, NEW u, ~s.counted, s.r = "Success",
         u = NextLeaf("loop_accel", s), Driven(Q, a, s), s.nodes.latch["test_2"].done
  PROVE  Repeated(Q, a, "loop_accel", "stop", s, u)
<1>1. PICK T \in [Repeats -> Nat] : T = s.nodes.times
  BY DEF StepState, NodesState
<1>2. InOrder(s.nodes) /\ Drives(s.nodes, s.loco, Line(Q, s), a, real.speed)
  BY DEF Driven
<1>3. /\ "loop_speed" \in Repeats /\ "loop_decel" \in Repeats /\ "loop_accel" \in Repeats
      /\ T["loop_accel"] \in Nat /\ T["loop_accel"] <= ACCEL_LOOPS
  BY <1>1, <1>2 DEF Repeats, InOrder
<1>4. T["loop_accel"] > 0 => ~s.nodes.latch["stop"].sent
  BY <1>1, <1>2, <1>3 DEF InOrder
<1>5. ASSUME u.nodes.latch = s.nodes.latch, u.nodes.stopped = s.nodes.stopped,
             u.nodes.turn = s.nodes.turn, u.nodes.again = s.nodes.again, T["loop_accel"] > 0,
             u.nodes.times = [T EXCEPT !["loop_accel"] = T["loop_accel"] - 1]
      PROVE  /\ InOrder(u.nodes) /\ LapseFits(u.nodes, {real.speed}) /\ T["loop_speed"] = 0
             /\ \A lp : LapseFits(s.nodes, lp) => lp = Lap(Counted(T) + 1)
  <2>1. /\ s.nodes.latch["slow"].sent /\ s.nodes.latch["slow"].done
        /\ s.nodes.latch["test_2"].sent /\ s.nodes.latch["test_2"].done
        /\ ~s.nodes.latch["stop"].sent /\ s.nodes.latch["test"].done
    BY <1>2, <1>4, <1>5 DEF InOrder
  <2>2. T["loop_speed"] = 0 /\ T["loop_decel"] = 0
    BY <1>1, <1>2, <2>1 DEF InOrder
  <2>3. /\ u.nodes.times["loop_speed"] = 0 /\ u.nodes.times["loop_decel"] = 0
        /\ u.nodes.times["loop_accel"] = T["loop_accel"] - 1
    BY <1>3, <1>5, <2>2
  <2>4. u.nodes.times["loop_accel"] <= ACCEL_LOOPS /\ u.nodes.times["loop_accel"] # ACCEL_LOOPS
    BY <1>3, <1>5, <2>3, TreesAssumption
  <2>5. InOrder(u.nodes)
    BY <1>1, <1>2, <1>5, <2>1, <2>2, <2>3, <2>4 DEF InOrder
  <2>6. real.speed = TEST
    BY <1>2, <2>1 DEF Drives, Keeps, Changes
  <2>7. LapseFits(u.nodes, {real.speed})
    BY <1>5, <2>1, <2>4, <2>6 DEF LapseFits
  <2>8. Lap(Counted(T) + 1) = IF T["loop_accel"] = ACCEL_LOOPS THEN {TEST, CRAWL} ELSE {TEST}
    <3>1. PICK i \in Nat : /\ i = Counted(T) + 1
                           /\ i = TOP_SPEED_LOOPS + DECEL_LOOPS + ACCEL_LOOPS - T["loop_accel"] + 1
      BY <1>3, <2>2, TreesAssumption DEF Counted, TOTAL_LOOPS
    <3>2. IF T["loop_accel"] = ACCEL_LOOPS THEN i = TOP_SPEED_LOOPS + DECEL_LOOPS + 1
          ELSE i > TOP_SPEED_LOOPS + DECEL_LOOPS + 1
      BY <1>3, <1>5, <3>1, TreesAssumption
    <3>3. i > TOP_SPEED_LOOPS + DECEL_LOOPS + 1 => Lap(i) = {TEST}
      BY <3>1, TreesAssumption DEF Lap
    <3>4. i = TOP_SPEED_LOOPS + DECEL_LOOPS + 1 => Lap(i) = {TEST, CRAWL}
      BY TreesAssumption DEF Lap
    <3> QED BY <3>1, <3>2, <3>3, <3>4
  <2>9. \A lp : LapseFits(s.nodes, lp) => lp = IF T["loop_accel"] = ACCEL_LOOPS THEN {TEST, CRAWL} ELSE {TEST}
    BY <1>1, <2>1 DEF LapseFits
  <2> QED BY <2>2, <2>5, <2>7, <2>8, <2>9
<1> QED BY <1>1, <1>3, <1>4, <1>5, RepeatDrives
-----------------------------------------------------------------------------
(* A tick of CalibrateTree, leaf by leaf.                                   *)
LEMMA CalibrateLeaves ==
  ASSUME NEW s, s.r = "Success", tree = "calibrate"
  PROVE  \E x1, x2, x3, x4, x5, x6, x7, x8, x9 :
           /\ x1 = NextLeaf("crawl", s) /\ x2 = NextLeaf("reserve", x1) /\ x3 = NextLeaf("path", x2)
           /\ x4 = NextLeaf("test", x3) /\ x5 = NextLeaf("loop_speed", x4) /\ x6 = NextLeaf("slow", x5)
           /\ x7 = NextLeaf("loop_decel", x6) /\ x8 = NextLeaf("test_2", x7)
           /\ x9 = NextLeaf("loop_accel", x8) /\ Tick(s) = NextLeaf("stop", x9)
<1>1. PICK leaves : leaves = <<"crawl", "reserve", "path", "test", "loop_speed", "slow", "loop_decel",
                               "test_2", "loop_accel", "stop">>
  OBVIOUS
<1>2. Tick(s) = Sequence(leaves, s) /\ Len(leaves) = 10 /\ Len(leaves) \in Nat
  BY <1>1 DEF Tick, Leaves
<1>3. /\ leaves[1] = "crawl" /\ leaves[2] = "reserve" /\ leaves[3] = "path" /\ leaves[4] = "test"
      /\ leaves[5] = "loop_speed" /\ leaves[6] = "slow" /\ leaves[7] = "loop_decel"
      /\ leaves[8] = "test_2" /\ leaves[9] = "loop_accel" /\ leaves[10] = "stop"
  BY <1>1
<1>4. PICK f : /\ f[0] = s /\ \A k \in 1 .. Len(leaves) : f[k] = NextLeaf(leaves[k], f[k - 1])
               /\ Sequence(leaves, s) = f[Len(leaves)]
  <2>1. Len(leaves) \in Nat
    BY <1>2
  <2> QED BY <2>1, Ticked
<1>5. /\ f[1] = NextLeaf(leaves[1], f[0]) /\ f[2] = NextLeaf(leaves[2], f[1])
      /\ f[3] = NextLeaf(leaves[3], f[2]) /\ f[4] = NextLeaf(leaves[4], f[3])
      /\ f[5] = NextLeaf(leaves[5], f[4]) /\ f[6] = NextLeaf(leaves[6], f[5])
      /\ f[7] = NextLeaf(leaves[7], f[6]) /\ f[8] = NextLeaf(leaves[8], f[7])
      /\ f[9] = NextLeaf(leaves[9], f[8]) /\ f[10] = NextLeaf(leaves[10], f[9])
  <2>1. \A k \in 1 .. 10 : f[k] = NextLeaf(leaves[k], f[k - 1])
    BY <1>2, <1>4
  <2>2. /\ 1 \in 1 .. 10 /\ 2 \in 1 .. 10 /\ 3 \in 1 .. 10 /\ 4 \in 1 .. 10 /\ 5 \in 1 .. 10
        /\ 6 \in 1 .. 10 /\ 7 \in 1 .. 10 /\ 8 \in 1 .. 10 /\ 9 \in 1 .. 10 /\ 10 \in 1 .. 10
        /\ 1 - 1 = 0 /\ 2 - 1 = 1 /\ 3 - 1 = 2 /\ 4 - 1 = 3 /\ 5 - 1 = 4
        /\ 6 - 1 = 5 /\ 7 - 1 = 6 /\ 8 - 1 = 7 /\ 9 - 1 = 8 /\ 10 - 1 = 9
    OBVIOUS
  <2> QED BY <2>1, <2>2
<1> QED BY <1>2, <1>3, <1>4, <1>5

Reaches(Q, a, s, x) == Follows(Q, a, s, x) /\ (x.counted => x.event = "sensor")

LEMMA PassOn ==
  ASSUME NEW Q, NEW a, NEW s, NEW x, NEW y, NEW n, y = NextLeaf(n, x), Reaches(Q, a, s, x),
         x.r = "Success" => Carries(Q, a, x, y)
  PROVE  /\ Reaches(Q, a, s, y) /\ y.counted = x.counted /\ y.nodes.times = x.nodes.times
         /\ y.r = "Success" => x.r = "Success"
<1>1. CASE x.r # "Success"
  BY <1>1, AfterSuccess
<1>2. CASE x.r = "Success"
  <2>1. Follows(Q, a, x, y) /\ y.counted = x.counted /\ y.nodes.times = x.nodes.times
    BY <1>2, CarriesFollows
  <2>2. Follows(Q, a, s, y) /\ y.event = x.event
    BY <2>1, FollowsOn DEF Reaches, Follows, SameTrain
  <2> QED BY <1>2, <2>1, <2>2 DEF Reaches
<1> QED BY <1>1, <1>2

RepeatEnds(n, next, x, y) ==
  y.r = "Success" =>
    /\ x.r = "Success" /\ y.nodes.latch = x.nodes.latch /\ y.nodes.times[n] = 0
    /\ y.counted => ~y.nodes.latch[next].sent

LEMMA PassRepeat ==
  ASSUME NEW Q, NEW a, NEW s, NEW x, NEW y, NEW n, NEW next, y = NextLeaf(n, x), Reaches(Q, a, s, x),
         x.r = "Success" => Repeated(Q, a, n, next, x, y)
  PROVE  Reaches(Q, a, s, y) /\ RepeatEnds(n, next, x, y)
<1>1. CASE x.r # "Success"
  BY <1>1, AfterSuccess DEF RepeatEnds
<1>2. CASE x.r = "Success"
  BY <1>2, FollowsOn DEF Repeated, Reaches, RepeatEnds
<1> QED BY <1>1, <1>2

LEMMA TickCalibrates ==
  ASSUME NEW Q \in Seq(Command), NEW a, a \subseteq Range(Q), NEW s \in StepState, NEW t, t = Tick(s),
         tree = "calibrate", s.r = "Success", ~s.counted, s.reserved = "all", Driven(Q, a, s),
         s.nodes.turn # "turning" => \A n \in Turning : ~s.nodes.latch[n].sent /\ ~s.nodes.latch[n].done
  PROVE  Reaches(Q, a, s, t) /\ (t.r = "Success" => t.nodes.latch["stop"].sent)
<1>1. PICK x1, x2, x3, x4, x5, x6, x7, x8, x9 :
        /\ x1 = NextLeaf("crawl", s) /\ x2 = NextLeaf("reserve", x1) /\ x3 = NextLeaf("path", x2)
        /\ x4 = NextLeaf("test", x3) /\ x5 = NextLeaf("loop_speed", x4) /\ x6 = NextLeaf("slow", x5)
        /\ x7 = NextLeaf("loop_decel", x6) /\ x8 = NextLeaf("test_2", x7)
        /\ x9 = NextLeaf("loop_accel", x8) /\ t = NextLeaf("stop", x9)
  BY CalibrateLeaves
<1>2. \A x : Reaches(Q, a, s, x) => x \in StepState /\ Driven(Q, a, x) /\ x.reserved = "all"
  BY DEF Reaches, Follows, SameTrain
<1>3. Reaches(Q, a, s, s)
  BY FollowsItself DEF Reaches
<1>4. /\ Reaches(Q, a, s, x1) /\ ~x1.counted
      /\ x1.nodes.turn = s.nodes.turn /\ \A n \in Turning : x1.nodes.latch[n] = s.nodes.latch[n]
      /\ x1.r = "Success" => x1.nodes.latch["crawl"].done
  <2>1. Carries(Q, a, s, x1) /\ Crawled(s, x1)
    BY <1>1, CalibrateCrawl
  <2> QED BY <1>1, <1>3, <2>1, PassOn DEF Crawled
<1>5. Reaches(Q, a, s, x2) /\ ~x2.counted /\ x2.nodes = x1.nodes /\ x2.r = x1.r
  <2>1. Carries(Q, a, x1, x2) /\ x2.nodes = x1.nodes /\ x2.r = x1.r
    BY <1>1, <1>2, <1>4, CalibrateReserve
  <2> QED BY <1>1, <1>4, <2>1, PassOn
<1>6. /\ Reaches(Q, a, s, x3) /\ ~x3.counted
      /\ x3.r = "Success" => x3.nodes.latch["crawl"].done /\ x3.nodes.turn \in {"none", "done"}
  <2>1. ASSUME x2.r = "Success"
        PROVE  /\ Carries(Q, a, x2, x3)
               /\ x3.r = "Success" => x3.nodes.latch["crawl"].done /\ x3.nodes.turn \in {"none", "done"}
    <3>1. /\ x2 \in StepState /\ Driven(Q, a, x2) /\ x2.nodes.latch["crawl"].done
          /\ x2.nodes.turn # "turning" => \A n \in Turning : ~x2.nodes.latch[n].sent /\ ~x2.nodes.latch[n].done
      BY <1>2, <1>4, <1>5, <2>1
    <3> QED BY <1>1, <2>1, <3>1, CalibratePath
  <2> QED BY <1>1, <1>5, <2>1, PassOn
<1>7. Reaches(Q, a, s, x4) /\ ~x4.counted /\ (x4.r = "Success" => x4.nodes.latch["test"].done)
  <2>1. x3.r = "Success" => Carries(Q, a, x3, x4) /\ (x4.r = "Success" => x4.nodes.latch["test"].done)
    BY <1>1, <1>2, <1>6, CalibrateTest
  <2> QED BY <1>1, <1>6, <2>1, PassOn
<1>8. /\ Reaches(Q, a, s, x5)
      /\ x5.r = "Success" => /\ x5.nodes.latch["test"].done /\ x5.nodes.times["loop_speed"] = 0
                             /\ x5.counted => ~x5.nodes.latch["slow"].sent
  <2>1. x4.r = "Success" => Repeated(Q, a, "loop_speed", "slow", x4, x5)
    BY <1>1, <1>2, <1>7, CalibrateLoopSpeed
  <2>2. Reaches(Q, a, s, x5) /\ RepeatEnds("loop_speed", "slow", x4, x5)
    BY <1>1, <1>7, <2>1, PassRepeat
  <2> QED BY <1>7, <2>2 DEF RepeatEnds
<1>9. Reaches(Q, a, s, x6) /\ (x6.r = "Success" => x6.nodes.latch["slow"].done /\ ~x6.counted)
  <2>1. x5.r = "Success" => /\ Carries(Q, a, x5, x6)
                            /\ x6.r = "Success" => x6.nodes.latch["slow"].done /\ x5.nodes.latch["slow"].sent
    BY <1>1, <1>2, <1>8, CalibrateSlow
  <2>2. /\ Reaches(Q, a, s, x6) /\ x6.counted = x5.counted /\ (x6.r = "Success" => x5.r = "Success")
    BY <1>1, <1>8, <2>1, PassOn
  <2> QED BY <1>8, <2>1, <2>2
<1>10. /\ Reaches(Q, a, s, x7)
       /\ x7.r = "Success" => /\ x7.nodes.latch["slow"].done /\ x7.nodes.times["loop_decel"] = 0
                              /\ x7.counted => ~x7.nodes.latch["test_2"].sent
  <2>1. x6.r = "Success" => Repeated(Q, a, "loop_decel", "test_2", x6, x7)
    BY <1>1, <1>2, <1>9, CalibrateLoopDecel
  <2>2. Reaches(Q, a, s, x6) /\ x7 = NextLeaf("loop_decel", x6)
    BY <1>1, <1>9
  <2>3. Reaches(Q, a, s, x7) /\ RepeatEnds("loop_decel", "test_2", x6, x7)
    BY <2>1, <2>2, PassRepeat
  <2> QED BY <1>9, <2>3 DEF RepeatEnds
<1>11. Reaches(Q, a, s, x8) /\ (x8.r = "Success" => x8.nodes.latch["test_2"].done /\ ~x8.counted)
  <2>1. x7.r = "Success" => /\ Carries(Q, a, x7, x8)
                            /\ x8.r = "Success" => x8.nodes.latch["test_2"].done /\ x7.nodes.latch["test_2"].sent
    BY <1>1, <1>2, <1>10, CalibrateTestTwo
  <2>2. /\ Reaches(Q, a, s, x8) /\ x8.counted = x7.counted /\ (x8.r = "Success" => x7.r = "Success")
    BY <1>1, <1>10, <2>1, PassOn
  <2> QED BY <1>10, <2>1, <2>2
<1>12. /\ Reaches(Q, a, s, x9)
       /\ x9.r = "Success" => x9.nodes.latch["test_2"].done /\ x9.nodes.times["loop_accel"] = 0
  <2>1. x8.r = "Success" => Repeated(Q, a, "loop_accel", "stop", x8, x9)
    BY <1>1, <1>2, <1>11, CalibrateLoopAccel
  <2>2. Reaches(Q, a, s, x8) /\ x9 = NextLeaf("loop_accel", x8)
    BY <1>1, <1>11
  <2>3. Reaches(Q, a, s, x9) /\ RepeatEnds("loop_accel", "stop", x8, x9)
    BY <2>1, <2>2, PassRepeat
  <2> QED BY <1>11, <2>3 DEF RepeatEnds
<1>13. Reaches(Q, a, s, t) /\ (t.r = "Success" => t.nodes.latch["stop"].sent)
  <2>1. x9.r = "Success" => Carries(Q, a, x9, t) /\ t.nodes.latch["stop"].sent
    BY <1>1, <1>2, <1>12, CalibrateStop
  <2>2. Reaches(Q, a, s, t) /\ (t.r = "Success" => x9.r = "Success")
    BY <1>1, <1>12, <2>1, PassOn
  <2> QED BY <2>1, <2>2
<1> QED BY <1>13

(* The laps.                                                                *)
Slides(h, x, N, g) == g = IF Len(h) = N THEN Append(Tail(h), x) ELSE Append(h, x)
Slid(S, h, x, N, g) ==
  /\ g \in Seq(S) /\ Len(g) <= N /\ Len(g) = IF Len(h) = N THEN N ELSE Len(h) + 1
  /\ g[Len(g)] = x /\ \A k \in 1 .. Len(g) - 1 : g[Len(g) - k] = h[Len(h) - k + 1]

LEMMA LapsGrow ==
  ASSUME NEW S, NEW h \in Seq(S), NEW x \in S, NEW N \in Nat \ {0}, Len(h) <= N, NEW g, Slides(h, x, N, g)
  PROVE  Slid(S, h, x, N, g)
<1>0. g = IF Len(h) = N THEN Append(Tail(h), x) ELSE Append(h, x)
  BY DEF Slides
<1>1. PICK n \in Nat : n = Len(h)
  BY LenProperties
<1>2. CASE n = N
  <2>1. h # <<>>
    BY <1>1, <1>2, EmptySeq
  <2>2. /\ Tail(h) \in Seq(S) /\ Len(Tail(h)) = n - 1
        /\ \A i \in 1 .. n - 1 : Tail(h)[i] = h[i + 1]
    BY <1>1, <2>1, HeadTailProperties
  <2>3. PICK b \in Seq(S) : b = Tail(h) /\ Len(b) = n - 1
    BY <2>2
  <2>4. /\ g \in Seq(S) /\ Len(g) = (n - 1) + 1 /\ g[(n - 1) + 1] = x
        /\ \A i \in 1 .. n - 1 : g[i] = b[i]
    BY <1>0, <1>1, <1>2, <2>3, AppendProperties
  <2>5. Len(g) = n /\ g[n] = x
    BY <2>4
  <2>6. ASSUME NEW k \in 1 .. n - 1 PROVE g[n - k] = h[n - k + 1]
    <3>1. n - k \in 1 .. n - 1
      OBVIOUS
    <3> QED BY <2>2, <2>3, <2>4, <3>1
  <2> QED BY <1>1, <1>2, <2>4, <2>5, <2>6 DEF Slid
<1>3. CASE n # N
  <2>1. g \in Seq(S) /\ Len(g) = n + 1 /\ g[n + 1] = x /\ \A i \in 1 .. n : g[i] = h[i]
    BY <1>0, <1>1, <1>3, AppendProperties
  <2>2. ASSUME NEW k \in 1 .. n PROVE g[(n + 1) - k] = h[n - k + 1]
    <3>1. (n + 1) - k \in 1 .. n /\ (n + 1) - k = n - k + 1
      OBVIOUS
    <3> QED BY <2>1, <3>1
  <2> QED BY <1>1, <1>3, <2>1, <2>2 DEF Slid
<1> QED BY <1>2, <1>3

LEMMA CountedOne ==
  ASSUME NEW T \in [Repeats -> Nat], NEW k \in Repeats, T[k] > 0, NEW times, times = [T EXCEPT ![k] = T[k] - 1]
  PROVE  /\ Counted(times) = Counted(T) + 1 /\ Counted(T) \in Int /\ Counted(T) + 1 <= TOTAL_LOOPS
         /\ TOTAL_LOOPS \in Nat \ {0}
<1>1. "loop_speed" \in Repeats /\ "loop_decel" \in Repeats /\ "loop_accel" \in Repeats
  BY DEF Repeats
<1>2. T["loop_speed"] \in Nat /\ T["loop_decel"] \in Nat /\ T["loop_accel"] \in Nat
  BY <1>1
<1>3. TOTAL_LOOPS \in Nat \ {0}
  BY TreesAssumption DEF TOTAL_LOOPS
<1>4. CASE k = "loop_speed"
  <2>1. /\ times["loop_speed"] = T["loop_speed"] - 1 /\ times["loop_decel"] = T["loop_decel"]
        /\ times["loop_accel"] = T["loop_accel"]
    BY <1>1, <1>4
  <2> QED BY <1>2, <1>3, <1>4, <2>1 DEF Counted
<1>5. CASE k = "loop_decel"
  <2>1. /\ times["loop_speed"] = T["loop_speed"] /\ times["loop_decel"] = T["loop_decel"] - 1
        /\ times["loop_accel"] = T["loop_accel"]
    BY <1>1, <1>5
  <2> QED BY <1>2, <1>3, <1>5, <2>1 DEF Counted
<1>6. CASE k = "loop_accel"
  <2>1. /\ times["loop_speed"] = T["loop_speed"] /\ times["loop_decel"] = T["loop_decel"]
        /\ times["loop_accel"] = T["loop_accel"] - 1
    BY <1>1, <1>6
  <2> QED BY <1>2, <1>3, <1>6, <2>1 DEF Counted
<1> QED BY <1>4, <1>5, <1>6 DEF Repeats

LEMMA LapCounted ==
  ASSUME NEW nd \in NodesState, InOrder(nd), NEW T, T = nd.times, NEW times, NEW lp \in SUBSET Nat,
         CountsOne(T, times, lp), times["loop_speed"] <= TOP_SPEED_LOOPS,
         NEW h \in Seq(SUBSET Nat), Len(h) <= TOTAL_LOOPS,
         T["loop_speed"] <= TOP_SPEED_LOOPS => LapsFit(T, h), NEW g,
         Slides(h, lp, TOTAL_LOOPS, g)
  PROVE  LapsFit(times, g)
<1>1. T \in [Repeats -> Nat]
  BY DEF NodesState
<1>2. PICK k \in Repeats :
        /\ T[k] > 0 /\ times = [T EXCEPT ![k] = T[k] - 1]
        /\ T["loop_speed"] <= TOP_SPEED_LOOPS => lp = Lap(Counted(T) + 1)
        /\ k # "loop_speed" => T["loop_speed"] = 0
  BY DEF CountsOne
<1>3. PICK C \in Int : /\ C = Counted(T) /\ Counted(times) = C + 1 /\ C + 1 <= TOTAL_LOOPS
                       /\ TOTAL_LOOPS \in Nat \ {0}
  BY <1>1, <1>2, CountedOne
<1>4. /\ g \in Seq(SUBSET Nat) /\ Len(g) = IF Len(h) = TOTAL_LOOPS THEN TOTAL_LOOPS ELSE Len(h) + 1
      /\ g[Len(g)] = lp /\ \A j \in 1 .. Len(g) - 1 : g[Len(g) - j] = h[Len(h) - j + 1]
  <2>1. Slid(SUBSET Nat, h, lp, TOTAL_LOOPS, g)
    BY <1>3, LapsGrow
  <2> QED BY <2>1 DEF Slid
<1>5. PICK n, m \in Nat : n = Len(h) /\ m = Len(g)
  BY <1>4, LenProperties
<1>6. CASE T["loop_speed"] <= TOP_SPEED_LOOPS
  <2>1. C <= n /\ \A i \in 1 .. C : h[n - C + i] = Lap(i)
    BY <1>3, <1>5, <1>6 DEF LapsFit
  <2>2. C + 1 <= m
    BY <1>3, <1>4, <1>5, <2>1
  <2>3. ASSUME NEW i \in 1 .. C + 1 PROVE g[m - (C + 1) + i] = Lap(i)
    <3>1. CASE i = C + 1
      <4>1. m - (C + 1) + i = m
        BY <3>1
      <4> QED BY <1>2, <1>3, <1>4, <1>5, <1>6, <3>1, <4>1
    <3>2. CASE i # C + 1
      <4>1. PICK j \in 1 .. m - 1 : j = (C + 1) - i
        BY <2>2, <3>2
      <4>2. g[m - j] = h[n - j + 1]
        BY <1>4, <1>5
      <4>3. m - (C + 1) + i = m - j /\ n - j + 1 = n - C + i /\ i \in 1 .. C
        BY <3>2, <4>1
      <4> QED BY <2>1, <4>2, <4>3
    <3> QED BY <3>1, <3>2
  <2> QED BY <1>3, <1>5, <2>2, <2>3 DEF LapsFit
<1>7. CASE ~(T["loop_speed"] <= TOP_SPEED_LOOPS)
  <2>1. "loop_speed" \in Repeats /\ "loop_decel" \in Repeats /\ "loop_accel" \in Repeats
    BY DEF Repeats
  <2>2. T["loop_speed"] \in Nat /\ T["loop_speed"] # 0 /\ TOP_SPEED_LOOPS \in Nat
    BY <1>1, <1>7, <2>1, TreesAssumption
  <2>3. /\ times["loop_speed"] = T["loop_speed"] - 1
        /\ times["loop_decel"] = T["loop_decel"] /\ times["loop_accel"] = T["loop_accel"]
    BY <1>1, <1>2, <2>1, <2>2
  <2>4. times["loop_speed"] = TOP_SPEED_LOOPS
    BY <1>7, <2>2, <2>3
  <2>5. T["loop_decel"] = DECEL_LOOPS /\ T["loop_accel"] = ACCEL_LOOPS
    BY <2>2 DEF InOrder
  <2>6. Counted(times) = 0
    BY <2>3, <2>4, <2>5, TreesAssumption DEF Counted, TOTAL_LOOPS
  <2> QED BY <1>5, <2>6 DEF LapsFit
<1> QED BY <1>6, <1>7

-----------------------------------------------------------------------------
(* An update of CalibrateTree.                                              *)
LEMMA CalibrationUpdates ==
  ASSUME TreeIInv, CalibrationIInv, tree = "calibrate",
         NEW event \in {"answer", "sensor", "tick"}, NEW train \in LocoState,
         NEW aged \in NodesState, NEW reserved, reserved = "all",
         Update(event, train, aged, reserved), SameSigns(nodes, aged),
         NEW Q \in Seq(Command), Q = answers' \o wire, answers' \in Seq(Command),
         \A rolls \in BOOLEAN : Settled(loco, rolls) =>
                                  Drives(nodes, Rolling(train, rolls), Q, ToSet(answers'), real.speed)
  PROVE  CalibrationIInv'
<1>1. PICK rolls, s, t :
        /\ rolls \in BOOLEAN /\ Settled(loco, rolls)
        /\ s = [r |-> "Success", nodes |-> aged, loco |-> Rolling(train, rolls),
                out |-> <<>>, event |-> event, counted |-> FALSE,
                reserved |-> reserved, near |-> near /\ rolls]
        /\ t = Tick(s)
        /\ result' = t.r /\ nodes' = t.nodes /\ loco' = t.loco /\ wire' = wire \o t.out
        /\ missed' = (missed \/ (event = "sensor" /\ ~t.counted /\ nodes.times["loop_speed"] <= TOP_SPEED_LOOPS))
        /\ event = "sensor" =>
             /\ lapse' = {real.speed}
             /\ laps' = IF Len(laps) = TOTAL_LOOPS THEN Append(Tail(laps), lapse) ELSE Append(laps, lapse)
        /\ event # "sensor" => lapse' = lapse /\ laps' = laps
        /\ tree' = tree /\ real' = real
  <2>1. loco \in LocoState /\ loco.rolls \in BOOLEAN /\ loco.speed \in Nat
    BY DEF TreeIInv, TreeTypeOK, LocoState
  <2>2. \A rolls \in (IF (loco.speed > 0) = loco.rolls THEN {loco.rolls} ELSE BOOLEAN) :
          rolls \in BOOLEAN /\ Settled(loco, rolls)
    <3>1. CASE (loco.speed > 0) = loco.rolls
      BY <2>1, <3>1 DEF Settled
    <3>2. CASE (loco.speed > 0) # loco.rolls
      <4>1. (loco.speed > 0 /\ ~loco.rolls) \/ (loco.speed = 0 /\ loco.rolls)
        BY <2>1, <3>2
      <4> QED BY <3>2, <4>1 DEF Settled
    <3> QED BY <3>1, <3>2
  <2>3. PICK rolls \in (IF (loco.speed > 0) = loco.rolls THEN {loco.rolls} ELSE BOOLEAN) :
          /\ \E t \in {Tick([r |-> "Success", nodes |-> aged, loco |-> [train EXCEPT !.rolls = rolls],
                             out |-> <<>>, event |-> event, counted |-> FALSE,
                             reserved |-> reserved, near |-> near /\ rolls])} :
               /\ result' = t.r /\ nodes' = t.nodes /\ loco' = t.loco
               /\ wire' = wire \o t.out
               /\ mixed' = \/ mixed
                           \/ nodes.turn = "turning" /\ HasOnce(t.out)
                           \/ t.out # <<>> /\ HasOnce(wire \o answers \o Front(t.out))
               /\ missed' = (missed \/ (event = "sensor" /\ ~t.counted /\ nodes.times["loop_speed"] <= TOP_SPEED_LOOPS))
          /\ IF event = "sensor"
               THEN /\ lapse' = {real.speed}
                    /\ laps' = IF Len(laps) = TOTAL_LOOPS THEN Append(Tail(laps), lapse) ELSE Append(laps, lapse)
               ELSE UNCHANGED <<lapse, laps>>
          /\ UNCHANGED <<tree, near, real, lost>>
    BY DEF Update
  <2>4. PICK s, t :
          /\ s = [r |-> "Success", nodes |-> aged, loco |-> [train EXCEPT !.rolls = rolls],
                  out |-> <<>>, event |-> event, counted |-> FALSE,
                  reserved |-> reserved, near |-> near /\ rolls]
          /\ t = Tick(s)
          /\ result' = t.r /\ nodes' = t.nodes /\ loco' = t.loco /\ wire' = wire \o t.out
          /\ missed' = (missed \/ (event = "sensor" /\ ~t.counted /\ nodes.times["loop_speed"] <= TOP_SPEED_LOOPS))
    BY <2>3
  <2>5. /\ event = "sensor" =>
             /\ lapse' = {real.speed}
             /\ laps' = IF Len(laps) = TOTAL_LOOPS THEN Append(Tail(laps), lapse) ELSE Append(laps, lapse)
        /\ event # "sensor" => lapse' = lapse /\ laps' = laps
        /\ tree' = tree /\ real' = real
    BY <2>3
  <2> QED BY <2>2, <2>3, <2>4, <2>5 DEF Rolling
<1>2. near \in BOOLEAN /\ wire \in Seq(Command) /\ real.speed \in Nat
  BY DEF TreeIInv, TreeTypeOK
<1>3. PICK lr \in LocoState : lr = Rolling(train, rolls)
  BY <1>1, RollingFacts
<1>4. PICK seen \in BOOLEAN : seen = (near /\ rolls)
  OBVIOUS
<1>5. /\ s.r = "Success" /\ s.nodes = aged /\ s.loco = lr /\ s.out = <<>> /\ s.reserved = "all"
      /\ s.event = event /\ ~s.counted
  BY <1>1, <1>3
<1>6. s \in StepState
  <2>1. <<>> \in Seq(Command)
    OBVIOUS
  <2>2. s = [r |-> "Success", nodes |-> aged, loco |-> lr, out |-> <<>>, event |-> event, counted |-> FALSE,
             reserved |-> "all", near |-> seen]
    BY <1>1, <1>3, <1>4
  <2> QED BY <2>1, <2>2 DEF StepState
<1>7. PICK a : a = ToSet(answers')
  OBVIOUS
<1>8. a \subseteq Range(Q)
  <2>1. Range(Q) = Range(answers') \cup Range(wire)
    BY <1>2, RangeConcatenation
  <2> QED BY <1>7, <2>1, ToSetRange
<1>9. Line(Q, s) = Q
  BY <1>5, ConcatEmptySeq DEF Line
<1>10. InOrder(aged) /\ Drives(aged, lr, Q, a, real.speed)
  <2>1. InOrder(nodes) /\ Drives(nodes, lr, Q, a, real.speed)
    BY <1>1, <1>3, <1>7 DEF CalibrationIInv
  <2> QED BY <2>1, AgedDrives
<1>11. Driven(Q, a, s)
  BY <1>5, <1>9, <1>10 DEF Driven
<1>12. aged.turn # "turning" => \A n \in Turning : ~aged.latch[n].sent /\ ~aged.latch[n].done
  BY DEF TreeIInv, TurnFits, SameSigns, SameTurn, Setters
<1>13. Reaches(Q, a, s, t) /\ (t.r = "Success" => t.nodes.latch["stop"].sent)
  <2>1. t = Tick(s)
    BY <1>1
  <2>2. s.nodes.turn # "turning" => \A n \in Turning : ~s.nodes.latch[n].sent /\ ~s.nodes.latch[n].done
    BY <1>5, <1>12
  <2> QED BY <1>5, <1>6, <1>8, <1>11, <2>1, <2>2, TickCalibrates
<1>14. t \in StepState /\ Driven(Q, a, t) /\ t.event = event /\ (t.counted => event = "sensor")
  BY <1>5, <1>13 DEF Reaches, Follows, SameTrain
<1>15. Line(Q, t) = answers' \o wire'
  <2>1. PICK b, w, out \in Seq(Command) : b = answers' /\ w = wire /\ out = t.out
    BY <1>2, <1>14 DEF StepState
  <2>2. Joined(b, w, out)
    BY Appended
  <2>3. b \o w = Q /\ wire' = w \o out
    BY <1>1, <2>1
  <2> QED BY <2>1, <2>2, <2>3 DEF Joined, Line
<1>16. InOrder(nodes') /\ Drives(nodes', loco', answers' \o wire', ToSet(answers'), real'.speed)
  BY <1>1, <1>7, <1>14, <1>15 DEF Driven
<1>17. /\ laps \in Seq(SUBSET Nat) /\ Len(laps) <= TOTAL_LOOPS /\ lapse \in SUBSET Nat /\ real.speed \in lapse
       /\ TOTAL_LOOPS \in Nat \ {0}
  BY TreesAssumption DEF CalibrationIInv, TOTAL_LOOPS
<1>18. /\ laps' \in Seq(SUBSET Nat) /\ Len(laps') <= TOTAL_LOOPS /\ lapse' \in SUBSET Nat
       /\ real'.speed \in lapse' /\ (event = "sensor" => Slides(laps, lapse, TOTAL_LOOPS, laps'))
  <2>1. CASE event = "sensor"
    <3>1. Slides(laps, lapse, TOTAL_LOOPS, laps') /\ lapse' = {real.speed}
      BY <1>1, <2>1 DEF Slides
    <3>2. Slid(SUBSET Nat, laps, lapse, TOTAL_LOOPS, laps')
      BY <1>17, <3>1, LapsGrow
    <3> QED BY <1>1, <1>2, <3>1, <3>2 DEF Slid
  <2>2. CASE event # "sensor"
    BY <1>1, <1>17, <2>2
  <2> QED BY <2>1, <2>2
<1>19. ASSUME ~missed', t.nodes.times["loop_speed"] <= TOP_SPEED_LOOPS
       PROVE  LapsFit(t.nodes.times, laps') /\ LapseFits(t.nodes, lapse')
  <2>1. PICK T : T = nodes.times /\ T = aged.times
    BY DEF SameSigns, SameRun
  <2>2. /\ ~missed /\ (event = "sensor" => t.counted \/ ~(T["loop_speed"] <= TOP_SPEED_LOOPS))
    BY <1>1, <1>19, <2>1
  <2>3. T["loop_speed"] <= TOP_SPEED_LOOPS => LapsFit(T, laps) /\ LapseFits(aged, lapse)
    BY <2>1, <2>2, AgedDrives DEF CalibrationIInv
  <2>4. LapsPart(T, lapse, t)
    <3>1. LapsPart(T, lapse, s)
      BY <1>5, <2>1, <2>3 DEF LapsPart
    <3> QED BY <1>13, <1>17, <3>1 DEF Reaches, Follows
  <2>5. CASE ~t.counted
    <3>1. t.nodes.times = T /\ LapseFits(t.nodes, lapse)
      BY <1>19, <2>4, <2>5 DEF LapsPart
    <3>2. event # "sensor"
      BY <1>19, <2>2, <2>5, <3>1
    <3> QED BY <1>1, <1>19, <2>3, <3>1, <3>2
  <2>6. CASE t.counted
    <3>1. CountsOne(T, t.nodes.times, lapse) /\ LapseFits(t.nodes, {real.speed}) /\ event = "sensor"
      BY <1>14, <2>4, <2>6 DEF LapsPart
    <3>2. LapsFit(t.nodes.times, laps')
      BY <1>10, <1>17, <1>18, <1>19, <2>1, <2>3, <3>1, LapCounted
    <3> QED BY <1>1, <3>1, <3>2
  <2> QED BY <2>5, <2>6
<1>20. result' = "Success" => nodes'.latch["stop"].sent
  BY <1>1, <1>13
<1>21. ~missed' /\ nodes'.times["loop_speed"] <= TOP_SPEED_LOOPS =>
         LapsFit(nodes'.times, laps') /\ LapseFits(nodes', lapse')
  BY <1>1, <1>19
<1> QED BY <1>16, <1>18, <1>20, <1>21 DEF CalibrationIInv

LEMMA CalibrationInitial == TreeInit => CalibrationIInv
<1>1. SUFFICES ASSUME TreeInit, tree = "calibrate" PROVE CalibrationIInv
  BY DEF CalibrationIInv
<1>2. PICK turn \in {"none", "wanted"} :
        nodes = [latch |-> [n \in Setters |-> Fresh], times |-> [n \in Repeats |-> Times(n)],
                 stopped |-> FALSE, go |-> GO, stopping |-> FALSE,
                 turn |-> turn, back |-> FALSE, again |-> 0]
  BY <1>1 DEF TreeInit
<1>3. /\ loco.speed = 0 /\ real.speed = 0 /\ wire = <<>> /\ answers = <<>> /\ result = "Running"
      /\ laps = <<>> /\ lapse = {0}
  BY <1>1 DEF TreeInit
<1>4. /\ nodes.times["loop_speed"] = TOP_SPEED_LOOPS + 1 /\ nodes.times["loop_decel"] = DECEL_LOOPS
      /\ nodes.times["loop_accel"] = ACCEL_LOOPS
  BY <1>2 DEF Repeats, Times
<1>5. /\ ~nodes.stopped /\ nodes.turn \in {"none", "wanted"}
      /\ \A n \in Setters : ~nodes.latch[n].sent /\ ~nodes.latch[n].done
  BY <1>2 DEF Fresh
<1>6. /\ "crawl" \in Setters /\ "test" \in Setters /\ "slow" \in Setters /\ "test_2" \in Setters /\ "stop" \in Setters
  BY DEF Setters
<1>7. InOrder(nodes)
  BY <1>4, <1>5, <1>6, TreesAssumption DEF InOrder
<1>8. PICK q, a : q = <<>> /\ a = {} /\ q = answers \o wire /\ a = ToSet(answers)
  <2>1. <<>> \in Seq(Command)
    OBVIOUS
  <2>2. answers \o wire = <<>>
    BY <1>3, <2>1, ConcatEmptySeq
  <2>3. ToSet(answers) = {}
    BY <1>3 DEF ToSet
  <2> QED BY <2>2, <2>3
<1>9. Changes(0, CRAWL, loco, q, a, real.speed)
  BY <1>3, <1>8, SpeedsPositive DEF Changes
<1>10. Drives(nodes, loco, q, a, real.speed)
  BY <1>5, <1>6, <1>9 DEF Drives
<1>11. /\ laps \in Seq(SUBSET Nat) /\ Len(laps) = 0 /\ lapse \in SUBSET Nat /\ real.speed \in lapse
  BY <1>3
<1>12. Len(laps) <= TOTAL_LOOPS /\ ~(nodes.times["loop_speed"] <= TOP_SPEED_LOOPS)
  BY <1>4, <1>11, TreesAssumption DEF TOTAL_LOOPS
<1> QED BY <1>3, <1>7, <1>8, <1>10, <1>11, <1>12 DEF CalibrationIInv

LEMMA LapseMore ==
  ASSUME NEW nd, InOrder(nd), NEW lc, NEW q, NEW a, NEW now, Drives(nd, lc, q, a, now),
         nd.times["loop_speed"] <= TOP_SPEED_LOOPS, NEW lp, LapseFits(nd, lp)
  PROVE  LapseFits(nd, lp \cup {now})
<1>1. nd.latch["test"].done
  BY TreesAssumption DEF InOrder
<1>2. ~nd.latch["slow"].sent => now = TEST
  BY <1>1 DEF Drives, Keeps, Changes
<1>3. nd.latch["slow"].sent /\ ~nd.latch["slow"].done => now \in {TEST, CRAWL}
  BY DEF Drives, Changes
<1>4. nd.latch["slow"].done /\ ~nd.latch["test_2"].sent => now = CRAWL
  BY DEF Drives, Keeps, Changes
<1>5. nd.latch["test_2"].sent /\ ~nd.latch["test_2"].done => now \in {TEST, CRAWL}
  BY DEF Drives, Changes
<1>6. nd.latch["test_2"].done /\ ~nd.latch["stop"].sent => now = TEST
  BY DEF Drives, Keeps, Changes
<1> QED BY <1>2, <1>3, <1>4, <1>5, <1>6 DEF LapseFits

LEMMA CalibrationExecutes == TreeIInv /\ CalibrationIInv /\ Execute => CalibrationIInv'
<1>1. SUFFICES ASSUME TreeIInv, CalibrationIInv, Execute, tree = "calibrate" PROVE CalibrationIInv'
  BY DEF CalibrationIInv, Execute
<1>2. /\ wire \in Seq(Command) /\ answers \in Seq(Command) /\ wire # <<>>
      /\ real \in [speed : Nat, back : BOOLEAN]
  BY <1>1 DEF TreeIInv, TreeTypeOK, Execute
<1>3. PICK h \in Command : h = Head(wire)
  BY <1>2, HeadTailProperties
<1>4. /\ answers' = Append(answers, h) /\ wire' = Tail(wire) /\ real' = [real EXCEPT ![h.what] = h.value]
      /\ tree' = tree /\ nodes' = nodes /\ loco' = loco /\ result' = result /\ missed' = missed
      /\ laps' = laps /\ lapse' = lapse \cup {real'.speed}
  BY <1>1, <1>3 DEF Execute
<1>5. PICK q, a : q \in Seq(Command) /\ q = answers \o wire /\ a = ToSet(answers)
  BY <1>2, ConcatProperties
<1>6. answers' \o wire' = q /\ ToSet(answers') = a \cup {h}
  BY <1>2, <1>3, <1>4, <1>5, QueueMove, QueueAppend, ToSetRange
<1>7. PICK m : m = Len(answers) + 1 /\ m \in DOMAIN q /\ q[m] = h
  <2>1. Without(answers \o Tail(wire), q, Len(answers) + 1) /\ q[Len(answers) + 1] = h
    BY <1>2, <1>3, <1>5, WithoutMiddle
  <2>2. Len(answers) + 1 \in DOMAIN q
    BY <2>1, LenProperties DEF Without
  <2> QED BY <2>1, <2>2
<1>8. \A c \in a : \E i \in DOMAIN q : i < m /\ q[i] = c
  <2>1. ASSUME NEW c \in a PROVE \E i \in DOMAIN q : i < m /\ q[i] = c
    <3>1. PICK i \in 1 .. Len(answers) : answers[i] = c
      BY <1>2, <1>5, LenProperties DEF ToSet
    <3>2. /\ Len(q) = Len(answers) + Len(wire) /\ Len(q) \in Nat /\ Len(answers) \in Nat /\ Len(wire) \in Nat
          /\ DOMAIN q = 1 .. Len(q)
      BY <1>2, <1>5, ConcatProperties, LenProperties
    <3>3. i \in 1 .. Len(answers) + Len(wire) /\ i <= Len(answers)
      BY <3>2
    <3>4. q[i] = answers[i]
      BY <1>2, <1>5, <3>3, ConcatProperties
    <3> QED BY <1>7, <3>1, <3>2, <3>3, <3>4
  <2> QED BY <2>1
<1>9. PICK now \in Nat : now = real'.speed /\ now = IF q[m].what = "speed" THEN q[m].value ELSE real.speed
  BY <1>2, <1>4, <1>7 DEF Command
<1>10. InOrder(nodes) /\ Drives(nodes, loco, q, a, real.speed)
  BY <1>1, <1>5 DEF CalibrationIInv
<1>11. \A v, w : Changes(v, w, loco, q, a, real.speed) => Changes(v, w, loco, q, a \cup {h}, now)
  BY <1>7, <1>8, <1>9, ChangesExecuted
<1>12. Drives(nodes, loco, q, a \cup {h}, now)
  BY <1>10, <1>11, DrivesOn
<1>13. ASSUME ~missed, nodes.times["loop_speed"] <= TOP_SPEED_LOOPS
       PROVE  LapsFit(nodes.times, laps) /\ LapseFits(nodes, lapse \cup {now})
  BY <1>1, <1>10, <1>12, <1>13, LapseMore DEF CalibrationIInv
<1>14. /\ laps \in Seq(SUBSET Nat) /\ Len(laps) <= TOTAL_LOOPS /\ lapse \cup {now} \in SUBSET Nat
       /\ result = "Success" => nodes.latch["stop"].sent
  BY <1>1 DEF CalibrationIInv
<1> HIDE <1>1
<1>15. InOrder(nodes') /\ Drives(nodes', loco', answers' \o wire', ToSet(answers'), real'.speed)
  <2>1. InOrder(nodes')
    BY <1>4, <1>10
  <2>2. Drives(nodes', loco', answers' \o wire', ToSet(answers'), real'.speed)
    BY <1>4, <1>6, <1>9, <1>12
  <2> QED BY <2>1, <2>2
<1>16. /\ laps' \in Seq(SUBSET Nat) /\ Len(laps') <= TOTAL_LOOPS
       /\ lapse' \in SUBSET Nat /\ real'.speed \in lapse'
       /\ result' = "Success" => nodes'.latch["stop"].sent
  BY <1>4, <1>9, <1>14
<1>17. ~missed' /\ nodes'.times["loop_speed"] <= TOP_SPEED_LOOPS =>
         LapsFit(nodes'.times, laps') /\ LapseFits(nodes', lapse')
  BY <1>4, <1>9, <1>13
<1> QED BY <1>15, <1>16, <1>17 DEF CalibrationIInv

\* A command or an answer is lost.
LEMMA CalibrationLoses ==
  ASSUME TreeIInv, CalibrationIInv, tree = "calibrate", NEW p, NEW j, Without(p, answers \o wire, j),
         p = answers' \o wire', ToSet(answers') \subseteq ToSet(answers),
         tree' = tree, nodes' = nodes, loco' = loco, result' = result, real' = real, missed' = missed,
         laps' = laps, lapse' = lapse
  PROVE  CalibrationIInv'
<1>1. PICK q, a, b : q = answers \o wire /\ a = ToSet(answers) /\ b = ToSet(answers')
  OBVIOUS
<1>2. Drives(nodes, loco, q, a, real.speed)
  BY <1>1 DEF CalibrationIInv
<1>3. \A v, w : Changes(v, w, loco, q, a, real.speed) => Changes(v, w, loco, p, b, real.speed)
  BY <1>1, ChangesLost
<1>4. Drives(nodes, loco, p, b, real.speed)
  BY <1>2, <1>3, DrivesOn
<1> QED BY <1>1, <1>4 DEF CalibrationIInv

LEMMA CalibrationLosesCommand == TreeIInv /\ CalibrationIInv /\ LoseCommand => CalibrationIInv'
<1>1. SUFFICES ASSUME TreeIInv, CalibrationIInv, LoseCommand, tree = "calibrate" PROVE CalibrationIInv'
  BY DEF CalibrationIInv, LoseCommand
<1>2. wire \in Seq(Command) /\ answers \in Seq(Command) /\ wire # <<>>
  BY <1>1 DEF TreeIInv, TreeTypeOK, LoseCommand
<1>3. /\ wire' = Tail(wire) /\ answers' = answers
      /\ tree' = tree /\ nodes' = nodes /\ loco' = loco /\ result' = result /\ real' = real
      /\ missed' = missed /\ laps' = laps /\ lapse' = lapse
  BY <1>1 DEF LoseCommand
<1>4. Without(answers \o Tail(wire), answers \o wire, Len(answers) + 1)
  BY <1>2, WithoutMiddle
<1>5. answers \o Tail(wire) = answers' \o wire' /\ ToSet(answers') \subseteq ToSet(answers)
  BY <1>3
<1> QED BY <1>1, <1>3, <1>4, <1>5, CalibrationLoses

LEMMA CalibrationLosesAnswer == TreeIInv /\ CalibrationIInv /\ LoseAnswer => CalibrationIInv'
<1>1. SUFFICES ASSUME TreeIInv, CalibrationIInv, LoseAnswer, tree = "calibrate" PROVE CalibrationIInv'
  BY DEF CalibrationIInv, LoseAnswer
<1>2. wire \in Seq(Command) /\ answers \in Seq(Command) /\ answers # <<>>
  BY <1>1 DEF TreeIInv, TreeTypeOK, LoseAnswer
<1>3. /\ answers' = Tail(answers) /\ wire' = wire
      /\ tree' = tree /\ nodes' = nodes /\ loco' = loco /\ result' = result /\ real' = real
      /\ missed' = missed /\ laps' = laps /\ lapse' = lapse
  BY <1>1 DEF LoseAnswer
<1>4. Without(Tail(answers) \o wire, answers \o wire, 1)
  BY <1>2, WithoutFirst
<1>5. Tail(answers) \o wire = answers' \o wire' /\ ToSet(answers') \subseteq ToSet(answers)
  BY <1>2, <1>3, QueueTail, ToSetRange
<1> QED BY <1>1, <1>3, <1>4, <1>5, CalibrationLoses

LEMMA CalibrationReadsAnswer == TreeIInv /\ CalibrationIInv /\ UpdateAnswer => CalibrationIInv'
<1>1. SUFFICES ASSUME TreeIInv, CalibrationIInv, UpdateAnswer, tree = "calibrate" PROVE CalibrationIInv'
  BY DEF CalibrationIInv, UpdateAnswer, Update
<1>2. /\ wire \in Seq(Command) /\ answers \in Seq(Command) /\ answers # <<>> /\ answers' = Tail(answers)
      /\ loco \in LocoState /\ nodes \in NodesState
  BY <1>1 DEF TreeIInv, TreeTypeOK, UpdateAnswer, LocoState
<1>3. PICK h \in Command : h = Head(answers)
  BY <1>2, HeadTailProperties
<1>4. PICK train : train = [loco EXCEPT ![h.what] = h.value]
  OBVIOUS
<1>5. PICK reserved \in Reserved : Update("answer", train, nodes, reserved)
  BY <1>1, <1>3, <1>4 DEF UpdateAnswer
<1>6. reserved = "all"
  BY <1>1 DEF Reserved
<1>7. train \in LocoState
  BY <1>2, <1>4, AnswerSpeed
<1>8. PICK q, Q \in Seq(Command) : q = answers \o wire /\ Q = answers' \o wire /\ Without(Q, q, 1) /\ q[1] = h
  <2>1. Without(Tail(answers) \o wire, answers \o wire, 1) /\ (answers \o wire)[1] = Head(answers)
    BY <1>2, WithoutFirst
  <2> QED BY <1>2, <1>3, <2>1 DEF Without
<1>9. PICK a, b : a = ToSet(answers) /\ b = ToSet(answers') /\ b \subseteq a /\ h \in a /\ a \subseteq Range(q)
  <2>1. ToSet(answers') \subseteq ToSet(answers) /\ h \in ToSet(answers)
    BY <1>2, <1>3, HeadTailProperties, QueueTail, ToSetRange
  <2>2. Range(q) = Range(answers) \cup Range(wire)
    BY <1>2, <1>8, RangeConcatenation
  <2> QED BY <2>1, <2>2, ToSetRange
<1>10. SameSigns(nodes, nodes) /\ answers' \in Seq(Command)
  BY <1>2, HeadTailProperties DEF SameSigns, SameRun, SameTurn
<1>11. Drives(nodes, loco, q, a, real.speed)
  BY <1>1, <1>8, <1>9 DEF CalibrationIInv
<1>12. ASSUME NEW rolls \in BOOLEAN, Settled(loco, rolls) PROVE Drives(nodes, Rolling(train, rolls), Q, b, real.speed)
  <2>1. PICK lr \in LocoState : lr = Rolling(loco, rolls)
    BY <1>2, RollingFacts
  <2>2. Drives(nodes, lr, q, a, real.speed)
    BY <1>2, <1>9, <1>11, <1>12, <2>1, DrivesRolls
  <2>3. PICK lh : lh = [lr EXCEPT ![q[1].what] = q[1].value]
    OBVIOUS
  <2>4. h.what \in {"speed", "back"}
    BY DEF Command
  <2>5. lh.rolls = lr.rolls
    BY <1>8, <2>3, <2>4 DEF LocoState
  <2>6. \A v, w : Changes(v, w, lr, q, a, real.speed) => Changes(v, w, lh, Q, b, real.speed)
    BY <1>8, <1>9, <2>3, ChangesRead
  <2>7. Drives(nodes, lh, Q, b, real.speed)
    BY <2>2, <2>5, <2>6, DrivesOn
  <2>8. lh = Rolling(train, rolls)
    <3>1. lh = [[loco EXCEPT !.rolls = rolls] EXCEPT ![h.what] = h.value]
      BY <1>8, <2>1, <2>3 DEF Rolling
    <3>2. CASE h.what = "speed"
      BY <1>2, <1>4, <3>1, <3>2 DEF Rolling, LocoState
    <3>3. CASE h.what = "back"
      BY <1>2, <1>4, <3>1, <3>3 DEF Rolling, LocoState
    <3> QED BY <2>4, <3>2, <3>3
  <2> QED BY <2>7, <2>8
<1>13. PICK event \in {"answer", "sensor", "tick"} : event = "answer"
  OBVIOUS
<1>14. Update(event, train, nodes, reserved)
  BY <1>5, <1>13
<1>15. \A rolls \in BOOLEAN : Settled(loco, rolls) => Drives(nodes, Rolling(train, rolls), Q, ToSet(answers'), real.speed)
  BY <1>9, <1>12
<1> QED BY <1>1, <1>2, <1>6, <1>7, <1>8, <1>10, <1>14, <1>15, CalibrationUpdates

LEMMA CalibrationSeesTrain ==
  ASSUME TreeIInv, CalibrationIInv, tree = "calibrate", NEW event \in {"answer", "sensor", "tick"},
         NEW aged \in NodesState, NEW reserved \in Reserved, Update(event, loco, aged, reserved),
         SameSigns(nodes, aged), answers' = answers
  PROVE  CalibrationIInv'
<1>1. /\ wire \in Seq(Command) /\ answers \in Seq(Command) /\ loco \in LocoState
      /\ reserved = "all"
  BY DEF TreeIInv, TreeTypeOK, LocoState, Reserved
<1>2. PICK Q \in Seq(Command) : Q = answers \o wire /\ Q = answers' \o wire
  BY <1>1, ConcatProperties
<1>3. PICK a : a = ToSet(answers) /\ a = ToSet(answers') /\ a \subseteq Range(Q)
  <2>1. Range(Q) = Range(answers) \cup Range(wire)
    BY <1>1, <1>2, RangeConcatenation
  <2> QED BY <2>1, ToSetRange
<1>4. Drives(nodes, loco, Q, a, real.speed)
  BY <1>2, <1>3 DEF CalibrationIInv
<1>5. \A rolls \in BOOLEAN : Settled(loco, rolls) => Drives(nodes, Rolling(loco, rolls), Q, ToSet(answers'), real.speed)
  BY <1>1, <1>3, <1>4, DrivesRolls
<1> QED BY <1>1, <1>2, <1>5, CalibrationUpdates

LEMMA CalibrationHitsSensor == TreeIInv /\ CalibrationIInv /\ UpdateSensor => CalibrationIInv'
<1>1. SUFFICES ASSUME TreeIInv, CalibrationIInv, UpdateSensor PROVE CalibrationIInv'
  OBVIOUS
<1>2. PICK event \in {"answer", "sensor", "tick"}, reserved \in Reserved :
        Update(event, loco, nodes, reserved) /\ answers' = answers /\ tree = "calibrate"
  BY <1>1 DEF UpdateSensor
<1>3. nodes \in NodesState
  BY <1>1 DEF TreeIInv, TreeTypeOK
<1>4. SameSigns(nodes, nodes)
  BY DEF SameSigns, SameRun, SameTurn
<1> QED BY <1>1, <1>2, <1>3, <1>4, CalibrationSeesTrain

LEMMA CalibrationTakesTime ==
  ASSUME NEW reserved \in Reserved PROVE TreeIInv /\ CalibrationIInv /\ UpdateTick(reserved) => CalibrationIInv'
<1>1. SUFFICES ASSUME TreeIInv, CalibrationIInv, UpdateTick(reserved), tree = "calibrate" PROVE CalibrationIInv'
  BY DEF CalibrationIInv, UpdateTick, Update
<1>2. PICK event \in {"answer", "sensor", "tick"}, aged \in NodesState :
        Update(event, loco, aged, reserved) /\ answers' = answers /\ SameSigns(nodes, aged)
  BY <1>1, TickAges
<1> QED BY <1>1, <1>2, CalibrationSeesTrain

LEMMA CalibrationStays ==
  /\ CalibrationIInv /\ ComeNear => CalibrationIInv'
  /\ CalibrationIInv /\ UNCHANGED treeVars => CalibrationIInv'
<1>1. CalibrationIInv /\ ComeNear => CalibrationIInv'
  BY DEF ComeNear, CalibrationIInv
<1>2. CalibrationIInv /\ UNCHANGED treeVars => CalibrationIInv'
  BY DEF treeVars, world, CalibrationIInv
<1> QED BY <1>1, <1>2
-----------------------------------------------------------------------------
\* The union of the laps of a window.
LEMMA WindowIs ==
  ASSUME NEW i \in Nat, NEW n \in Nat \ {0}, NEW first, NEW rest, rest \subseteq first,
         laps[i] = first, \A j \in i + 1 .. i + n - 1 : laps[j] = rest
  PROVE  Window(i, n) = first
<1>1. i \in i .. (i + n - 1) /\ \A j \in i .. (i + n - 1) : j = i \/ j \in i + 1 .. i + n - 1
  OBVIOUS
<1>2. \A j \in i .. (i + n - 1) : laps[j] \subseteq first
  BY <1>1
<1> QED BY <1>1, <1>2 DEF Window

(* While CalibrateTree runs, each of its nodes starts when the one before it *)
(* is done, the commands under way are those of the one change of speed the *)
(* tree waits for, and the laps that its Repeats have counted were run at   *)
(* the speeds that the calibration takes them for.                          *)
THEOREM TreeCalibration == TreeSpec => []CalibrationIInv
<1>1. TreeInit => CalibrationIInv
  BY CalibrationInitial
<1>2. TreeIInv /\ CalibrationIInv /\ [TreeNext]_treeVars => CalibrationIInv'
  BY CalibrationExecutes, CalibrationLosesCommand, CalibrationLosesAnswer, CalibrationReadsAnswer,
     CalibrationHitsSensor, CalibrationTakesTime, CalibrationStays DEF TreeNext
<1>3. TreeSpec => []TreeIInv
  BY TreeInvariant
<1> QED BY <1>1, <1>2, <1>3, PTL DEF TreeSpec

(* What CalibrateTree computes with when it ends: of the last loops the      *)
(* first were run at the speed that is measured, the next after the drop to *)
(* the crawl speed and the last after the rise from it, however often a     *)
(* command was lost or sent again; unless a hit of the sensor was not       *)
(* counted.                                                                 *)
THEOREM TreeCalibrationData == TreeSpec => []CalibrationData
<1>1. TreeIInv /\ CalibrationIInv => CalibrationData
  <2>1. SUFFICES ASSUME TreeIInv, CalibrationIInv, tree = "calibrate", result = "Success", ~missed
                 PROVE  /\ Len(laps) = TOTAL_LOOPS
                        /\ Window(1, TOP_SPEED_LOOPS) = {TEST}
                        /\ Window(1 + TOP_SPEED_LOOPS, DECEL_LOOPS) = {TEST, CRAWL}
                        /\ Window(1 + TOP_SPEED_LOOPS + DECEL_LOOPS, ACCEL_LOOPS) = {CRAWL, TEST}
    BY DEF CalibrationData
  <2>2. /\ InOrder(nodes) /\ nodes.latch["stop"].sent
        /\ laps \in Seq(SUBSET Nat) /\ Len(laps) <= TOTAL_LOOPS
    BY <2>1 DEF CalibrationIInv
  <2>3. nodes.times["loop_speed"] = 0 /\ nodes.times["loop_decel"] = 0 /\ nodes.times["loop_accel"] = 0
    BY <2>2 DEF InOrder
  <2>4. PICK N \in Nat : /\ N = TOTAL_LOOPS /\ N = TOP_SPEED_LOOPS + DECEL_LOOPS + ACCEL_LOOPS
                         /\ Counted(nodes.times) = N
    BY <2>3, TreesAssumption DEF Counted, TOTAL_LOOPS
  <2>5. LapsFit(nodes.times, laps)
    BY <2>1, <2>3, TreesAssumption DEF CalibrationIInv
  <2>6. Len(laps) = N /\ \A i \in 1 .. N : laps[i] = Lap(i)
    <3>1. Len(laps) = N
      BY <2>2, <2>4, <2>5, LenProperties DEF LapsFit
    <3>2. \A i \in 1 .. N : laps[N - N + i] = Lap(i)
      BY <2>4, <2>5, <3>1 DEF LapsFit
    <3>3. \A i \in 1 .. N : N - N + i = i
      OBVIOUS
    <3> QED BY <3>1, <3>2, <3>3
  <2>7. TOP_SPEED_LOOPS \in Nat \ {0} /\ DECEL_LOOPS \in Nat \ {0} /\ ACCEL_LOOPS \in Nat \ {0}
    BY TreesAssumption
  <2>8. Window(1, TOP_SPEED_LOOPS) = {TEST}
    <3>1. \A i \in 1 .. TOP_SPEED_LOOPS : i \in 1 .. N /\ Lap(i) = {TEST}
      BY <2>4, <2>7 DEF Lap
    <3>2. laps[1] = {TEST} /\ \A j \in 1 + 1 .. 1 + TOP_SPEED_LOOPS - 1 : laps[j] = {TEST}
      BY <2>6, <2>7, <3>1
    <3> QED BY <2>7, <3>2, WindowIs
  <2>9. Window(1 + TOP_SPEED_LOOPS, DECEL_LOOPS) = {TEST, CRAWL}
    <3>1. PICK i \in 1 .. N : i = 1 + TOP_SPEED_LOOPS
      BY <2>4, <2>7
    <3>2. Lap(i) = {TEST, CRAWL}
      BY <2>7, <3>1 DEF Lap
    <3>3. \A j \in i + 1 .. i + DECEL_LOOPS - 1 : j \in 1 .. N /\ Lap(j) = {CRAWL}
      BY <2>4, <2>7, <3>1 DEF Lap
    <3>4. laps[i] = {TEST, CRAWL} /\ \A j \in i + 1 .. i + DECEL_LOOPS - 1 : laps[j] = {CRAWL}
      BY <2>6, <3>2, <3>3
    <3>5. PICK first : first = {TEST, CRAWL}
      OBVIOUS
    <3>6. PICK rest : rest = {CRAWL}
      OBVIOUS
    <3>7. rest \subseteq first /\ i \in Nat
      BY <3>5, <3>6
    <3>8. laps[i] = first /\ \A j \in i + 1 .. i + DECEL_LOOPS - 1 : laps[j] = rest
      BY <3>4, <3>5, <3>6
    <3>9. Window(i, DECEL_LOOPS) = first
      BY <2>7, <3>7, <3>8, WindowIs
    <3> QED BY <3>1, <3>5, <3>9
  <2>10. Window(1 + TOP_SPEED_LOOPS + DECEL_LOOPS, ACCEL_LOOPS) = {TEST, CRAWL}
    <3>1. PICK i \in 1 .. N : i = 1 + TOP_SPEED_LOOPS + DECEL_LOOPS
      BY <2>4, <2>7
    <3>2. Lap(i) = {TEST, CRAWL}
      BY <2>7, <3>1 DEF Lap
    <3>3. \A j \in i + 1 .. i + ACCEL_LOOPS - 1 : j \in 1 .. N /\ Lap(j) = {TEST}
      BY <2>4, <2>7, <3>1 DEF Lap
    <3>4. laps[i] = {TEST, CRAWL} /\ \A j \in i + 1 .. i + ACCEL_LOOPS - 1 : laps[j] = {TEST}
      BY <2>6, <3>2, <3>3
    <3>5. PICK first : first = {TEST, CRAWL}
      OBVIOUS
    <3>6. PICK rest : rest = {TEST}
      OBVIOUS
    <3>7. rest \subseteq first /\ i \in Nat
      BY <3>5, <3>6
    <3>8. laps[i] = first /\ \A j \in i + 1 .. i + ACCEL_LOOPS - 1 : laps[j] = rest
      BY <3>4, <3>5, <3>6
    <3>9. Window(i, ACCEL_LOOPS) = first
      BY <2>7, <3>7, <3>8, WindowIs
    <3> QED BY <3>1, <3>5, <3>9
  <2>11. {TEST, CRAWL} = {CRAWL, TEST}
    OBVIOUS
  <2> QED BY <2>4, <2>6, <2>8, <2>9, <2>10, <2>11
<1> QED BY <1>1, TreeInvariant, TreeCalibration, PTL
=============================================================================
