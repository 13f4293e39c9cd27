-------------------------- MODULE ReceptionProofs --------------------------
(***************************************************************************)
(* Theorems about the receive server, its notifier, the UART's FIFO and    *)
(* the clients, for any clients, buffer, FIFO and trigger level: characters *)
(* reach the clients in order, and none is lost but those that the full    *)
(* buffer drops.  And about the CAN controller's receive buffers and the   *)
(* worker that empties them: frames are sent on in order, none twice.      *)
(***************************************************************************)
EXTENDS UartRx, CanRx, QueueLemmas

LEMMA ToSetIsRange == \A s : ToSet(s) = Range(s)
BY DEF ToSet, Range

Ordered(s) == \A i, j \in DOMAIN s : i < j => s[i] < s[j]

(* Two queues of rising numbers rise together if those of the first are     *)
(* below those of the second.                                               *)
LEMMA OrderedConcat ==
  ASSUME NEW s \in Seq(Nat), NEW t \in Seq(Nat)
  PROVE  Ordered(s \o t) <=> /\ Ordered(s) /\ Ordered(t)
                             /\ \A x \in Range(s), y \in Range(t) : x < y
<1> DEFINE a == s \o t
           m == Len(s)
           n == Len(t)
<1>1. m \in Nat /\ n \in Nat /\ DOMAIN s = 1..m /\ DOMAIN t = 1..n
  BY LenProperties
<1>2. /\ DOMAIN a = 1..(m + n)
      /\ \A i \in 1..m : a[i] = s[i]
      /\ \A i \in 1..n : a[m + i] = t[i]
  <2>1. a \in Seq(Nat) /\ Len(a) = m + n
        /\ \A i \in 1..(m + n) : a[i] = IF i <= m THEN s[i] ELSE t[i - m]
    BY ConcatProperties
  <2>2. DOMAIN a = 1..Len(a)
    BY <2>1, LenProperties
  <2> HIDE DEF a, m, n
  <2>3. ASSUME NEW i \in 1..m PROVE a[i] = s[i]
    BY <1>1, <2>1
  <2>4. ASSUME NEW i \in 1..n PROVE a[m + i] = t[i]
    <3>1. m + i \in 1..(m + n) /\ ~(m + i <= m) /\ (m + i) - m = i
      BY <1>1
    <3> QED BY <2>1, <3>1
  <2> QED BY <2>1, <2>2, <2>3, <2>4
<1> HIDE DEF a, m, n
<1>3. \A i \in DOMAIN a : i \in 1..m \/ \E k \in 1..n : i = m + k
  <2> SUFFICES ASSUME NEW i \in DOMAIN a, i \notin 1..m PROVE \E k \in 1..n : i = m + k
    OBVIOUS
  <2>1. i - m \in 1..n /\ i = m + (i - m)
    BY <1>1, <1>2
  <2> QED BY <2>1
<1>4. /\ \A i \in 1..m : i \in DOMAIN a
      /\ \A i \in 1..n : m + i \in DOMAIN a
      /\ \A i \in 1..m, k \in 1..n : i < m + k
      /\ \A i \in 1..n, k \in 1..n : i < k <=> m + i < m + k
  BY <1>1, <1>2
<1>5. ASSUME Ordered(a)
      PROVE  Ordered(s) /\ Ordered(t) /\ \A x \in Range(s), y \in Range(t) : x < y
  <2>1. \A i, j \in DOMAIN s : i < j => s[i] < s[j]
    BY <1>1, <1>2, <1>4, <1>5 DEF Ordered
  <2>2. \A i, j \in DOMAIN t : i < j => t[i] < t[j]
    <3> SUFFICES ASSUME NEW i \in 1..n, NEW j \in 1..n, i < j PROVE t[i] < t[j]
      BY <1>1
    <3>1. m + i \in DOMAIN a /\ m + j \in DOMAIN a /\ m + i < m + j
      BY <1>4
    <3>2. a[m + i] < a[m + j]
      BY <1>5, <3>1 DEF Ordered
    <3> QED BY <1>2, <3>2
  <2>3. ASSUME NEW i \in 1..m, NEW j \in 1..n PROVE s[i] < t[j]
    <3>1. a[i] < a[m + j]
      BY <1>4, <1>5 DEF Ordered
    <3> QED BY <1>2, <3>1
  <2>4. \A x \in Range(s), y \in Range(t) : x < y
    BY <1>1, <2>3 DEF Range
  <2> QED BY <2>1, <2>2, <2>4 DEF Ordered
<1>6. ASSUME Ordered(s), Ordered(t), \A x \in Range(s), y \in Range(t) : x < y
      PROVE  Ordered(a)
  <2> SUFFICES ASSUME NEW i \in DOMAIN a, NEW j \in DOMAIN a, i < j PROVE a[i] < a[j]
    BY DEF Ordered
  <2>1. CASE i \in 1..m /\ j \in 1..m
    BY <1>1, <1>2, <1>6, <2>1 DEF Ordered
  <2>2. ASSUME NEW k \in 1..n, j = m + k, i \in 1..m PROVE a[i] < a[j]
    BY <1>1, <1>2, <1>6, <2>2 DEF Range
  <2>3. ASSUME NEW k \in 1..n, j = m + k, NEW l \in 1..n, i = m + l PROVE a[i] < a[j]
    BY <1>1, <1>2, <1>4, <1>6, <2>3 DEF Ordered
  <2>4. ASSUME NEW l \in 1..n, i = m + l, j \in 1..m PROVE FALSE
    BY <1>1, <2>4
  <2> QED BY <1>3, <2>1, <2>2, <2>3, <2>4
<1> QED BY <1>5, <1>6 DEF a

LEMMA OrderedTail ==
  ASSUME NEW s \in Seq(Nat), s # <<>>, Ordered(s)
  PROVE  Ordered(Tail(s))
<1> DEFINE t == Tail(s)
           n == Len(s)
<1>1. /\ n \in Nat \ {0} /\ DOMAIN s = 1..n /\ DOMAIN t = 1..(n - 1)
      /\ \A i \in 1..(n - 1) : t[i] = s[i + 1]
  BY HeadTailProperties, LenProperties, EmptySeq
<1>2. \A i, j \in DOMAIN s : i < j => s[i] < s[j]
  BY DEF Ordered
<1> HIDE DEF t, n
<1>3. ASSUME NEW i \in 1..(n - 1), NEW j \in 1..(n - 1), i < j PROVE t[i] < t[j]
  <2>1. i + 1 \in 1..n /\ j + 1 \in 1..n /\ i + 1 < j + 1
    BY <1>1, <1>3
  <2>2. s[i + 1] < s[j + 1]
    BY <1>1, <1>2, <2>1
  <2> QED BY <1>1, <2>2
<1>4. Ordered(t)
  BY <1>1, <1>3 DEF Ordered
<1> QED BY <1>4 DEF t

LEMMA OrderedOne == \A c \in Nat : Ordered(<<c>>) /\ Range(<<c>>) = {c}
<1> TAKE c \in Nat
<1>1. DOMAIN <<c>> = {1} /\ <<c>>[1] = c
  OBVIOUS
<1> QED BY <1>1 DEF Ordered, Range
-----------------------------------------------------------------------------
(* The line of characters from the clients to the UART.                     *)
All == (got \o rx_buffer) \o fifo

LEMMA AllMeans ==
  ASSUME TypeOK
  PROVE  /\ got \o rx_buffer \in Seq(Nat) /\ All \in Seq(Nat)
         /\ Range(All) = Range(got \o rx_buffer) \cup Range(fifo)
         /\ InOrder <=> Ordered(All)
         /\ NothingLost <=> 1..arrived = Range(All) \cup dropped
<1>1. got \in Seq(Nat) /\ rx_buffer \in Seq(Nat) /\ fifo \in Seq(Nat)
  BY DEF TypeOK
<1> HIDE DEF TypeOK
<1> DEFINE read == got \o rx_buffer
<1>2. read \in Seq(Nat)
  BY <1>1, ConcatProperties
<1> HIDE DEF read
<1>5. read \o fifo \in Seq(Nat)
  BY <1>1, <1>2, ConcatProperties
<1>6. Range(read \o fifo) = Range(read) \cup Range(fifo)
  BY <1>1, <1>2, RangeConcatenation
<1>3. InOrder <=> Ordered(All)
  BY DEF InOrder, Ordered, All
<1>4. NothingLost <=> 1..arrived = Range(All) \cup dropped
  BY ToSetIsRange DEF NothingLost, All
<1> QED BY <1>2, <1>3, <1>4, <1>5, <1>6 DEF All, read

(* A step that moves characters along the line, and adds none, keeps both   *)
(* properties.                                                              *)
LEMMA LineKept ==
  ASSUME IInv, got' \o rx_buffer' = got \o rx_buffer, UNCHANGED <<fifo, arrived, dropped>>
  PROVE  InOrder' /\ NothingLost'
BY DEF IInv, InOrder, NothingLost

LEMMA InitIInv == Init => IInv
<1> SUFFICES ASSUME Init PROVE IInv
  OBVIOUS
<1> USE DEF Init
<1>1. TypeOK
  <2>1. <<>> \in Seq(Nat) /\ <<>> \in Seq(Task)
    OBVIOUS
  <2>2. client \in [Clients -> {"runs", "sent"}]
    OBVIOUS
  <2>3. {} \subseteq {"RTIM", "RXIM"} /\ {} \subseteq Nat /\ 0 \in Nat
    OBVIOUS
  <2> QED BY <2>1, <2>2, <2>3 DEF TypeOK
<1>2. All = <<>>
  <2>1. <<>> \in Seq(Nat) /\ <<>> \o <<>> = <<>>
    BY ConcatEmptySeq
  <2> QED BY <2>1 DEF All
<1>3. InOrder /\ NothingLost
  <2>1. Ordered(<<>>) /\ Range(<<>>) = {}
    BY QueueEmpty DEF Ordered
  <2>2. 1..arrived = {} /\ dropped = {}
    OBVIOUS
  <2> QED BY <1>1, <1>2, <2>1, <2>2, AllMeans
<1>4. GetcKnown
  <2>1. \A c \in Clients : client[c] = "runs" /\ c # Nobody
    BY UartRxAssumption
  <2> QED BY <2>1, QueueEmpty, ToSetIsRange DEF GetcKnown
<1>5. NotifierKnown
  BY QueueEmpty, ToSetIsRange DEF NotifierKnown
<1> QED BY <1>1, <1>3, <1>4, <1>5 DEF IInv

LEMMA ArriveInv == ASSUME IInv, Arrive PROVE IInv'
<1> DEFINE n == arrived + 1
           all == All
<1>0. TypeOK /\ InOrder /\ NothingLost
  BY DEF IInv
<1>1. /\ fifo \in Seq(Nat) /\ arrived \in Nat /\ n \in Nat
      /\ fifo' = Append(fifo, n) /\ arrived' = n
  <2>1. fifo \in Seq(Nat) /\ arrived \in Nat
    BY <1>0 DEF TypeOK
  <2>2. fifo' = Append(fifo, n) /\ arrived' = n
    BY DEF Arrive
  <2> QED BY <2>1, <2>2
<1>2. TypeOK'
  <2>1. fifo' \in Seq(Nat)
    BY <1>1, AppendProperties
  <2>2. due' \in Nat /\ rx' \in BOOLEAN
    BY <1>0, <1>1 DEF Arrive, TypeOK
  <2> QED BY <1>0, <1>1, <2>1, <2>2 DEF TypeOK, Arrive, server
<1>3. /\ got \o rx_buffer \in Seq(Nat) /\ all \in Seq(Nat)
      /\ Ordered(all) /\ 1..arrived = Range(all) \cup dropped
  BY <1>0, AllMeans
<1>4. All' = Append(all, n)
  <2>1. got' = got /\ rx_buffer' = rx_buffer
    BY DEF Arrive, server
  <2>2. (got \o rx_buffer) \o Append(fifo, n) = Append((got \o rx_buffer) \o fifo, n)
    <3>1. got \o rx_buffer \in Seq(Nat) /\ fifo \in Seq(Nat) /\ n \in Nat
      BY <1>1, <1>3
    <3> HIDE DEF n
    <3> QED BY ONLY <3>1, QueueExtend, SMTT(30)
  <2> QED BY <1>1, <2>1, <2>2 DEF All
<1> HIDE DEF n, all
<1>5. <<n>> \in Seq(Nat) /\ Ordered(<<n>>) /\ Range(<<n>>) = {n}
  BY <1>1, OrderedOne
<1>6. Append(all, n) = all \o <<n>>
  BY <1>1, <1>3, AppendIsConcat
<1>7. Ordered(Append(all, n))
  <2>1. \A x \in Range(all), y \in {n} : x < y
    BY <1>1, <1>3 DEF n
  <2>2. \A x \in Range(all), y \in Range(<<n>>) : x < y
    BY <1>5, <2>1
  <2> QED BY <1>3, <1>5, <1>6, <2>2, OrderedConcat
<1>8. 1..arrived' = Range(Append(all, n)) \cup dropped'
  <2>1. Range(Append(all, n)) = Range(all) \cup {n}
    <3>1. all \in Seq(Nat) /\ n \in Nat
      BY <1>1, <1>3
    <3> QED BY ONLY <3>1, QueueAppend
  <2>2. 1..n = 1..arrived \cup {n}
    BY <1>1 DEF n
  <2>3. dropped' = dropped
    BY DEF Arrive
  <2> QED BY <1>1, <1>3, <2>1, <2>2, <2>3
<1>9. InOrder' /\ NothingLost'
  BY <1>4, <1>7, <1>8, ToSetIsRange DEF InOrder, NothingLost, All, Ordered
<1>10. GetcKnown' /\ NotifierKnown'
  BY DEF IInv, GetcKnown, NotifierKnown, Arrive, server
<1> QED BY <1>2, <1>9, <1>10 DEF IInv

(* The steps that move no character.                                        *)
LEMMA JoinInv ==
  ASSUME IInv, NEW t \in Task, t \notin Range(inbox), inbox' = Append(inbox, t)
  PROVE  inbox' \in Seq(Task) /\ IsInjective(inbox') /\ Range(inbox') = Range(inbox) \cup {t}
<1>1. inbox \in Seq(Task) /\ IsInjective(inbox)
  BY DEF IInv, TypeOK, GetcKnown
<1>2. Append(inbox, t) \in Seq(Task)
  BY <1>1, AppendProperties
<1>3. IsInjective(Append(inbox, t)) /\ Range(Append(inbox, t)) = Range(inbox) \cup {t}
  BY <1>1, QueueAppend
<1> QED BY <1>2, <1>3

LEMMA ReceiveInv ==
  ASSUME IInv, inbox # <<>>, inbox' = Tail(inbox)
  PROVE  /\ inbox' \in Seq(Task) /\ IsInjective(inbox')
         /\ Head(inbox) \in Task /\ Head(inbox) \in Range(inbox)
         /\ Range(inbox') = Range(inbox) \ {Head(inbox)}
BY QueueTail, HeadTailProperties DEF IInv, TypeOK, GetcKnown

LEMMA QuietInv ==
  ASSUME IInv, Timeout \/ UartIrq \/ Await \/ SendInterrupt \/ Ask \/ HandOver
                 \/ ReceiveInterrupt \/ Drained \/ ClearRx
  PROVE  IInv'
<1> USE DEF IInv, server, uart
<1>1. InOrder' /\ NothingLost'
  BY DEF Timeout, UartIrq, Await, SendInterrupt, Ask, Getc, HandOver, ReceiveInterrupt, Drained,
         ClearRx, InOrder, NothingLost
<1>2. CASE Timeout
  BY <1>1, <1>2 DEF Timeout, TypeOK, GetcKnown, NotifierKnown
<1>3. CASE UartIrq
  BY <1>1, <1>3 DEF UartIrq, TypeOK, GetcKnown, NotifierKnown
<1>4. CASE Await
  BY <1>1, <1>4 DEF Await, TypeOK, GetcKnown, NotifierKnown
<1>5. CASE SendInterrupt
  <2>1. Notifier \notin Range(inbox) /\ Notifier \in Task /\ Notifier \notin Clients
        /\ Notifier # waiting_getc_tid /\ pc = "receive"
    BY <1>5, ToSetIsRange, UartRxAssumption DEF SendInterrupt, NotifierKnown, Task, TypeOK
  <2>2. inbox' \in Seq(Task) /\ IsInjective(inbox') /\ Range(inbox') = Range(inbox) \cup {Notifier}
    BY <1>5, <2>1, JoinInv DEF SendInterrupt
  <2>3. TypeOK'
    BY <1>5, <2>2 DEF SendInterrupt, TypeOK
  <2>4. GetcKnown' /\ NotifierKnown'
    BY <1>5, <2>1, <2>2, ToSetIsRange DEF SendInterrupt, GetcKnown, NotifierKnown
  <2> QED BY <1>1, <2>3, <2>4
<1>6. ASSUME NEW c \in Clients, Getc(c) PROVE IInv'
  <2> USE <1>6 DEF Getc
  <2>1. /\ c \notin Range(inbox) /\ c \in Task /\ c # Notifier
        /\ c # waiting_getc_tid
    BY ToSetIsRange, UartRxAssumption DEF GetcKnown, Task
  <2>2. inbox' \in Seq(Task) /\ IsInjective(inbox') /\ Range(inbox') = Range(inbox) \cup {c}
    BY <2>1, JoinInv
  <2>3. client' \in [Clients -> {"runs", "sent"}]
        /\ \A d \in Clients : client'[d] = IF d = c THEN "sent" ELSE client[d]
    BY DEF TypeOK
  <2>4. TypeOK'
    BY <2>2, <2>3 DEF TypeOK
  <2>5. GetcKnown' /\ NotifierKnown'
    BY <2>1, <2>2, <2>3, ToSetIsRange DEF GetcKnown, NotifierKnown
  <2> QED BY <1>1, <2>4, <2>5
<1>7. CASE HandOver
  <2>1. \A c \in Clients : client[c] # "sent"
    BY <1>7 DEF HandOver, GetcKnown
  <2> QED BY <1>1, <1>7, <2>1 DEF HandOver, TypeOK, GetcKnown, NotifierKnown
<1>8. CASE ReceiveInterrupt
  <2>1. /\ inbox' \in Seq(Task) /\ IsInjective(inbox') /\ Notifier \in Range(inbox)
        /\ Range(inbox') = Range(inbox) \ {Notifier}
    BY <1>8, ReceiveInv DEF ReceiveInterrupt
  <2>2. TypeOK'
    BY <1>8, <2>1 DEF ReceiveInterrupt, TypeOK
  <2>3. GetcKnown' /\ NotifierKnown'
    BY <1>8, <2>1, ToSetIsRange, UartRxAssumption DEF ReceiveInterrupt, GetcKnown, NotifierKnown
  <2> QED BY <1>1, <2>2, <2>3
<1>9. CASE Drained
  BY <1>1, <1>9 DEF Drained, TypeOK, GetcKnown, NotifierKnown
<1>10. CASE ClearRx
  BY <1>1, <1>10 DEF ClearRx, TypeOK, GetcKnown, NotifierKnown
<1> QED BY <1>2, <1>3, <1>4, <1>5, <1>6, <1>7, <1>8, <1>9, <1>10 DEF Ask

(* The steps that move characters from one queue to the next.               *)
LEMMA HandleGetcInv == ASSUME IInv, NEW c \in Clients, HandleGetc(c) PROVE IInv'
<1>1. TypeOK /\ InOrder /\ NothingLost /\ GetcKnown /\ NotifierKnown
  BY DEF IInv
<1>2. inbox # <<>> /\ inbox' = Tail(inbox) /\ Head(inbox) = c /\ c # Notifier
  BY DEF HandleGetc
<1>3. /\ inbox' \in Seq(Task) /\ IsInjective(inbox') /\ c \in Range(inbox)
      /\ Range(inbox') = Range(inbox) \ {c}
  BY <1>2, ReceiveInv
<1>4. /\ client[c] = "sent" /\ c = turn
      /\ waiting_getc_tid \notin Range(inbox) /\ waiting_getc_tid # c
      /\ \A d \in Clients : client[d] = "sent" => d = c
  BY <1>1, <1>3, ToSetIsRange DEF GetcKnown
<1>5. waiting_getc_tid = Nobody
  BY <1>1, <1>4 DEF GetcKnown, TypeOK
<1>6. NotifierKnown'
  <2>1. UNCHANGED <<pc, notifier>>
    BY DEF HandleGetc
  <2> QED BY <1>1, <1>2, <1>3, <2>1, ToSetIsRange DEF NotifierKnown
<1>7. CASE rx_buffer # <<>>
  <2>1. /\ rx_buffer' = Tail(rx_buffer) /\ got' = Append(got, Head(rx_buffer))
        /\ client' = [client EXCEPT ![c] = "runs"]
        /\ UNCHANGED <<waiting_getc_tid, pc, turn, notifier, im, rx, rt, timing, fifo, arrived,
                       dropped, due>>
    BY <1>4, <1>7 DEF HandleGetc, Pop, Reply, uart
  <2>2. /\ rx_buffer \in Seq(Nat) /\ got \in Seq(Nat) /\ client \in [Clients -> {"runs", "sent"}]
    BY <1>1 DEF TypeOK
  <2>3. /\ rx_buffer' \in Seq(Nat) /\ got' \in Seq(Nat) /\ client' \in [Clients -> {"runs", "sent"}]
        /\ got' \o rx_buffer' = got \o rx_buffer
    BY <1>7, <2>1, <2>2, HeadTailProperties, AppendProperties, QueueMove
  <2>4. \A d \in Clients : client'[d] = IF d = c THEN "runs" ELSE client[d]
    BY <2>1, <2>2
  <2>5. TypeOK'
    BY <1>1, <1>3, <2>1, <2>3 DEF TypeOK
  <2>6. InOrder' /\ NothingLost'
    BY <2>1, <2>3, LineKept
  <2>7. GetcKnown'
    BY <1>1, <1>3, <1>4, <1>5, <2>1, <2>4, ToSetIsRange, UartRxAssumption DEF GetcKnown
  <2> QED BY <1>6, <2>5, <2>6, <2>7 DEF IInv
<1>8. CASE rx_buffer = <<>>
  <2>1. /\ waiting_getc_tid' = c
        /\ UNCHANGED <<rx_buffer, client, got, pc, turn, notifier, im, rx, rt, timing, fifo, arrived,
                       dropped, due>>
    BY <1>8 DEF HandleGetc, uart
  <2>2. TypeOK'
    BY <1>1, <1>3, <2>1 DEF TypeOK
  <2>3. InOrder' /\ NothingLost'
    BY <1>1, <2>1 DEF InOrder, NothingLost
  <2>4. GetcKnown'
    BY <1>1, <1>3, <1>4, <1>5, <2>1, ToSetIsRange DEF GetcKnown
  <2> QED BY <1>6, <2>2, <2>3, <2>4 DEF IInv
<1> QED BY <1>7, <1>8

LEMMA DrainInv == ASSUME IInv, Drain PROVE IInv'
<1>1. TypeOK /\ InOrder /\ NothingLost /\ GetcKnown /\ NotifierKnown
  BY DEF IInv
<1>2. /\ fifo # <<>> /\ fifo' = Tail(fifo)
      /\ UNCHANGED <<waiting_getc_tid, inbox, pc, turn, client, notifier, im, arrived, got, due>>
  BY DEF Drain, getc
<1>3. /\ fifo \in Seq(Nat) /\ rx_buffer \in Seq(Nat) /\ got \in Seq(Nat)
      /\ rx \in BOOLEAN /\ rt \in BOOLEAN /\ timing \in BOOLEAN /\ dropped \subseteq Nat
  BY <1>1 DEF TypeOK
<1>4. fifo' \in Seq(Nat) /\ Head(fifo) \in Nat
  BY <1>2, <1>3, HeadTailProperties
<1>5. rx' \in BOOLEAN /\ rt' \in BOOLEAN /\ timing' \in BOOLEAN
  BY <1>3 DEF Drain, getc
<1>6. GetcKnown' /\ NotifierKnown'
  BY <1>1, <1>2 DEF GetcKnown, NotifierKnown
<1>7. CASE Len(rx_buffer) < RX_BUFFER_SIZE
  <2>1. rx_buffer' = Append(rx_buffer, Head(fifo)) /\ dropped' = dropped
    BY <1>7 DEF Drain
  <2>2. rx_buffer' \in Seq(Nat)
    BY <1>3, <1>4, <2>1, AppendProperties
  <2>3. TypeOK'
    BY <1>1, <1>2, <1>4, <1>5, <2>1, <2>2 DEF TypeOK
  <2>4. (got' \o rx_buffer') \o fifo' = (got \o rx_buffer) \o fifo
    <3>1. rx_buffer' \o fifo' = rx_buffer \o fifo
      BY <1>2, <1>3, <2>1, QueueMove
    <3>2. (got \o rx_buffer') \o fifo' = got \o (rx_buffer' \o fifo')
      <4>1. got \in Seq(Nat) /\ rx_buffer' \in Seq(Nat) /\ fifo' \in Seq(Nat)
        BY <1>3, <1>4, <2>2
      <4> QED BY ONLY <4>1, ConcatAssociative, SMTT(30)
    <3>3. (got \o rx_buffer) \o fifo = got \o (rx_buffer \o fifo)
      BY <1>3, ConcatAssociative, SMTT(30)
    <3> QED BY <1>2, <3>1, <3>2, <3>3
  <2>5. InOrder' /\ NothingLost'
    BY <1>1, <1>2, <2>1, <2>4 DEF InOrder, NothingLost
  <2> QED BY <1>6, <2>3, <2>5 DEF IInv
<1>8. CASE ~(Len(rx_buffer) < RX_BUFFER_SIZE)
  <2> DEFINE read == got \o rx_buffer
  <2>1. rx_buffer' = rx_buffer /\ dropped' = dropped \cup {Head(fifo)}
    BY <1>8 DEF Drain
  <2>2. TypeOK'
    BY <1>1, <1>2, <1>3, <1>4, <1>5, <2>1 DEF TypeOK
  <2>3. /\ read \in Seq(Nat)
        /\ Ordered(read \o fifo)
        /\ 1..arrived = Range(read) \cup Range(fifo) \cup dropped
    BY <1>1, AllMeans DEF All
  <2>4. All' = read \o Tail(fifo)
    BY <1>2, <2>1 DEF All
  <2> HIDE DEF read
  <2>5. Ordered(read) /\ Ordered(fifo) /\ \A x \in Range(read), y \in Range(fifo) : x < y
    BY <1>3, <2>3, OrderedConcat
  <2>6. /\ Tail(fifo) \in Seq(Nat) /\ Ordered(Tail(fifo))
        /\ Range(fifo) = Range(Tail(fifo)) \cup {Head(fifo)}
    <3>1. Ordered(Tail(fifo))
      BY <1>2, <1>3, <2>5, OrderedTail
    <3>2. Range(fifo) = Range(Tail(fifo)) \cup {Head(fifo)}
      BY <1>2, <1>3, QueueTail
    <3> QED BY <1>2, <1>4, <3>1, <3>2
  <2>7. Ordered(read \o Tail(fifo))
    <3>1. \A x \in Range(read), y \in Range(Tail(fifo)) : x < y
      BY <2>5, <2>6
    <3> QED BY <2>3, <2>5, <2>6, <3>1, OrderedConcat
  <2>8. Range(read \o Tail(fifo)) = Range(read) \cup Range(Tail(fifo))
    <3>1. read \in Seq(Nat) /\ Tail(fifo) \in Seq(Nat)
      BY <2>3, <2>6
    <3> QED BY ONLY <3>1, RangeConcatenation, ZenonT(30)
  <2>9. 1..arrived' = Range(read \o Tail(fifo)) \cup dropped'
    BY <1>2, <2>1, <2>3, <2>6, <2>8
  <2>10. InOrder' /\ NothingLost'
    BY <2>4, <2>7, <2>9, ToSetIsRange DEF InOrder, NothingLost, All, Ordered
  <2> QED BY <1>6, <2>2, <2>10 DEF IInv
<1> QED BY <1>7, <1>8

LEMMA ClearRtInv == ASSUME IInv, ClearRt PROVE IInv'
<1>1. TypeOK /\ InOrder /\ NothingLost /\ GetcKnown /\ NotifierKnown
  BY DEF IInv
<1>2. /\ pc = "clear RT" /\ pc' = "receive" /\ rt' = FALSE /\ notifier' = "runs"
      /\ UNCHANGED <<inbox, turn, im, rx, timing, fifo, arrived, dropped, due>>
  BY DEF ClearRt
<1>3. NotifierKnown'
  BY <1>1, <1>2 DEF NotifierKnown
<1>4. CASE waiting_getc_tid # Nobody /\ rx_buffer # <<>>
  <2> DEFINE c == waiting_getc_tid
  <2>1. c \in Clients /\ client[c] = "sent" /\ c = turn /\ c \notin ToSet(inbox)
        /\ \A d \in Clients : client[d] = "sent" => d = c
    BY <1>1, <1>4 DEF TypeOK, GetcKnown
  <2>2. /\ rx_buffer' = Tail(rx_buffer) /\ got' = Append(got, Head(rx_buffer))
        /\ client' = [client EXCEPT ![c] = "runs"] /\ waiting_getc_tid' = Nobody
    BY <1>4, <2>1 DEF ClearRt, TryReplyGetc, Pop, Reply
  <2>3. /\ rx_buffer \in Seq(Nat) /\ got \in Seq(Nat) /\ client \in [Clients -> {"runs", "sent"}]
    BY <1>1 DEF TypeOK
  <2>4. /\ rx_buffer' \in Seq(Nat) /\ got' \in Seq(Nat) /\ client' \in [Clients -> {"runs", "sent"}]
        /\ got' \o rx_buffer' = got \o rx_buffer
    BY <1>4, <2>2, <2>3, HeadTailProperties, AppendProperties, QueueMove
  <2>5. \A d \in Clients : client'[d] = IF d = c THEN "runs" ELSE client[d]
    BY <2>2, <2>3
  <2>6. TypeOK'
    BY <1>1, <1>2, <2>2, <2>4 DEF TypeOK
  <2>7. InOrder' /\ NothingLost'
    BY <1>2, <2>4, LineKept
  <2>8. GetcKnown'
    <3>1. Nobody \notin ToSet(inbox) /\ Nobody \notin Clients
      <4>1. Range(inbox) \subseteq Task
        BY <1>1, RangeOfSeq DEF TypeOK
      <4> QED BY <4>1, ToSetIsRange, UartRxAssumption DEF Task
    <3>2. /\ \A d \in Clients : client[d] = "sent" <=> d \in ToSet(inbox) \/ d = c
          /\ IsInjective(inbox)
      BY <1>1 DEF GetcKnown
    <3> HIDE DEF c
    <3>3. \A d \in Clients : client'[d] # "sent" /\ d \notin ToSet(inbox) /\ d # Nobody
      BY <2>1, <2>5, <3>1, <3>2
    <3> QED BY <1>2, <2>2, <3>1, <3>2, <3>3 DEF GetcKnown
  <2> QED BY <1>3, <2>6, <2>7, <2>8 DEF IInv
<1>5. CASE ~(waiting_getc_tid # Nobody /\ rx_buffer # <<>>)
  <2>1. UNCHANGED <<rx_buffer, waiting_getc_tid, client, got>>
    BY <1>5 DEF ClearRt, TryReplyGetc
  <2> QED BY <1>1, <1>2, <1>3, <2>1 DEF IInv, TypeOK, InOrder, NothingLost, GetcKnown
<1> QED BY <1>4, <1>5

LEMMA NextIInv == IInv /\ [Next]_vars => IInv'
<1> SUFFICES ASSUME IInv, [Next]_vars PROVE IInv'
  OBVIOUS
<1>1. CASE Arrive
  BY <1>1, ArriveInv
<1>2. CASE Timeout \/ UartIrq \/ Await \/ SendInterrupt \/ Ask \/ HandOver
  BY <1>2, QuietInv
<1>3. CASE Serve
  BY <1>3, HandleGetcInv, QuietInv, DrainInv, ClearRtInv DEF Serve
<1>4. CASE UNCHANGED vars
  BY <1>4 DEF vars, server, uart, IInv, TypeOK, InOrder, NothingLost, GetcKnown, NotifierKnown
<1> QED BY <1>1, <1>2, <1>3, <1>4 DEF Next
-----------------------------------------------------------------------------
(* The inductive invariant of the server, its notifier and its clients.     *)
THEOREM UartRxInvariant == Spec => []IInv
BY InitIInv, NextIInv, PTL DEF Spec

(* Characters reach the clients in the order in which they were typed.      *)
THEOREM UartRxInOrder == Spec => []InOrder
<1>1. IInv => InOrder
  BY DEF IInv
<1> QED BY <1>1, UartRxInvariant, PTL

(* No character is lost between the FIFO and a client, but for those that   *)
(* the full buffer drops: none is sent to a task that does not wait for it. *)
THEOREM UartRxNothingLost == Spec => []NothingLost
<1>1. IInv => NothingLost
  BY DEF IInv
<1> QED BY <1>1, UartRxInvariant, PTL
-----------------------------------------------------------------------------
(* CAN frames.  What the invariant says unless a frame arrived in a read.    *)
LEMMA CanInitInv == CanInit => CanIInv
<1> SUFFICES ASSUME CanInit PROVE CanIInv
  OBVIOUS
<1> USE DEF CanInit
<1>1. CanTypeOK
  BY DEF CanTypeOK, Buffer
<1>2. FifoOrder
  BY DEF FifoOrder
<1>3. Flags = {}
  BY DEF Flags, Buffer
<1>4. OldestNext /\ WorkerSound
  BY <1>3 DEF OldestNext, WorkerSound
<1> QED BY <1>1, <1>2, <1>4 DEF CanIInv

(* A frame that arrives is newer than all others, and goes to the buffer     *)
(* that is read after those in use.                                          *)
LEMMA FrameArrivesInv == ASSUME CanIInv, FrameArrives PROVE CanIInv'
<1>1. CanTypeOK /\ FifoOrder
  BY DEF CanIInv
<1>2. /\ frames' = frames + 1 /\ raced' = (raced \/ worker = "read")
      /\ UNCHANGED <<enabled, read_rx0, active, frame, worker, delivered>>
  BY DEF FrameArrives
<1>3. CanTypeOK'
  <2>1. frames' \in Nat /\ raced' \in BOOLEAN
    BY <1>1, <1>2 DEF CanTypeOK
  <2>2. (IF 0 \in Flags THEN 1 ELSE 0) \in Buffer
    BY DEF Buffer
  <2>3. rxb' \in [Buffer -> Nat]
    BY <1>1, <2>1, <2>2 DEF CanTypeOK, FrameArrives
  <2>4. overflowed' \in SUBSET Nat
    BY <1>1, <2>1 DEF CanTypeOK, FrameArrives
  <2> QED BY <1>1, <1>2, <2>1, <2>3, <2>4 DEF CanTypeOK
<1>4. FifoOrder'
  BY <1>1, <1>2 DEF FifoOrder
<1>5. ASSUME ~raced' PROVE OldestNext' /\ WorkerSound'
  <2>1. ~raced /\ worker # "read" /\ OldestNext /\ WorkerSound
    BY <1>2, <1>5 DEF CanIInv
  <2>2. /\ frames \in Nat /\ frames' = frames + 1
        /\ \A i \in DOMAIN delivered : delivered[i] \in Nat
        /\ rxb \in [Buffer -> Nat] /\ frame \in Nat
    BY <1>1, <1>2 DEF CanTypeOK
  <2>3. ASSUME NEW f, New(f) PROVE New(f)' /\ f < frames'
    BY <2>2, <2>3, <1>2 DEF New
  <2>4. CASE Flags = Buffer /\ UNCHANGED rxb
    <3>1. Flags' = Flags
      BY <2>4 DEF Flags
    <3>2. OldestNext'
      BY <2>1, <2>2, <2>3, <2>4, <3>1, <1>2 DEF OldestNext
    <3>3. WorkerSound'
      BY <2>1, <2>3, <2>4, <3>1, <1>2 DEF WorkerSound
    <3> QED BY <3>2, <3>3
  <2>5. CASE Flags # Buffer /\ rxb' = [rxb EXCEPT ![IF 0 \in Flags THEN 1 ELSE 0] = frames']
    <3> PICK b \in Buffer : b = (IF 0 \in Flags THEN 1 ELSE 0)
      BY DEF Buffer
    <3>1. b \notin Flags /\ (b = 0 <=> 0 \notin Flags) /\ (b = 1 <=> 0 \in Flags)
      BY <2>5 DEF Flags, Buffer
    <3>2. rxb'[b] = frames' /\ \A c \in Buffer \ {b} : rxb'[c] = rxb[c]
      BY <2>2, <2>5
    <3>3. Flags' = Flags \cup {b}
      <4>1. frames' # 0
        BY <2>2
      <4>2. \A c \in Buffer : rxb'[c] # 0 <=> rxb[c] # 0 \/ c = b
        BY <3>2, <4>1
      <4> QED BY <4>2 DEF Flags
    <3>4. New(rxb[b])'
      <4>1. \A i \in DOMAIN delivered : delivered[i] <= frames
        BY <2>1 DEF OldestNext
      <4> QED BY <4>1, <2>2, <3>2, <1>2 DEF New
    <3>5. \A c \in Flags : New(rxb[c])' /\ rxb'[c] = rxb[c] /\ rxb[c] < frames'
      BY <2>1, <2>3, <3>1, <3>2 DEF OldestNext, Flags, New
    <3>6. OldestNext'
      BY <2>1, <2>2, <3>1, <3>2, <3>3, <3>4, <3>5, <1>2 DEF OldestNext, Flags, Buffer
    <3>7. WorkerSound'
      BY <2>1, <2>3, <3>2, <3>3, <3>5, <1>2 DEF WorkerSound
    <3> QED BY <3>6, <3>7
  <2> QED BY <2>4, <2>5 DEF FrameArrives
<1> QED BY <1>3, <1>4, <1>5, <1>1 DEF CanIInv, CanTypeOK

(* What the worker does up to the flags changes no buffer.                  *)
LEMMA WorkerWaits ==
  ASSUME CanIInv, AwaitFrame \/ Arm \/ Irq \/ ReadFlags
  PROVE  CanIInv'
<1>1. CanTypeOK /\ FifoOrder
  BY DEF CanIInv
<1>2. UNCHANGED <<rxb, read_rx0, frame, frames, overflowed, raced, delivered>>
  BY DEF AwaitFrame, Arm, Irq, ReadFlags
<1>3. Flags' = Flags
  BY <1>2 DEF Flags
<1>4. CanTypeOK'
  BY <1>1, <1>2 DEF CanTypeOK, AwaitFrame, Arm, Armed, Irq, ReadFlags, Flags
<1>5. FifoOrder'
  BY <1>1, <1>2 DEF FifoOrder
<1>6. ASSUME ~raced PROVE OldestNext' /\ WorkerSound'
  <2>1. OldestNext /\ WorkerSound
    BY <1>6 DEF CanIInv
  <2>2. OldestNext'
    BY <2>1, <1>2, <1>3 DEF OldestNext, New
  <2>3. WorkerSound'
    BY <2>1, <1>2, <1>3 DEF WorkerSound, AwaitFrame, Arm, Irq, ReadFlags
  <2> QED BY <2>2, <2>3
<1> QED BY <1>1, <1>2, <1>4, <1>5, <1>6 DEF CanIInv, CanTypeOK

(* The older frame is read; if there is another it is the next to be read.   *)
LEMMA ReadBufferInv == ASSUME CanIInv, ReadBuffer PROVE CanIInv'
<1>1. CanTypeOK /\ FifoOrder
  BY DEF CanIInv
<1> PICK b \in Buffer : b = (IF read_rx0 THEN 0 ELSE 1)
  BY DEF Buffer
<1>2. /\ worker = "read" /\ worker' = "send"
      /\ frame' = (IF rxb[b] # 0 THEN rxb[b] ELSE frame)
      /\ rxb' = [c \in Buffer |-> IF c = b THEN 0 ELSE rxb[c]]
      /\ read_rx0' = NextBuffer
      /\ UNCHANGED <<enabled, active, frames, overflowed, raced, delivered>>
  BY DEF ReadBuffer
<1>3. CanTypeOK'
  BY <1>1, <1>2 DEF CanTypeOK, NextBuffer, Buffer
<1>4. FifoOrder'
  BY <1>1, <1>2 DEF FifoOrder
<1>5. ASSUME ~raced PROVE OldestNext' /\ WorkerSound'
  <2>1. OldestNext /\ WorkerSound
    BY <1>5 DEF CanIInv
  <2>2. active = Flags /\ Flags # {} /\ rxb \in [Buffer -> Nat]
        /\ \A c \in Flags : rxb[c] \in Nat /\ rxb[c] # 0
    BY <2>1, <1>1, <1>2 DEF WorkerSound, CanTypeOK, Flags
  <2>3. b \in Flags /\ \A c \in Flags \ {b} : rxb[b] < rxb[c]
    BY <2>1, <2>2 DEF OldestNext, Flags, Buffer
  <2>4. frame' = rxb[b] /\ Flags' = Flags \ {b} /\ \A c \in Flags' : rxb'[c] = rxb[c]
    BY <2>2, <2>3, <1>2 DEF Flags
  <2>5. \A f : New(f)' <=> New(f)
    BY <1>2 DEF New
  <2>6. WorkerSound'
    BY <2>1, <2>3, <2>4, <2>5, <1>2 DEF WorkerSound, OldestNext
  <2>7. CASE Flags = Buffer
    <3>1. read_rx0' = ~read_rx0 /\ Flags' = Buffer \ {b}
      BY <2>2, <2>4, <2>7, <1>2 DEF NextBuffer
    <3>2. \A i \in DOMAIN delivered' : delivered'[i] <= frames'
      BY <2>1, <1>2 DEF OldestNext
    <3>3. \A c \in Flags' : New(rxb[c])'
      BY <2>1, <2>4, <2>5, <3>1 DEF OldestNext
    <3>4. CASE read_rx0
      <4>1. b = 0 /\ ~read_rx0'
        BY <3>1, <3>4
      <4>2. Flags' = {1}
        BY <3>1, <4>1 DEF Buffer
      <4> QED BY <3>2, <3>3, <4>1, <4>2, <2>6 DEF OldestNext
    <3>5. CASE ~read_rx0
      <4>1. b = 1 /\ read_rx0'
        BY <3>1, <3>5
      <4>2. Flags' = {0}
        BY <3>1, <4>1 DEF Buffer
      <4> QED BY <3>2, <3>3, <4>1, <4>2, <2>6 DEF OldestNext
    <3> QED BY <3>4, <3>5
  <2>8. CASE Flags # Buffer
    <3>1. read_rx0' = TRUE /\ Flags' = {}
      BY <2>2, <2>3, <2>4, <2>8, <1>2 DEF NextBuffer, Buffer, Flags
    <3> QED BY <2>1, <3>1, <1>2, <2>6 DEF OldestNext
  <2> QED BY <2>7, <2>8
<1> QED BY <1>1, <1>2, <1>3, <1>4, <1>5 DEF CanIInv, CanTypeOK

(* The frame that is sent on is newer than those sent before it.             *)
LEMMA DeliverInv == ASSUME CanIInv, Deliver PROVE CanIInv'
<1>1. CanTypeOK /\ FifoOrder
  BY DEF CanIInv
<1>2. /\ worker = "send" /\ worker' = "await"
      /\ delivered' = Append(delivered, frame)
      /\ UNCHANGED <<rxb, enabled, read_rx0, active, frame, frames, overflowed, raced>>
  BY DEF Deliver
<1>3. /\ delivered \in Seq(Nat) /\ frame \in Nat
  BY <1>1 DEF CanTypeOK
<1>4. /\ delivered' \in Seq(Nat) /\ Len(delivered) \in Nat
      /\ Len(delivered') = Len(delivered) + 1
      /\ DOMAIN delivered = 1..Len(delivered) /\ DOMAIN delivered' = 1..(Len(delivered) + 1)
      /\ \A i \in 1..Len(delivered) : delivered'[i] = delivered[i] /\ delivered[i] \in Nat
      /\ delivered'[Len(delivered) + 1] = frame
  BY <1>2, <1>3, AppendProperties, LenProperties
<1>5. CanTypeOK'
  BY <1>1, <1>2, <1>4 DEF CanTypeOK
<1>6. ASSUME ~raced PROVE FifoOrder' /\ OldestNext' /\ WorkerSound'
  <2>1. OldestNext /\ WorkerSound /\ New(frame) /\ \A b \in Flags : frame < rxb[b]
    BY <1>2, <1>6 DEF CanIInv, WorkerSound
  <2>2. Flags' = Flags
    BY <1>2 DEF Flags
  <2>3. \A i \in 1..Len(delivered) : delivered[i] < frame
    BY <1>4, <2>1 DEF New
  <2>4. FifoOrder'
    BY <1>1, <1>4, <1>6, <2>3 DEF FifoOrder
  <2>5. ASSUME NEW b \in Flags PROVE New(rxb[b])'
    BY <1>2, <1>4, <2>1, <2>5 DEF OldestNext, New
  <2>6. OldestNext'
    BY <1>2, <1>4, <2>1, <2>2, <2>5 DEF OldestNext, New
  <2>7. WorkerSound'
    BY <1>2 DEF WorkerSound
  <2> QED BY <2>4, <2>6, <2>7
<1>7. raced => FifoOrder'
  BY <1>2 DEF FifoOrder
<1> QED BY <1>1, <1>2, <1>5, <1>6, <1>7 DEF CanIInv, CanTypeOK

LEMMA CanNextInv == CanIInv /\ [CanNext]_canVars => CanIInv'
<1>1. ASSUME CanIInv, UNCHANGED canVars PROVE CanIInv'
  BY <1>1 DEF canVars, CanIInv, CanTypeOK, FifoOrder, OldestNext, WorkerSound, New, Flags
<1> QED BY <1>1, FrameArrivesInv, WorkerWaits, ReadBufferInv, DeliverInv DEF CanNext, WorkerStep

(* The inductive invariant of the receive buffers and rx_can_worker.         *)
THEOREM CanRxInvariant == CanSpec => []CanIInv
BY CanInitInv, CanNextInv, PTL DEF CanSpec

(* Frames are sent on in the order in which they arrived, none twice, as     *)
(* long as none arrives between the reading of the flags and of a buffer.    *)
THEOREM CanRxInOrder == CanSpec => []FifoOrder
<1>1. CanIInv => FifoOrder
  BY DEF CanIInv
<1> QED BY <1>1, CanRxInvariant, PTL
=============================================================================
