--------------------------- MODULE UartTxProofs ---------------------------
(***************************************************************************)
(* Theorems about the transmit server, its notifier and the UART's FIFO,   *)
(* for any printers, messages, buffer, FIFO and trigger level: text leaves *)
(* in order, and while there is text to send the notifier is on its way.   *)
(***************************************************************************)
EXTENDS UartTx, QueueLemmas

LEMMA ToSetIsRange == \A s : ToSet(s) = Range(s)
BY DEF ToSet, Range

(* Text that is queued for transmission, 0 aside, is lo + 1 to hi in order. *)
Line(s, lo, hi) ==
  /\ Range(s) \ {0} = (lo + 1)..hi
  /\ \A i, j \in DOMAIN s : i < j /\ s[i] # 0 /\ s[j] # 0 => s[i] < s[j]

LEMMA InOrderLine ==
  InOrder <=> Line(fifo \o tx_buffer, transmitted, accepted) /\ 0 \notin Range(tx_buffer)
BY ToSetIsRange DEF InOrder, Line

(* The UART transmits the least character of the line, or a 0.              *)
LEMMA LineTail ==
  ASSUME NEW s \in Seq(Nat), s # <<>>, NEW lo \in Nat, NEW hi \in Nat, Line(s, lo, hi)
  PROVE  /\ Line(Tail(s), IF Head(s) = 0 THEN lo ELSE lo + 1, hi)
         /\ Head(s) # 0 => lo < hi
<1> DEFINE t == Tail(s)
           n == Len(s)
<1>1. /\ n \in Nat \ {0} /\ DOMAIN s = 1..n /\ DOMAIN t = 1..(n - 1)
      /\ \A i \in 1..(n - 1) : t[i] = s[i + 1]
      /\ Head(s) = s[1] /\ \A i \in 1..n : s[i] \in Nat
  BY HeadTailProperties, LenProperties, EmptySeq, ElementOfSeq
<1>2. Range(s) = Range(t) \cup {Head(s)}
  BY QueueTail
<1> HIDE DEF t, n
<1>3. \A i, j \in DOMAIN t : i < j /\ t[i] # 0 /\ t[j] # 0 => t[i] < t[j]
  <2> SUFFICES ASSUME NEW i \in DOMAIN t, NEW j \in DOMAIN t, i < j, t[i] # 0, t[j] # 0
               PROVE  t[i] < t[j]
    OBVIOUS
  <2>1. i + 1 \in DOMAIN s /\ j + 1 \in DOMAIN s /\ i + 1 < j + 1
    <3>1. n \in Nat /\ i \in 1..(n - 1) /\ j \in 1..(n - 1)
      BY <1>1
    <3>2. i + 1 \in 1..n /\ j + 1 \in 1..n /\ i + 1 < j + 1
      BY ONLY <3>1, i < j
    <3> QED BY <1>1, <3>2
  <2>2. t[i] = s[i + 1] /\ t[j] = s[j + 1]
    BY <1>1
  <2> QED BY <2>1, <2>2 DEF Line
<1>4. CASE Head(s) = 0
  BY <1>2, <1>3, <1>4 DEF Line, t
<1>5. CASE Head(s) # 0
  <2>1. \A c \in Range(t) : c = 0 \/ c > Head(s)
    <3> SUFFICES ASSUME NEW i \in DOMAIN t, t[i] # 0 PROVE t[i] > Head(s)
      BY DEF Range
    <3>1. i + 1 \in DOMAIN s /\ 1 \in DOMAIN s /\ 1 < i + 1 /\ t[i] = s[i + 1]
      BY <1>1
    <3> QED BY <1>1, <1>5, <3>1 DEF Line
  <2>2. Head(s) \in (lo + 1)..hi
    BY <1>2, <1>5 DEF Line
  <2>3. lo + 1 \in Range(s)
    BY <2>2 DEF Line
  <2>4. Head(s) = lo + 1
    BY <1>2, <2>1, <2>2, <2>3
  <2>5. Range(t) \ {0} = (lo + 2)..hi
    <3>1. \A c \in Range(t) \ {0} : c \in (lo + 1)..hi /\ c > lo + 1
      BY <1>2, <2>1, <2>4 DEF Line
    <3>2. \A c \in (lo + 2)..hi : c \in Range(s) /\ c # Head(s) /\ c # 0
      BY <2>4 DEF Line
    <3> QED BY <1>2, <3>1, <3>2
  <2> QED BY <1>3, <1>5, <2>2, <2>5 DEF Line, t
<1> QED BY <1>4, <1>5

(* A 0 among them changes nothing.                                          *)
LEMMA LineInsert ==
  ASSUME NEW s \in Seq(Nat), NEW q \in Seq(Nat), NEW lo, NEW hi, Line(s \o q, lo, hi)
  PROVE  Line(Append(s, 0) \o q, lo, hi)
<1> DEFINE p == Append(s, 0)
           a == p \o q
           b == s \o q
           m == Len(s)
           n == Len(q)
<1>1. p \in Seq(Nat) /\ m \in Nat /\ n \in Nat /\ Len(p) = m + 1
  BY AppendProperties, LenProperties
<1>2. /\ \A i \in 1..m : p[i] = s[i]
      /\ p[m + 1] = 0
  BY AppendProperties
<1>3. /\ a \in Seq(Nat) /\ DOMAIN a = 1..(m + n + 1)
      /\ \A i \in 1..(m + 1) : a[i] = p[i]
      /\ \A i \in (m + 2)..(m + n + 1) : a[i] = q[i - (m + 1)]
  <2>1. a \in Seq(Nat) /\ Len(a) = (m + 1) + n
        /\ \A i \in 1..((m + 1) + n) : a[i] = IF i <= m + 1 THEN p[i] ELSE q[i - (m + 1)]
    BY <1>1, ConcatProperties
  <2>2. DOMAIN a = 1..Len(a)
    BY <2>1, LenProperties
  <2> HIDE DEF a, p, m, n
  <2>3. m \in Nat /\ n \in Nat /\ (m + 1) + n = m + n + 1
    BY <1>1
  <2>4. ASSUME NEW i \in 1..(m + 1) PROVE a[i] = p[i]
    <3>1. i \in 1..((m + 1) + n) /\ i <= m + 1
      BY ONLY <2>3, <2>4
    <3> QED BY ONLY <2>1, <3>1
  <2>5. ASSUME NEW i \in (m + 2)..(m + n + 1) PROVE a[i] = q[i - (m + 1)]
    <3>1. i \in 1..((m + 1) + n) /\ ~(i <= m + 1)
      BY ONLY <2>3, <2>5
    <3> QED BY ONLY <2>1, <3>1
  <2> QED BY ONLY <2>1, <2>2, <2>3, <2>4, <2>5
<1>4. /\ b \in Seq(Nat) /\ DOMAIN b = 1..(m + n)
      /\ \A i \in 1..m : b[i] = s[i]
      /\ \A i \in (m + 1)..(m + n) : b[i] = q[i - m]
  <2>1. b \in Seq(Nat) /\ Len(b) = m + n
        /\ \A i \in 1..(m + n) : b[i] = IF i <= m THEN s[i] ELSE q[i - m]
    BY <1>1, ConcatProperties
  <2>2. DOMAIN b = 1..Len(b)
    BY <2>1, LenProperties
  <2> HIDE DEF b, m, n
  <2>3. m \in Nat /\ n \in Nat
    BY <1>1
  <2>4. ASSUME NEW i \in 1..m PROVE b[i] = s[i]
    <3>1. i \in 1..(m + n) /\ i <= m
      BY ONLY <2>3, <2>4
    <3> QED BY ONLY <2>1, <3>1
  <2>5. ASSUME NEW i \in (m + 1)..(m + n) PROVE b[i] = q[i - m]
    <3>1. i \in 1..(m + n) /\ ~(i <= m)
      BY ONLY <2>3, <2>5
    <3> QED BY ONLY <2>1, <3>1
  <2> QED BY ONLY <2>1, <2>2, <2>4, <2>5
<1> HIDE DEF a, b, m, n, p
<1>5. m \in Nat /\ n \in Nat
  BY <1>1
<1>6. DOMAIN a = 1..(m + n + 1) /\ DOMAIN b = 1..(m + n)
  BY <1>3, <1>4
<1>7. /\ \A i \in 1..m : i \in DOMAIN b /\ a[i] = b[i]
      /\ a[m + 1] = 0 /\ m + 1 \in DOMAIN a
      /\ \A i \in (m + 2)..(m + n + 1) : i - 1 \in DOMAIN b /\ a[i] = b[i - 1]
  <2>1. ASSUME NEW i \in (m + 2)..(m + n + 1) PROVE i - 1 \in DOMAIN b /\ a[i] = b[i - 1]
    <3>1. i - 1 \in (m + 1)..(m + n) /\ (i - 1) - m = i - (m + 1)
      BY ONLY <1>5, <2>1
    <3>2. b[i - 1] = q[(i - 1) - m] /\ a[i] = q[i - (m + 1)]
      BY <1>3, <1>4, <3>1
    <3>3. i - 1 \in 1..(m + n)
      BY ONLY <1>5, <2>1
    <3> QED BY ONLY <1>6, <3>1, <3>2, <3>3
  <2>2. ASSUME NEW i \in 1..m PROVE i \in DOMAIN b /\ a[i] = b[i]
    BY <1>1, <1>2, <1>3, <1>4
  <2>3. a[m + 1] = 0 /\ m + 1 \in DOMAIN a
    BY <1>1, <1>2, <1>3
  <2> QED BY <2>1, <2>2, <2>3
<1>8. \A i \in DOMAIN a : i \in 1..m \/ i = m + 1 \/ i \in (m + 2)..(m + n + 1)
  BY ONLY <1>5, <1>6
<1>9. \A i \in DOMAIN b : \E k \in DOMAIN a : a[k] = b[i]
  <2> SUFFICES ASSUME NEW i \in DOMAIN b PROVE \E k \in DOMAIN a : a[k] = b[i]
    OBVIOUS
  <2>1. CASE i \in 1..m
    <3>1. i \in DOMAIN a
      BY <1>5, <1>6, <2>1
    <3> QED BY <1>7, <2>1, <3>1
  <2>2. CASE i \in (m + 1)..(m + n)
    <3>1. i + 1 \in (m + 2)..(m + n + 1) /\ (i + 1) - 1 = i /\ i + 1 \in DOMAIN a
      BY <1>5, <1>6, <2>2
    <3>2. a[i + 1] = b[(i + 1) - 1]
      BY <1>7, <3>1
    <3> QED BY <3>1, <3>2
  <2> QED BY <1>5, <1>6, <2>1, <2>2
<1>10. Range(a) \ {0} = Range(b) \ {0}
  <2>1. \A i \in DOMAIN a : a[i] = 0 \/ \E k \in DOMAIN b : b[k] = a[i]
    BY <1>7, <1>8
  <2> QED BY <1>9, <2>1 DEF Range
<1>11. ASSUME NEW i \in DOMAIN a, NEW j \in DOMAIN a, i < j, a[i] # 0, a[j] # 0
      PROVE  a[i] < a[j]
  <2>1. \A k, l \in DOMAIN b : k < l /\ b[k] # 0 /\ b[l] # 0 => b[k] < b[l]
    BY DEF Line, b
  <2>2. CASE i \in 1..m /\ j \in 1..m
    BY <1>7, <1>11, <2>1, <2>2
  <2>3. CASE i \in 1..m /\ j \in (m + 2)..(m + n + 1)
    <3>1. i < j - 1
      BY ONLY <1>5, <2>3
    <3> QED BY <1>7, <1>11, <2>1, <2>3, <3>1
  <2>4. CASE i \in (m + 2)..(m + n + 1) /\ j \in (m + 2)..(m + n + 1)
    <3>1. i - 1 < j - 1
      BY <1>1, <1>11, <2>4
    <3> QED BY <1>7, <1>11, <2>1, <2>4, <3>1
  <2>5. ~(i \in (m + 2)..(m + n + 1) /\ j \in 1..m)
    BY <1>1, <1>11
  <2> QED BY <1>7, <1>8, <1>11, <2>2, <2>3, <2>4, <2>5
<1> QED BY <1>10, <1>11 DEF Line, a, b, p

(* New text goes to the end of the line.                                    *)
LEMMA LineAppend ==
  ASSUME NEW s \in Seq(Nat), NEW lo \in Nat, NEW hi \in Nat, NEW n \in Nat, lo <= hi, Line(s, lo, hi)
  PROVE  /\ [i \in 1..n |-> hi + i] \in Seq(Nat)
         /\ Len([i \in 1..n |-> hi + i]) = n
         /\ Line(s \o [i \in 1..n |-> hi + i], lo, hi + n)
<1> DEFINE t == [i \in 1..n |-> hi + i]
           a == s \o t
           m == Len(s)
<1>1. t \in Seq(Nat) /\ Len(t) = n
  <2>1. t \in [1..n -> Nat]
    OBVIOUS
  <2>2. t \in Seq(Nat)
    BY <2>1, SeqDef
  <2> QED BY <2>1, <2>2, LenProperties
<1>2. m \in Nat /\ DOMAIN s = 1..m /\ \A i \in 1..m : s[i] \in Nat
  BY LenProperties, ElementOfSeq
<1>3. /\ a \in Seq(Nat) /\ DOMAIN a = 1..(m + n)
      /\ \A i \in 1..m : a[i] = s[i]
      /\ \A i \in (m + 1)..(m + n) : a[i] = hi + (i - m)
  <2>1. \A i \in 1..n : t[i] = hi + i
    OBVIOUS
  <2> HIDE DEF t
  <2>2. a \in Seq(Nat) /\ Len(a) = m + n
        /\ \A i \in 1..(m + n) : a[i] = IF i <= m THEN s[i] ELSE t[i - m]
    BY <1>1, <1>2, ConcatProperties
  <2>3. DOMAIN a = 1..Len(a)
    BY <2>2, LenProperties
  <2> HIDE DEF a, m
  <2>4. ASSUME NEW i \in (m + 1)..(m + n) PROVE a[i] = hi + (i - m)
    <3>1. i \in 1..(m + n) /\ ~(i <= m) /\ i - m \in 1..n
      BY <1>2
    <3> QED BY <2>1, <2>2, <3>1
  <2> QED BY <1>2, <2>2, <2>3, <2>4
<1> HIDE DEF t, a, m
<1>4. \A i \in 1..m : s[i] # 0 => s[i] \in (lo + 1)..hi
  BY <1>2 DEF Line, Range
<1>5. Range(a) \ {0} = (lo + 1)..(hi + n)
  <2>1. ASSUME NEW i \in DOMAIN a, a[i] # 0 PROVE a[i] \in (lo + 1)..(hi + n)
    <3>1. CASE i <= m
      <4>1. i \in 1..m
        BY <1>2, <1>3, <3>1
      <4> QED BY <1>3, <1>4, <2>1, <4>1
    <3>2. CASE i > m
      <4>1. i \in (m + 1)..(m + n)
        BY <1>2, <1>3, <3>2
      <4> QED BY <1>2, <1>3, <4>1
    <3> QED BY <1>2, <1>3, <3>1, <3>2
  <2>2. ASSUME NEW c \in (lo + 1)..(hi + n) PROVE c \in Range(a) /\ c # 0
    <3>1. CASE c <= hi
      <4>1. c \in Range(s)
        BY <2>2, <3>1 DEF Line
      <4>2. PICK i \in 1..m : s[i] = c
        BY <1>2, <4>1 DEF Range
      <4>3. i \in DOMAIN a /\ a[i] = c
        BY <1>2, <1>3, <4>2
      <4> QED BY <2>2, <4>3 DEF Range
    <3>2. CASE c > hi
      <4> DEFINE k == m + (c - hi)
      <4>1. k \in (m + 1)..(m + n) /\ k \in 1..(m + n) /\ hi + (k - m) = c
        BY <1>2, <2>2, <3>2
      <4> HIDE DEF k
      <4>2. a[k] = c /\ k \in DOMAIN a
        BY <1>3, <4>1
      <4> QED BY <2>2, <4>2 DEF Range
    <3> QED BY <2>2, <3>1, <3>2
  <2> QED BY <2>1, <2>2 DEF Range
<1>6. ASSUME NEW i \in DOMAIN a, NEW j \in DOMAIN a, i < j, a[i] # 0, a[j] # 0
      PROVE  a[i] < a[j]
  <2>1. CASE i \in 1..m /\ j \in 1..m
    BY <1>2, <1>3, <1>6, <2>1 DEF Line
  <2>2. CASE i \in 1..m /\ j \in (m + 1)..(m + n)
    <3>1. a[i] \in (lo + 1)..hi
      BY <1>3, <1>4, <1>6, <2>2
    <3>2. a[j] = hi + (j - m)
      BY <1>3, <2>2
    <3> QED BY ONLY <1>2, <2>2, <3>1, <3>2
  <2>3. CASE i \in (m + 1)..(m + n) /\ j \in (m + 1)..(m + n)
    BY <1>2, <1>3, <1>6, <2>3
  <2>4. i \in Nat /\ j \in Nat /\ 1 <= i /\ j <= m + n
    BY <1>2, <1>3, <1>6
  <2>5. CASE j <= m
    <3>1. i \in 1..m /\ j \in 1..m
      BY ONLY <1>2, <1>6, <2>4, <2>5
    <3> QED BY ONLY <2>1, <3>1
  <2>6. CASE i <= m /\ m < j
    <3>1. i \in 1..m /\ j \in (m + 1)..(m + n)
      BY ONLY <1>2, <1>6, <2>4, <2>6
    <3> QED BY ONLY <2>2, <3>1
  <2>7. CASE m < i
    <3>1. i \in (m + 1)..(m + n) /\ j \in (m + 1)..(m + n)
      BY ONLY <1>2, <1>6, <2>4, <2>7
    <3> QED BY ONLY <2>3, <3>1
  <2> QED BY ONLY <1>2, <2>4, <2>5, <2>6, <2>7
<1> QED BY <1>1, <1>5, <1>6 DEF Line, t, a
-----------------------------------------------------------------------------
(* The state of the queue when a task joins it, and when its first one is   *)
(* received.                                                                *)
LEMMA Joined ==
  ASSUME TypeOK, IsInjective(inbox), NEW t \in Task, t \notin Range(inbox)
  PROVE  /\ Append(inbox, t) \in Seq(Task) /\ IsInjective(Append(inbox, t))
         /\ Range(Append(inbox, t)) = Range(inbox) \cup {t}
BY QueueAppend, AppendProperties DEF TypeOK

LEMMA Received ==
  ASSUME TypeOK, IsInjective(inbox), NEW t, Receive(t)
  PROVE  /\ inbox' \in Seq(Task) /\ t \in Task /\ t \in Range(inbox) /\ IsInjective(inbox')
         /\ Range(inbox') = Range(inbox) \ {t} /\ serving = Nobody /\ serving' = t
BY QueueTail, HeadTailProperties DEF TypeOK, Receive

LEMMA InitIInv == Init => IInv
<1> SUFFICES ASSUME Init PROVE IInv
  OBVIOUS
<1> USE DEF Init
<1>1. TypeOK
  <2>1. <<>> \in Seq(Nat) /\ <<>> \in Seq(Task)
    OBVIOUS
  <2>2. len \in [Printers -> 0..MaxLen]
    BY UartTxAssumption
  <2>3. notifier \in {"runs", "awaits", "woken", "sent"}
    OBVIOUS
  <2> QED BY <2>1, <2>2, <2>3 DEF TypeOK
<1>2. InOrder
  <2>1. fifo \o tx_buffer = <<>> /\ Range(<<>>) = {} /\ DOMAIN <<>> = {}
    BY QueueEmpty, ConcatEmptySeq DEF TypeOK
  <2> QED BY <2>1, InOrderLine DEF Line
<1>3. SendersBlocked /\ NotifierKnown
  BY QueueEmpty, ToSetIsRange, UartTxAssumption DEF SendersBlocked, NotifierKnown
<1>4. RoomComing
  BY UartTxAssumption DEF RoomComing
<1> QED BY <1>1, <1>2, <1>3, <1>4 DEF IInv

(* The UART takes the oldest character, and so keeps the line.              *)
LEMMA TransmitInv == ASSUME IInv, Transmit PROVE IInv'
<1> USE DEF IInv, Transmit, server
<1>1. fifo \in Seq(Nat) /\ tx_buffer \in Seq(Nat) /\ fifo # <<>>
      /\ transmitted \in Nat /\ accepted \in Nat
  BY DEF TypeOK
<1>2. Head(fifo) \in Nat /\ Tail(fifo) \in Seq(Nat) /\ Len(fifo) \in Nat \ {0}
      /\ Len(Tail(fifo)) = Len(fifo) - 1
  BY <1>1, HeadTailProperties, LenProperties, EmptySeq
<1>3. TypeOK'
  BY <1>1, <1>2 DEF TypeOK
<1>4. /\ Line(fifo' \o tx_buffer, transmitted', accepted)
      /\ Head(fifo) # 0 => transmitted < accepted
  <2> DEFINE line == fifo \o tx_buffer
  <2>1. line \in Seq(Nat) /\ line # <<>>
    BY <1>1, ConcatProperties, ConcatSimplifications
  <2>2. Head(line) = Head(fifo)
    <3>1. 1 \in 1..Len(fifo) /\ 1 \in 1..(Len(fifo) + Len(tx_buffer))
      BY <1>1, <1>2, LenProperties
    <3>2. line[1] = fifo[1]
      BY <1>1, <3>1, ConcatProperties
    <3> QED BY <1>1, <2>1, <3>2, HeadTailProperties
  <2>3. Tail(line) = Tail(fifo) \o tx_buffer
    BY <1>1, ConcatTail
  <2>4. Line(line, transmitted, accepted)
    BY InOrderLine
  <2> HIDE DEF line
  <2>5. Line(Tail(line), IF Head(line) = 0 THEN transmitted ELSE transmitted + 1, accepted)
        /\ (Head(line) # 0 => transmitted < accepted)
    BY <1>1, <2>1, <2>4, LineTail
  <2> QED BY <2>2, <2>3, <2>5
<1>5. InOrder'
  BY <1>4, InOrderLine, ToSetIsRange DEF InOrder, Line
<1>6. SendersBlocked' /\ NotifierKnown'
  BY DEF SendersBlocked, NotifierKnown
<1>7. RoomComing'
  <2> DEFINE n == Len(fifo)
  <2>1. n \in Nat \ {0} /\ Len(fifo') = n - 1 /\ n <= FifoSize
        /\ FifoSize \in Nat /\ Trigger \in Nat
    <3>1. FifoSize \in Nat /\ Trigger \in Nat
      BY UartTxAssumption
    <3>2. n <= FifoSize
      BY DEF RoomComing
    <3>3. n \in Nat \ {0} /\ Len(fifo') = n - 1
      BY <1>2
    <3> QED BY <3>1, <3>2, <3>3
  <2>2. ris' = (ris \/ n = Trigger + 1) /\ ris \in BOOLEAN
    BY DEF TypeOK
  <2> HIDE DEF n
  <2>3. ris \/ n > Trigger => ris' \/ Len(fifo') > Trigger
    <3>1. n > Trigger => n = Trigger + 1 \/ n - 1 > Trigger
      BY <2>1
    <3> QED BY <2>1, <2>2, <3>1
  <2>4. Len(fifo') <= FifoSize
    BY <2>1
  <2>5. transmitted' <= accepted
    BY <1>1, <1>4 DEF RoomComing
  <2> QED BY <2>3, <2>4, <2>5 DEF RoomComing, n
<1> QED BY <1>3, <1>5, <1>6, <1>7

(* putc raises the FIFO's level, and lowers the interrupt only above the    *)
(* trigger level.                                                           *)
LEMMA PutcLevel ==
  ASSUME TypeOK, NEW c \in Nat, putc(c), Len(fifo) <= FifoSize
  PROVE  /\ fifo' \in Seq(Nat) /\ Len(fifo') <= FifoSize /\ Len(fifo') = Len(fifo) + 1
         /\ ris' \in BOOLEAN
         /\ ris \/ Len(fifo) > Trigger => ris' \/ Len(fifo') > Trigger
<1>1. fifo \in Seq(Nat) /\ Len(fifo) \in Nat /\ fifo' = Append(fifo, c)
  BY LenProperties DEF TypeOK, putc
<1>2. fifo' \in Seq(Nat) /\ Len(fifo') = Len(fifo) + 1
  BY <1>1, AppendProperties
<1> QED BY <1>1, <1>2, UartTxAssumption DEF TypeOK, putc

LEMMA DebugPutcInv == ASSUME IInv, DebugPutc PROVE IInv'
<1> USE DEF IInv, DebugPutc, server
<1>1. /\ fifo' \in Seq(Nat) /\ Len(fifo') <= FifoSize /\ ris' \in BOOLEAN
      /\ ris \/ Len(fifo) > Trigger => ris' \/ Len(fifo') > Trigger
  BY PutcLevel DEF RoomComing
<1>2. TypeOK'
  BY <1>1 DEF TypeOK
<1>3. InOrder'
  <2>1. Line(fifo' \o tx_buffer, transmitted, accepted)
    BY LineInsert, InOrderLine DEF TypeOK, putc
  <2> QED BY <2>1, InOrderLine, ToSetIsRange DEF InOrder, Line
<1>4. SendersBlocked' /\ NotifierKnown' /\ RoomComing'
  BY <1>1 DEF SendersBlocked, NotifierKnown, RoomComing
<1> QED BY <1>2, <1>3, <1>4

(* The kernel and the notifier. *)
LEMMA NotifierInv == ASSUME IInv, Signal \/ NotifierStep PROVE IInv'
<1> USE DEF IInv, server, uart
<1>1. CASE Signal
  <2>1. TypeOK'
    BY <1>1 DEF Signal, TypeOK
  <2> QED BY <1>1, <2>1 DEF Signal, InOrder, SendersBlocked, NotifierKnown, RoomComing
<1>2. CASE Await
  <2>1. TypeOK'
    BY <1>2 DEF Await, TypeOK
  <2> QED BY <1>2, <2>1 DEF Await, InOrder, SendersBlocked, NotifierKnown, RoomComing
<1>3. CASE SendInterrupt
  <2>1. Notifier \notin Range(inbox) /\ ~can_reply_to_notifier /\ Notifier \in Task
    BY <1>3, ToSetIsRange DEF SendInterrupt, NotifierKnown, Task
  <2>2. inbox' \in Seq(Task) /\ IsInjective(inbox') /\ Range(inbox') = Range(inbox) \cup {Notifier}
    BY <1>3, <2>1, Joined DEF SendInterrupt, SendersBlocked
  <2>3. TypeOK'
    BY <1>3, <2>2 DEF SendInterrupt, TypeOK
  <2>4. SendersBlocked' /\ NotifierKnown'
    BY <1>3, <2>1, <2>2, ToSetIsRange, UartTxAssumption
    DEF SendInterrupt, SendersBlocked, NotifierKnown
  <2> QED BY <1>3, <2>3, <2>4 DEF SendInterrupt, InOrder, RoomComing
<1> QED BY <1>1, <1>2, <1>3 DEF NotifierStep

LEMMA PutsInv == ASSUME IInv, NEW p \in Printers, Puts(p) PROVE IInv'
<1> USE DEF IInv, Puts, uart
<1>1. p \notin Range(inbox) /\ p # serving /\ p \in Task /\ p # Notifier
  BY ToSetIsRange, UartTxAssumption DEF SendersBlocked, Task
<1>2. inbox' \in Seq(Task) /\ IsInjective(inbox') /\ Range(inbox') = Range(inbox) \cup {p}
  BY <1>1, Joined DEF SendersBlocked
<1>3. PICK n \in 1..MaxLen : len' = [len EXCEPT ![p] = n]
  OBVIOUS
<1>4. len' \in [Printers -> 0..MaxLen] /\ \A k \in Printers : len'[k] = IF k = p THEN n ELSE len[k]
  BY <1>3, UartTxAssumption DEF TypeOK
<1>5. TypeOK'
  BY <1>2, <1>4 DEF TypeOK
<1>6. SendersBlocked'
  BY <1>1, <1>2, <1>3, <1>4, ToSetIsRange DEF SendersBlocked
<1>7. NotifierKnown'
  BY <1>1, <1>2, ToSetIsRange DEF NotifierKnown
<1> QED BY <1>5, <1>6, <1>7 DEF InOrder, RoomComing
-----------------------------------------------------------------------------
(* The server. *)
LEMMA ReceiveTextInv == ASSUME IInv, NEW p \in Printers, ReceiveText(p) PROVE IInv'
<1> USE DEF IInv, ReceiveText, uart
<1> DEFINE n == Fits(len[p])
           text == [i \in 1..n |-> accepted + i]
           line == fifo \o tx_buffer
<1>1. /\ inbox' \in Seq(Task) /\ p \in Task /\ p \in Range(inbox) /\ IsInjective(inbox')
      /\ Range(inbox') = Range(inbox) \ {p} /\ serving = Nobody /\ serving' = p
  BY Received DEF SendersBlocked
<1>2. p # Notifier /\ p # Nobody
  BY UartTxAssumption
<1>3. /\ tx_buffer \in Seq(Nat) /\ fifo \in Seq(Nat) /\ accepted \in Nat /\ transmitted \in Nat
      /\ Len(tx_buffer) \in Nat /\ transmitted <= accepted /\ line \in Seq(Nat)
  BY LenProperties, ConcatProperties DEF TypeOK, RoomComing
<1>4. n \in Nat /\ Len(tx_buffer) + n <= TX_BUFFER_SIZE
  <2>1. len[p] \in Nat /\ TX_BUFFER_SIZE \in Nat /\ Len(tx_buffer) <= TX_BUFFER_SIZE
    BY UartTxAssumption DEF TypeOK, RoomComing
  <2> QED BY <1>3, <2>1 DEF Fits
<1>5. tx_buffer' = tx_buffer \o text /\ accepted' = accepted + n
  OBVIOUS
<1> HIDE DEF n
<1>6. text \in Seq(Nat) /\ Len(text) = n /\ Line(line \o text, transmitted, accepted + n)
  <2>1. Line(line, transmitted, accepted)
    BY InOrderLine
  <2> HIDE DEF line
  <2> QED BY <1>3, <1>4, <2>1, LineAppend
<1>7. 0 \notin Range(text)
  BY <1>3, <1>4 DEF Range
<1> HIDE DEF text
<1>8. /\ tx_buffer' \in Seq(Nat) /\ Len(tx_buffer') = Len(tx_buffer) + n
      /\ fifo \o tx_buffer' = line \o text
      /\ Range(tx_buffer') = Range(tx_buffer) \cup Range(text)
  <2>1. tx_buffer \o text \in Seq(Nat) /\ Len(tx_buffer \o text) = Len(tx_buffer) + Len(text)
    BY <1>3, <1>6, ConcatProperties
  <2>2. (fifo \o tx_buffer) \o text = fifo \o (tx_buffer \o text)
    <3>1. tx_buffer \in Seq(Nat) /\ fifo \in Seq(Nat) /\ text \in Seq(Nat)
      BY <1>3, <1>6
    <3> HIDE DEF IInv, ReceiveText
    <3> QED BY ONLY <3>1, ConcatAssociative, SMTT(30)
  <2>3. Range(tx_buffer \o text) = Range(tx_buffer) \cup Range(text)
    BY <1>3, <1>6, RangeConcatenation
  <2> HIDE DEF ReceiveText
  <2> QED BY <1>5, <1>6, <2>1, <2>2, <2>3
<1>9. TypeOK'
  BY <1>1, <1>3, <1>4, <1>5, <1>8 DEF TypeOK
<1>10. InOrder'
  <2>1. Line(fifo' \o tx_buffer', transmitted', accepted')
    BY <1>5, <1>6, <1>8
  <2>2. 0 \notin Range(tx_buffer')
    BY <1>7, <1>8, InOrderLine
  <2> QED BY <2>1, <2>2, ToSetIsRange DEF InOrder, Line
<1>11. SendersBlocked' /\ NotifierKnown'
  BY <1>1, <1>2, ToSetIsRange, UartTxAssumption DEF SendersBlocked, NotifierKnown
<1>12. RoomComing'
  <2>1. transmitted' = transmitted /\ Len(fifo') <= FifoSize
    BY DEF RoomComing
  <2>2. Len(tx_buffer') <= TX_BUFFER_SIZE
    BY <1>4, <1>8
  <2>3. transmitted <= accepted + n
    BY <1>3, <1>4
  <2> QED BY <1>1, <1>2, <1>5, <2>1, <2>2, <2>3 DEF RoomComing
<1> QED BY <1>9, <1>10, <1>11, <1>12

LEMMA ReceiveInterruptInv == ASSUME IInv, ReceiveInterrupt PROVE IInv'
<1> USE DEF IInv, ReceiveInterrupt, uart
<1>1. /\ inbox' \in Seq(Task) /\ Notifier \in Range(inbox) /\ IsInjective(inbox')
      /\ Range(inbox') = Range(inbox) \ {Notifier} /\ serving = Nobody /\ serving' = Notifier
  BY Received DEF SendersBlocked
<1>2. Notifier # Nobody /\ Notifier \in Task /\ Notifier \notin Printers
  BY UartTxAssumption DEF Task
<1>3. TypeOK'
  BY <1>1, <1>2 DEF TypeOK
<1>4. SendersBlocked' /\ NotifierKnown'
  BY <1>1, <1>2, ToSetIsRange DEF SendersBlocked, NotifierKnown
<1> QED BY <1>1, <1>2, <1>3, <1>4 DEF InOrder, RoomComing

LEMMA DrainInv == ASSUME IInv, Drain PROVE IInv'
<1> USE DEF IInv, Drain
<1>1. tx_buffer \in Seq(Nat) /\ tx_buffer # <<>> /\ fifo \in Seq(Nat) /\ serving # Nobody
      /\ tx_buffer' = Tail(tx_buffer) /\ putc(Head(tx_buffer))
  BY DEF TypeOK, Pop
<1>2. Head(tx_buffer) \in Nat /\ Tail(tx_buffer) \in Seq(Nat)
      /\ Len(tx_buffer) \in Nat /\ Len(Tail(tx_buffer)) = Len(tx_buffer) - 1
      /\ Range(Tail(tx_buffer)) \subseteq Range(tx_buffer)
  BY <1>1, HeadTailProperties, LenProperties, QueueTail
<1>3. fifo' \in Seq(Nat) /\ Len(fifo') <= FifoSize /\ ris' \in BOOLEAN
  BY <1>1, <1>2, PutcLevel DEF RoomComing
<1>4. TypeOK'
  BY <1>1, <1>2, <1>3 DEF TypeOK
<1>5. InOrder'
  <2>1. fifo' \o tx_buffer' = fifo \o tx_buffer
    BY <1>1, QueueMove DEF putc
  <2>2. 0 \notin Range(tx_buffer')
    BY <1>1, <1>2, InOrderLine
  <2> QED BY <2>1, <2>2, ToSetIsRange DEF InOrder
<1>6. RoomComing'
  BY <1>1, <1>2, <1>3, UartTxAssumption DEF RoomComing
<1>7. SendersBlocked' /\ NotifierKnown'
  BY DEF SendersBlocked, NotifierKnown
<1> QED BY <1>4, <1>5, <1>6, <1>7

(* When the server is done with a message and text is left, the FIFO is     *)
(* full, and the notifier's reply goes out if it was held back.             *)
LEMMA HandlerEndInv == ASSUME IInv, HandlerEnd PROVE IInv'
<1> USE DEF IInv, HandlerEnd, uart
<1>1. /\ can_reply_to_notifier' = (can_reply_to_notifier /\ tx_buffer = <<>>)
      /\ can_reply_to_notifier /\ tx_buffer # <<>> => notifier' = "runs"
      /\ ~(can_reply_to_notifier /\ tx_buffer # <<>>) => notifier' = notifier
  BY DEF Resumes, Released, TypeOK
<1>2. \A p \in Printers : len'[p] = IF p = serving THEN 0 ELSE len[p]
  BY DEF Answered
<1>3. TypeOK'
  <2>1. len' \in [Printers -> 0..MaxLen]
    BY UartTxAssumption DEF Answered, TypeOK
  <2>2. notifier' \in {"runs", "awaits", "woken", "sent"} /\ can_reply_to_notifier' \in BOOLEAN
    BY <1>1 DEF TypeOK
  <2> QED BY <2>1, <2>2 DEF TypeOK
<1>4. InOrder'
  BY DEF InOrder
<1>5. SendersBlocked'
  BY <1>2, UartTxAssumption DEF SendersBlocked
<1>6. NotifierKnown'
  BY <1>1, UartTxAssumption DEF NotifierKnown
<1>7. RoomComing'
  <2>1. tx_buffer # <<>> => Len(fifo) > Trigger /\ ~can_reply_to_notifier'
    <3>1. FifoSize > Trigger
      BY UartTxAssumption
    <3> QED BY <1>1, <3>1
  <2> QED BY <2>1 DEF RoomComing
<1> QED BY <1>3, <1>4, <1>5, <1>6, <1>7

LEMMA NextIInv == IInv /\ [Next]_vars => IInv'
<1> SUFFICES ASSUME IInv, [Next]_vars PROVE IInv'
  OBVIOUS
<1>1. CASE Transmit
  BY <1>1, TransmitInv
<1>2. CASE DebugPutc
  BY <1>2, DebugPutcInv
<1>3. CASE UartIrq \/ OtherUartIrq \/ NotifierStep
  BY <1>3, NotifierInv DEF UartIrq, OtherUartIrq
<1>4. CASE \E p \in Printers : Puts(p)
  BY <1>4, PutsInv
<1>5. CASE ServerStep
  BY <1>5, ReceiveTextInv, ReceiveInterruptInv, DrainInv, HandlerEndInv DEF ServerStep
<1>6. CASE UNCHANGED vars
  BY <1>6 DEF vars, server, uart, IInv, TypeOK, InOrder, SendersBlocked, NotifierKnown, RoomComing
<1> QED BY <1>1, <1>2, <1>3, <1>4, <1>5, <1>6 DEF Next
-----------------------------------------------------------------------------
(* The inductive invariant of the server, its notifier and the UART.        *)
THEOREM UartTxInvariant == Spec => []IInv
BY InitIInv, NextIInv, PTL DEF Spec

(* What was accepted leaves in the order in which it was, once each,        *)
(* whatever interrupts and debug output come in between.                    *)
THEOREM UartTxInOrder == Spec => []InOrder
<1>1. IInv => InOrder
  BY DEF IInv
<1> QED BY <1>1, UartTxInvariant, PTL

(* A server that waits with text in its buffer has its notifier free, and   *)
(* the interrupt that wakes it unmasked and certain.                        *)
THEOREM UartTxWakeupComing == Spec => []WakeupComing
<1>1. IInv => WakeupComing
  BY DEF IInv, NotifierKnown, RoomComing, WakeupComing
<1> QED BY <1>1, UartTxInvariant, PTL
=============================================================================
