---------------------------- MODULE QueueLemmas ----------------------------
(***************************************************************************)
(* Facts about the queues that the components are built from, sequences    *)
(* read at their head and written at their end: which elements they hold,  *)
(* that none is held twice, and in which order they pass from one queue to *)
(* another.                                                                *)
(***************************************************************************)
EXTENDS Integers, Sequences, Functions, SequenceTheorems, TLAPS

(* What append and tail do to the set of the elements of a queue, and to    *)
(* the fact that no element is queued twice.                                *)
LEMMA QueueEmpty == Range(<<>>) = {} /\ IsInjective(<<>>)
BY DEF Range, IsInjective

LEMMA QueueAppend ==
  ASSUME NEW S, NEW s \in Seq(S), NEW e \in S
  PROVE  /\ Range(Append(s, e)) = Range(s) \cup {e}
         /\ IsInjective(s) /\ e \notin Range(s) => IsInjective(Append(s, e))
<1> DEFINE a == Append(s, e)
<1>1. /\ Len(s) \in Nat /\ DOMAIN s = 1..Len(s) /\ DOMAIN a = 1..(Len(s) + 1)
      /\ \A i \in 1..Len(s) : a[i] = s[i]
      /\ a[Len(s) + 1] = e
  BY AppendProperties, LenProperties
<1>2. Range(a) = Range(s) \cup {e}
  <2>1. \A i \in DOMAIN a : i \in DOMAIN s \/ i = Len(s) + 1
    BY <1>1
  <2>2. Len(s) + 1 \in DOMAIN a /\ DOMAIN s \subseteq DOMAIN a
    BY <1>1
  <2> HIDE DEF a
  <2> QED BY <1>1, <2>1, <2>2 DEF Range
<1>3. ASSUME IsInjective(s), e \notin Range(s), NEW i \in DOMAIN a, NEW j \in DOMAIN a,
             a[i] = a[j]
      PROVE  i = j
  <2>1. (i \in DOMAIN s \/ i = Len(s) + 1) /\ (j \in DOMAIN s \/ j = Len(s) + 1)
    BY <1>1
  <2>2. \A k \in DOMAIN s : s[k] # e
    BY <1>3 DEF Range
  <2> HIDE DEF a
  <2> QED BY <1>1, <1>3, <2>1, <2>2 DEF IsInjective
<1> QED BY <1>2, <1>3 DEF IsInjective

LEMMA QueueTail ==
  ASSUME NEW S, NEW s \in Seq(S), s # <<>>
  PROVE  /\ Head(s) \in Range(s)
         /\ Range(Tail(s)) \subseteq Range(s)
         /\ Range(s) = Range(Tail(s)) \cup {Head(s)}
         /\ IsInjective(s) => IsInjective(Tail(s)) /\ Range(Tail(s)) = Range(s) \ {Head(s)}
<1> DEFINE t == Tail(s)
           n == Len(s)
<1>1. /\ n \in Nat \ {0} /\ DOMAIN s = 1..n /\ DOMAIN t = 1..(n - 1)
      /\ \A i \in 1..(n - 1) : t[i] = s[i + 1]
      /\ Head(s) = s[1]
  BY HeadTailProperties, LenProperties, EmptySeq
<1>2. /\ 1 \in DOMAIN s
      /\ \A i \in DOMAIN t : i + 1 \in DOMAIN s
      /\ \A i \in DOMAIN s : i = 1 \/ (i - 1 \in DOMAIN t /\ (i - 1) + 1 = i)
      /\ \A i, j \in DOMAIN t : i + 1 = j + 1 => i = j
      /\ \A i \in DOMAIN t : i + 1 # 1
      /\ \A i \in DOMAIN t : t[i] = s[i + 1]
  BY <1>1
<1> HIDE DEF t
<1>3. Head(s) \in Range(s)
  BY <1>1, <1>2 DEF Range
<1>4. Range(t) \subseteq Range(s)
  BY <1>2 DEF Range
<1>5. Range(s) \subseteq Range(t) \cup {Head(s)}
  <2> SUFFICES ASSUME NEW i \in DOMAIN s PROVE s[i] \in Range(t) \cup {Head(s)}
    BY DEF Range
  <2>1. CASE i = 1
    BY <1>1, <2>1
  <2>2. CASE i - 1 \in DOMAIN t /\ (i - 1) + 1 = i
    BY <1>2, <2>2 DEF Range
  <2> QED BY <1>2, <2>1, <2>2
<1>6. IsInjective(s) => IsInjective(t) /\ Head(s) \notin Range(t)
  <2> SUFFICES ASSUME IsInjective(s) PROVE IsInjective(t) /\ Head(s) \notin Range(t)
    OBVIOUS
  <2>1. ASSUME NEW i \in DOMAIN t, NEW j \in DOMAIN t, t[i] = t[j] PROVE i = j
    BY <1>2, <2>1 DEF IsInjective
  <2>2. ASSUME NEW i \in DOMAIN t, t[i] = Head(s) PROVE FALSE
    BY <1>1, <1>2, <2>2 DEF IsInjective
  <2> QED BY <2>1, <2>2 DEF IsInjective, Range
<1> QED BY <1>3, <1>4, <1>5, <1>6 DEF t

(* An element that moves from the head of one queue to the end of another   *)
(* keeps its place in the two together.                                     *)
LEMMA QueueMove ==
  ASSUME NEW S, NEW s \in Seq(S), NEW q \in Seq(S), q # <<>>
  PROVE  Append(s, Head(q)) \o Tail(q) = s \o q
<1> DEFINE a == Append(s, Head(q)) \o Tail(q)
           b == s \o q
<1>1. Head(q) \in S /\ Tail(q) \in Seq(S) /\ Len(q) \in Nat \ {0} /\ Len(s) \in Nat
      /\ Len(Tail(q)) = Len(q) - 1 /\ \A i \in 1..Len(Tail(q)) : Tail(q)[i] = q[i + 1]
      /\ Head(q) = q[1]
  BY HeadTailProperties, LenProperties, EmptySeq
<1>2. Append(s, Head(q)) \in Seq(S) /\ Len(Append(s, Head(q))) = Len(s) + 1
      /\ \A i \in 1..Len(s) : Append(s, Head(q))[i] = s[i]
      /\ Append(s, Head(q))[Len(s) + 1] = Head(q)
  BY <1>1, AppendProperties
<1>3. a \in Seq(S) /\ b \in Seq(S) /\ Len(a) = Len(b) /\ Len(b) = Len(s) + Len(q)
  BY <1>1, <1>2, ConcatProperties
<1>4. ASSUME NEW i \in 1..Len(b) PROVE a[i] = b[i]
  <2>1. b[i] = IF i <= Len(s) THEN s[i] ELSE q[i - Len(s)]
    BY <1>3, ConcatProperties
  <2>2. a[i] = IF i <= Len(s) + 1 THEN Append(s, Head(q))[i] ELSE Tail(q)[i - (Len(s) + 1)]
    BY <1>1, <1>2, <1>3, ConcatProperties
  <2>3. CASE i <= Len(s)
    BY <1>1, <1>2, <2>1, <2>2, <2>3
  <2>4. CASE i = Len(s) + 1
    BY <1>1, <1>2, <2>1, <2>2, <2>4
  <2>5. CASE i > Len(s) + 1
    <3>1. i - (Len(s) + 1) \in 1..Len(Tail(q)) /\ (i - (Len(s) + 1)) + 1 = i - Len(s)
      BY <1>1, <1>3, <2>5
    <3> QED BY <1>1, <2>1, <2>2, <2>5, <3>1
  <2> QED BY <1>1, <2>3, <2>4, <2>5
<1> QED BY <1>3, <1>4, SeqEqual

(* The head of two queues together is the head of the first.                *)
LEMMA ConcatTail ==
  ASSUME NEW S, NEW s \in Seq(S), NEW q \in Seq(S), s # <<>>
  PROVE  Tail(s \o q) = Tail(s) \o q
<1> DEFINE a == Tail(s \o q)
           b == Tail(s) \o q
           m == Len(s)
           n == Len(q)
<1>1. m \in Nat \ {0} /\ n \in Nat
      /\ Tail(s) \in Seq(S) /\ Len(Tail(s)) = m - 1
      /\ \A i \in 1..(m - 1) : Tail(s)[i] = s[i + 1]
  BY HeadTailProperties, LenProperties, EmptySeq
<1>2. s \o q \in Seq(S) /\ Len(s \o q) = m + n /\ s \o q # <<>>
      /\ \A i \in 1..(m + n) : (s \o q)[i] = IF i <= m THEN s[i] ELSE q[i - m]
  BY <1>1, ConcatProperties, EmptySeq
<1>3. a \in Seq(S) /\ Len(a) = m + n - 1 /\ \A i \in 1..Len(a) : a[i] = (s \o q)[i + 1]
  BY <1>2, HeadTailProperties
<1>4. b \in Seq(S) /\ Len(b) = (m - 1) + n
      /\ \A i \in 1..((m - 1) + n) : b[i] = IF i <= m - 1 THEN Tail(s)[i] ELSE q[i - (m - 1)]
  BY <1>1, ConcatProperties
<1> HIDE DEF a, b, m, n
<1>5. ASSUME NEW i \in 1..Len(a) PROVE a[i] = b[i]
  <2>1. i + 1 \in 1..(m + n) /\ i \in 1..((m - 1) + n)
    BY <1>1, <1>3
  <2>2. a[i] = IF i + 1 <= m THEN s[i + 1] ELSE q[(i + 1) - m]
    BY <1>2, <1>3, <2>1
  <2>3. CASE i <= m - 1
    BY <1>1, <1>4, <2>1, <2>2, <2>3
  <2>4. CASE i > m - 1
    <3>1. (i + 1) - m = i - (m - 1) /\ ~(i + 1 <= m) /\ ~(i <= m - 1)
      BY <1>1, <2>1, <2>4
    <3> QED BY <1>4, <2>1, <2>2, <3>1
  <2> QED BY <1>1, <2>1, <2>3, <2>4
<1>6. Len(a) = Len(b)
  BY <1>1, <1>3, <1>4
<1> QED BY <1>3, <1>4, <1>5, <1>6, SeqEqual DEF a, b

(* Appending to the second of two queues appends to the two together.       *)
LEMMA QueueExtend ==
  ASSUME NEW S, NEW s \in Seq(S), NEW q \in Seq(S), NEW e \in S
  PROVE  s \o Append(q, e) = Append(s \o q, e)
<1>1. <<e>> \in Seq(S) /\ s \o q \in Seq(S)
  BY ConcatProperties
<1> QED BY <1>1, AppendIsConcat, ConcatAssociative

(* Numbers that rise along a queue go on doing so when a larger one is      *)
(* appended.                                                                *)
Rising(s) == \A i \in 1..(Len(s) - 1) : s[i] < s[i + 1]
Below(s, n) == \A i \in 1..Len(s) : s[i] <= n

LEMMA QueueRises ==
  ASSUME NEW s \in Seq(Nat), NEW n \in Nat, Rising(s), Below(s, n)
  PROVE  Rising(Append(s, n + 1)) /\ Below(Append(s, n + 1), n + 1)
<1> DEFINE a == Append(s, n + 1)
<1>1. /\ Len(s) \in Nat /\ Len(a) = Len(s) + 1
      /\ \A i \in 1..Len(s) : a[i] = s[i] /\ s[i] \in Nat
      /\ a[Len(s) + 1] = n + 1
  BY AppendProperties, LenProperties, ElementOfSeq
<1> HIDE DEF a
<1>2. \A i \in 1..Len(a) : a[i] <= n + 1
  BY <1>1 DEF Below
<1>3. ASSUME NEW i \in 1..(Len(a) - 1) PROVE a[i] < a[i + 1]
  <2>1. CASE i = Len(s)
    BY <1>1, <2>1 DEF Below
  <2>2. CASE i \in 1..(Len(s) - 1)
    BY <1>1, <2>2 DEF Rising
  <2> QED BY <1>1, <2>1, <2>2
<1> QED BY <1>2, <1>3 DEF Rising, Below, a
=============================================================================
