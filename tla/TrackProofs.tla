---------------------------- MODULE TrackProofs ----------------------------
(***************************************************************************)
(* The search for a path, and what trains do on the track with paths.      *)
(*                                                                         *)
(* For every graph, every query and every choice of the nodes that are     *)
(* taken: the search of find_path ends with the cost of a cheapest way.    *)
(*                                                                         *)
(* For every sound track, any number of trains, goals, plans and turns:    *)
(* what a train believes to hold it does hold, it keeps nothing that it    *)
(* does not mean to run over, and the switches on what it holds are as its *)
(* path wants them; a section has one owner at most, and the requests of   *)
(* the trains implement the locks of TrackLocks.                           *)
(*                                                                         *)
(* The invariant speaks of one train at a time (Fits, PcFits, SetFits), so *)
(* that a step of one train leaves those of the others alone (OneTrain).   *)
(***************************************************************************)
EXTENDS ShortestPath, Reservations, FiniteSetTheorems, SequenceTheorems,
        WellFoundedInduction, TLAPS
-----------------------------------------------------------------------------
(* Paths and the operations on them. *)
\* A set of naturals that holds 0 and, with n, n + 1 holds them all: induction
\* over the steps of a recursive function, for the set where it is right.
LEMMA SetInduction ==
  ASSUME NEW S \in SUBSET Nat, 0 \in S, \A n \in S : n + 1 \in S
  PROVE  S = Nat
<1> DEFINE R == OpToRel(<, Nat)
<1>1. IsWellFoundedOn(R, Nat)
  BY NatLessThanWellFounded
<1>2. \A x, y \in Nat : x < y => <<x, y>> \in R
  BY DEF OpToRel
<1> HIDE DEF R
<1>3. SUFFICES ASSUME Nat \ S # {} PROVE FALSE
  OBVIOUS
<1>4. PICK n \in Nat \ S : \A y \in Nat \ S : ~ (<<y, n>> \in R)
  <2>1. Nat \ S \subseteq Nat
    OBVIOUS
  <2> QED BY <1>1, <1>3, <2>1, WFMin
<1>5. n # 0 /\ n - 1 \in Nat /\ n - 1 < n
  BY <1>4
<1>6. n - 1 \in S
  BY <1>2, <1>4, <1>5
<1> QED BY <1>4, <1>5, <1>6

\* Min finds the least of some naturals: the first free item, the first edge.
LEMMA Least ==
  ASSUME NEW S \in SUBSET Nat, S # {}
  PROVE  /\ Min(S) \in S
         /\ \A n \in S : Min(S) <= n
<1> DEFINE R == OpToRel(<, Nat)
<1>1. IsWellFoundedOn(R, Nat)
  BY NatLessThanWellFounded
<1>2. \A x, y \in Nat : x < y => <<x, y>> \in R
  BY DEF OpToRel
<1> HIDE DEF R
<1>3. PICK m \in S : \A n \in S : ~ (<<n, m>> \in R)
  BY <1>1, WFMin
<1>4. ASSUME NEW n \in S PROVE m <= n
  <2>1. m \in Nat /\ n \in Nat /\ ~(n < m)
    BY <1>2, <1>3
  <2> QED BY <2>1
<1> QED BY <1>3, <1>4 DEF Min
-----------------------------------------------------------------------------
\* What ReservationAssumption says of the track.
LEMMA TrackFacts ==
  /\ WellFormed(T)
  /\ \A n \in Nodes(T) : \A e \in Outgoing(T, n) : Rev(T, e.dest) \in Sec[n]
BY ReservationAssumption DEF SoundTrack

\* get_edge of two nodes that are linked: an edge out of the first to the second.
LEMMA EdgeFacts ==
  ASSUME NEW n \in Nodes(T), NEW m, EdgesTo(T, n, m) # {}
  PROVE  /\ m \in Nodes(T)
         /\ \E k \in DOMAIN At(T, n).edge : GetEdge(T, n, m) = At(T, n).edge[k]
         /\ GetEdge(T, n, m).dest = m
         /\ GetEdge(T, n, m).dist \in Nat
         /\ m # Rev(T, n)
         /\ GetEdge(T, n, m) \in Outgoing(T, n)
<1>1. DOMAIN At(T, n).edge \subseteq {1, 2}
  BY TrackFacts DEF WellFormed
<1>2. EdgesTo(T, n, m) \in SUBSET Nat
  BY <1>1 DEF EdgesTo
<1> DEFINE k == Min(EdgesTo(T, n, m))
<1>3. k \in EdgesTo(T, n, m)
  BY <1>2, Least
<1>4. GetEdge(T, n, m) = At(T, n).edge[k]
  BY DEF GetEdge, Min
<1> HIDE DEF k
<1>5. k \in DOMAIN At(T, n).edge /\ m # Rev(T, n) /\ At(T, n).edge[k].dest = m
  BY <1>3 DEF EdgesTo
<1>6. m \in Nodes(T) /\ At(T, n).edge[k].dist \in Nat
  BY <1>5, TrackFacts DEF WellFormed
<1> QED BY <1>4, <1>5, <1>6 DEF Outgoing

\* The edge that comes back.
LEMMA EdgeBack ==
  ASSUME NEW n \in Nodes(T), NEW m, EdgesTo(T, n, m) # {}
  PROVE  /\ Rev(T, m) \in Nodes(T) /\ Rev(T, n) \in Nodes(T)
         /\ EdgesTo(T, Rev(T, m), Rev(T, n)) # {}
         /\ Sec[Rev(T, m)] = Sec[n]
         /\ GetEdge(T, n, m).rev[1] = Rev(T, m)
         /\ At(T, Rev(T, m)).edge[GetEdge(T, n, m).rev[2] + 1].dist \in Nat
         /\ Rev(T, Rev(T, m)) = m /\ Rev(T, Rev(T, n)) = n
<1> DEFINE e == GetEdge(T, n, m)
<1>1. /\ m \in Nodes(T) /\ e.dest = m /\ m # Rev(T, n) /\ e \in Outgoing(T, n)
      /\ \E k \in DOMAIN At(T, n).edge : e = At(T, n).edge[k]
  BY EdgeFacts
<1> HIDE DEF e
<1>2. /\ Rev(T, m) \in Nodes(T) /\ Rev(T, n) \in Nodes(T)
      /\ Rev(T, Rev(T, m)) = m /\ Rev(T, Rev(T, n)) = n
  BY <1>1, TrackFacts DEF WellFormed
<1>3. /\ e.rev[1] = Rev(T, m)
      /\ e.rev[2] + 1 \in DOMAIN At(T, Rev(T, m)).edge
      /\ At(T, Rev(T, m)).edge[e.rev[2] + 1].dest = Rev(T, n)
  BY <1>1, TrackFacts DEF WellFormed
<1>4. At(T, Rev(T, m)).edge[e.rev[2] + 1].dist \in Nat
  BY <1>2, <1>3, TrackFacts DEF WellFormed
<1>5. Rev(T, n) # Rev(T, Rev(T, m))
  BY <1>1, <1>2
<1>6. EdgesTo(T, Rev(T, m), Rev(T, n)) # {}
  BY <1>3, <1>5 DEF EdgesTo
<1>7. Sec[Rev(T, m)] = Sec[n]
  <2>1. Rev(T, m) \in Sec[n]
    BY <1>1, TrackFacts
  <2> QED BY <2>1, ReservationAssumption DEF SoundTrack, Partition, Sec
<1> QED BY <1>2, <1>3, <1>4, <1>6, <1>7 DEF e
-----------------------------------------------------------------------------
\* What each operation does to the items of a path.
LEMMA TrackMax == TRACK_MAX \in Nat \ {0}
BY DEF TRACK_MAX

\* A path, its items and its length.
LEMMA ItemsFacts ==
  ASSUME NEW p \in Path
  PROVE  /\ p = [items |-> p.items, mm |-> p.mm]
         /\ p.items \in Seq(Item) /\ p.mm \in Int
         /\ Len(p.items) \in Nat /\ DOMAIN p.items = 1 .. Len(p.items)
         /\ \A i \in 1 .. Len(p.items) : p.items[i] \in Item
         /\ p.items = <<>> <=> Len(p.items) = 0
<1>1. p = [items |-> p.items, mm |-> p.mm] /\ p.items \in Seq(Item) /\ p.mm \in Int
  BY DEF Path
<1> DEFINE s == p.items
<1> HIDE DEF s
<1>2. s \in Seq(Item)
  BY <1>1 DEF s
<1>3. Len(s) \in Nat /\ DOMAIN s = 1 .. Len(s)
  BY <1>2, LenProperties
<1>4. \A i \in 1 .. Len(s) : s[i] \in Item
  BY <1>2, <1>3, ElementOfSeq
<1>5. s = <<>> <=> Len(s) = 0
  BY <1>2, EmptySeq
<1> QED BY <1>1, <1>3, <1>4, <1>5 DEF s

\* A path is made of any items and any length.
LEMMA PathOfItems ==
  ASSUME NEW s \in Seq(Item), NEW m \in Int
  PROVE  [items |-> s, mm |-> m] \in Path
BY DEF Path

\* All items but the last, and the last.
LEMMA FrontFacts ==
  ASSUME NEW S, NEW s \in Seq(S), s # <<>>
  PROVE  /\ Front(s) \in Seq(S) /\ Len(Front(s)) = Len(s) - 1
         /\ \A i \in 1 .. (Len(s) - 1) : Front(s)[i] = s[i]
         /\ Last(s) = s[Len(s)] /\ Last(s) \in S /\ Len(s) \in Nat \ {0}
<1>1. Len(s) \in Nat \ {0} /\ \A i \in 1 .. Len(s) : s[i] \in S
  BY EmptySeq, ElementOfSeq
<1>2. PICK f \in Seq(S), e \in S : s = Append(f, e)
  BY SequenceEmptyOrAppend
<1>3. /\ Len(f) \in Nat /\ Len(s) = Len(f) + 1
      /\ \A i \in 1 .. Len(f) : s[i] = f[i]
  BY <1>2, AppendProperties, LenProperties
<1>4. Front(s) = f
  <2>1. SubSeq(f \o <<e>>, 1, Len(f)) = f
    <3>1. CASE Len(f) = 0
      <4>1. f = <<>>
        BY <3>1, EmptySeq
      <4>2. SubSeq(f \o <<e>>, 1, Len(f)) = <<>>
        BY <3>1, SubSeqEmpty
      <4> QED BY <4>1, <4>2
    <3>2. CASE Len(f) # 0
      <4>1. 1 \in 1 .. Len(f) /\ Len(f) \in 1 .. Len(f) /\ <<e>> \in Seq(S)
        BY <1>3, <3>2
      <4> QED BY <4>1, SubSeqOfConcat1, SubSeqFull
    <3> QED BY <3>1, <3>2
  <2>2. s = f \o <<e>> /\ Len(s) - 1 = Len(f)
    BY <1>2, <1>3, AppendIsConcat
  <2> QED BY <2>1, <2>2 DEF Front
<1>5. Last(s) = s[Len(s)] /\ Len(s) \in 1 .. Len(s) /\ Len(s) - 1 = Len(f)
  BY <1>1, <1>3 DEF Last
<1> QED BY <1>1, <1>3, <1>4, <1>5

\* Item x as it is at the end of a path, and as it is before node m.
LEMMA BeforeFacts ==
  ASSUME NEW x \in Item, NEW m, EdgesTo(T, x.node, m) # {}
  PROVE  /\ Before(T, x, m) \in Item
         /\ Before(T, x, m).node = x.node /\ Before(T, x, m).has = x.has
         /\ IsBranch(T, x.node) => Before(T, x, m).curved = Curved(T, x.node, m)
<1>1. x.node \in Nodes(T) /\ x.has \in BOOLEAN /\ x.curved \in BOOLEAN
  BY DEF Item
<1>2. GetEdge(T, x.node, m).dist \in Int
  BY <1>1, EdgeFacts
<1>3. Curved(T, x.node, m) \in BOOLEAN
  BY DEF Curved, IsBranch
<1> QED BY <1>1, <1>2, <1>3 DEF Before, Item

End(x) == [x EXCEPT !.dx = 0]

\* An item at the end of a path is the same node, held or not.
LEMMA EndFacts ==
  ASSUME NEW x \in Item
  PROVE  End(x) \in Item /\ End(x).node = x.node /\ End(x).has = x.has
BY DEF Item, End

\* A sequence with two more elements.
LEMMA TwoMore ==
  ASSUME NEW S, NEW f \in Seq(S), NEW z \in S, NEW y \in S, NEW s, s = Append(f, z) \o <<y>>
  PROVE  /\ s \in Seq(S) /\ Len(s) = Len(f) + 2
         /\ \A i \in 1 .. Len(f) : s[i] = f[i]
         /\ s[Len(f) + 1] = z /\ s[Len(f) + 2] = y
<1>1. PICK g : g = Append(f, z)
  OBVIOUS
<1>2. g \in Seq(S) /\ Len(g) = Len(f) + 1 /\ Len(f) \in Nat
  BY <1>1, AppendProperties, LenProperties
<1>3. g[Len(f) + 1] = z /\ \A i \in 1 .. Len(f) : g[i] = f[i]
  BY <1>1, AppendProperties
<1>4. s = Append(g, y)
  BY <1>1, <1>2, AppendIsConcat
<1>5. /\ Append(g, y) \in Seq(S) /\ Len(Append(g, y)) = Len(g) + 1
      /\ \A i \in 1 .. Len(g) : Append(g, y)[i] = g[i]
      /\ Append(g, y)[Len(g) + 1] = y
  BY <1>2, AppendProperties
<1>6. s \in Seq(S) /\ Len(s) = Len(f) + 2 /\ s[Len(f) + 2] = y
  <2>1. Len(g) + 1 = Len(f) + 2
    BY <1>2
  <2> QED BY <1>4, <1>5, <2>1
<1>7. ASSUME NEW i \in 1 .. (Len(f) + 1) PROVE s[i] = g[i]
  BY <1>2, <1>4, <1>5
<1>8. /\ \A i \in 1 .. Len(f) : s[i] = f[i]
      /\ s[Len(f) + 1] = z
  BY <1>2, <1>3, <1>7
<1> QED BY <1>6, <1>8

\* Whether x can follow on p.
Follows(p, x) == EdgesTo(T, p.items[Len(p.items)].node, x.node) # {}

\* push on an empty path.
LEMMA PushEmpty ==
  ASSUME NEW p \in Path, NEW x \in Item, Len(p.items) = 0,
         NEW c, c = Push(T, p, x), NEW y, y = End(x)
  PROVE  c \in Path /\ c.items = <<y>>
<1>1. /\ p = [items |-> p.items, mm |-> p.mm] /\ p.mm \in Int /\ p.items = <<>>
  BY ItemsFacts
<1>3. y \in Item
  BY EndFacts
<1>4. c = [p EXCEPT !.items = <<y>>]
  BY <1>1 DEF Push, End
<1>5. c = [items |-> <<y>>, mm |-> p.mm]
  BY <1>1, <1>4
<1>6. <<y>> \in Seq(Item)
  BY <1>3
<1>7. c \in Path
  BY <1>1, <1>5, <1>6, PathOfItems
<1>8. c.items = <<y>>
  BY <1>5
<1> QED BY <1>7, <1>8

\* push of a node to which no edge leads, or on a full path, does nothing.
LEMMA PushNothing ==
  ASSUME NEW p \in Path, NEW x \in Item, Len(p.items) > 0,
         ~Follows(p, x) \/ Len(p.items) = TRACK_MAX
  PROVE  Push(T, p, x) = p
<1>1. p.items # <<>> /\ Final(p) = p.items[Len(p.items)]
  BY ItemsFacts DEF Final, Last
<1> QED BY <1>1 DEF Push, Follows

\* push of a node to which an edge leads: the item before it learns where it goes on.
LEMMA PushItem ==
  ASSUME NEW p \in Path, NEW x \in Item, NEW n, n = Len(p.items), n > 0, n # TRACK_MAX,
         Follows(p, x), NEW c, c = Push(T, p, x),
         NEW y, y = End(x), NEW z, z = Before(T, p.items[n], x.node)
  PROVE  /\ c \in Path /\ Len(c.items) = n + 1
         /\ \A i \in 1 .. (n - 1) : c.items[i] = p.items[i]
         /\ c.items[n] = z /\ c.items[n + 1] = y
<1>1. /\ p.items \in Seq(Item) /\ p.mm \in Int /\ n \in Nat /\ p.items # <<>>
      /\ p.items[n] \in Item /\ Final(p) = p.items[n]
  BY ItemsFacts DEF Final, Last
<1>2. PICK f : f = Front(p.items)
  OBVIOUS
<1>3. PICK s, d : s = Append(f, z) \o <<y>> /\ d = p.mm - Final(p).dx + z.dx
  OBVIOUS
<1>4. c = [items |-> s, mm |-> d]
  BY <1>1, <1>2, <1>3 DEF Push, Follows, End
<1>5. y \in Item /\ z \in Item
  BY <1>1, EndFacts, BeforeFacts DEF Follows
<1>6. d \in Int
  BY <1>1, <1>3, <1>5 DEF Item
<1>7. f \in Seq(Item) /\ Len(f) = n - 1 /\ \A i \in 1 .. (n - 1) : f[i] = p.items[i]
  BY <1>1, <1>2, FrontFacts
<1>8. /\ s \in Seq(Item) /\ Len(s) = Len(f) + 2
      /\ \A i \in 1 .. Len(f) : s[i] = f[i]
      /\ s[Len(f) + 1] = z /\ s[Len(f) + 2] = y
  <2>1. s = Append(f, z) \o <<y>>
    BY <1>3
  <2> HIDE <1>1, <1>4
  <2> QED BY <1>5, <1>7, <2>1, TwoMore
<1>9. Len(f) + 1 = n /\ Len(f) + 2 = n + 1
  BY <1>1, <1>7
<1>10. c \in Path /\ c.items = s
  BY <1>4, <1>6, <1>8, PathOfItems
<1>11. Len(s) = n + 1 /\ s[n] = z /\ s[n + 1] = y
  BY <1>8, <1>9
<1>12. \A i \in 1 .. (n - 1) : s[i] = p.items[i]
  BY <1>7, <1>8
<1> QED BY <1>10, <1>11, <1>12

Unheld(s) == \A i \in DOMAIN s : ~s[i].has

\* What a push does, whether the path was empty or not, to nodes and flags.
LEMMA PushExact ==
  ASSUME NEW p \in Path, NEW x \in Item, NEW c, c = Push(T, p, x),
         NEW n, n = Len(p.items), n < TRACK_MAX, n > 0 => Follows(p, x)
  PROVE  /\ c \in Path /\ Len(c.items) = n + 1
         /\ \A i \in 1 .. n : /\ c.items[i].node = p.items[i].node
                              /\ c.items[i].has = p.items[i].has
         /\ c.items[n + 1].node = x.node /\ c.items[n + 1].has = x.has
<1>1. PICK y : y = End(x)
  OBVIOUS
<1>2. y.node = x.node /\ y.has = x.has
  BY <1>1, EndFacts
<1>3. n \in Nat
  BY ItemsFacts
<1>4. CASE n = 0
  <2>1. c \in Path /\ c.items = <<y>>
    BY <1>1, <1>4, PushEmpty
  <2> QED BY <1>2, <1>4, <2>1
<1>5. CASE n > 0
  <2>1. PICK z : z = Before(T, p.items[n], x.node)
    OBVIOUS
  <2>2. n # TRACK_MAX /\ Follows(p, x)
    BY <1>3, <1>5, TrackMax
  <2>3. /\ c \in Path /\ Len(c.items) = n + 1
        /\ \A i \in 1 .. (n - 1) : c.items[i] = p.items[i]
        /\ c.items[n] = z /\ c.items[n + 1] = y
    BY <1>1, <1>5, <2>1, <2>2, PushItem
  <2>4. z.node = p.items[n].node /\ z.has = p.items[n].has
    <3>1. p.items[n] \in Item
      BY <1>3, <1>5, ItemsFacts
    <3>2. EdgesTo(T, p.items[n].node, x.node) # {}
      BY <2>2 DEF Follows
    <3>3. PICK w : w = p.items[n]
      OBVIOUS
    <3>4. z.node = w.node /\ z.has = w.has
      BY <2>1, <3>1, <3>2, <3>3, BeforeFacts
    <3> QED BY <3>3, <3>4
  <2>5. ASSUME NEW i \in 1 .. n
        PROVE  c.items[i].node = p.items[i].node /\ c.items[i].has = p.items[i].has
    <3>1. CASE i = n
      BY <2>3, <2>4, <3>1
    <3>2. CASE i # n
      <4>1. i \in 1 .. (n - 1)
        BY <1>3, <3>2
      <4> QED BY <2>3, <4>1
    <3> QED BY <3>1, <3>2
  <2> QED BY <1>2, <2>3, <2>5
<1> QED BY <1>3, <1>4, <1>5

\* push keeps a path linked, and holds nothing that was not held.
LEMMA PushKeeps ==
  ASSUME NEW p \in Path, Linked(p), NEW x \in Item, NEW c, c = Push(T, p, x)
  PROVE  /\ c \in Path /\ Linked(c) /\ Len(c.items) > 0
         /\ Unheld(p.items) /\ ~x.has => Unheld(c.items)
<1>0. PICK n : n = Len(p.items)
  OBVIOUS
<1>1. n \in Nat /\ DOMAIN p.items = 1 .. n /\ n <= TRACK_MAX
  BY <1>0, ItemsFacts DEF Linked
<1>2. CASE n = 0
  <2>1. PICK y : y = End(x)
    OBVIOUS
  <2>2. y.has = x.has
    BY <2>1, EndFacts
  <2>3. c \in Path /\ c.items = <<y>>
    BY <1>0, <1>2, <2>1, PushEmpty
  <2>4. Len(c.items) = 1 /\ DOMAIN c.items = {1} /\ c.items[1] = y
    BY <2>3
  <2>5. Linked(c)
    BY <2>4, TrackMax DEF Linked
  <2> QED BY <2>2, <2>3, <2>4, <2>5 DEF Unheld
<1>3. CASE n > 0 /\ (~Follows(p, x) \/ n = TRACK_MAX)
  BY <1>0, <1>3, PushNothing
<1>4. CASE n > 0 /\ Follows(p, x) /\ n # TRACK_MAX
  <2>1. PICK y, z : y = End(x) /\ z = Before(T, p.items[n], x.node)
    OBVIOUS
  <2>2. /\ c \in Path /\ Len(c.items) = n + 1
        /\ \A i \in 1 .. (n - 1) : c.items[i] = p.items[i]
        /\ c.items[n] = z /\ c.items[n + 1] = y
    BY <1>0, <1>4, <2>1, PushItem
  <2>3. y.node = x.node /\ y.has = x.has
    BY <2>1, EndFacts
  <2>4. p.items[n] \in Item
    BY <1>0, <1>1, <1>4, ItemsFacts
  <2>5. /\ z.node = p.items[n].node /\ z.has = p.items[n].has
        /\ EdgesTo(T, z.node, y.node) # {}
        /\ IsBranch(T, z.node) => z.curved = Curved(T, z.node, y.node)
    <3>1. EdgesTo(T, p.items[n].node, x.node) # {}
      BY <1>0, <1>4 DEF Follows
    <3>2. /\ z.node = p.items[n].node /\ z.has = p.items[n].has
          /\ IsBranch(T, p.items[n].node) => z.curved = Curved(T, p.items[n].node, x.node)
      BY <2>1, <2>4, <3>1, BeforeFacts
    <3> QED BY <2>3, <3>1, <3>2
  <2>6. Linked(c)
    <3>1. Len(c.items) <= TRACK_MAX
      BY <1>1, <1>4, <2>2, TrackMax
    <3>2. ASSUME NEW i \in 1 .. n
          PROVE  /\ EdgesTo(T, c.items[i].node, c.items[i + 1].node) # {}
                 /\ IsBranch(T, c.items[i].node) =>
                      c.items[i].curved = Curved(T, c.items[i].node, c.items[i + 1].node)
      <4>1. CASE i = n
        BY <2>2, <2>5, <4>1
      <4>2. CASE i # n
        <5>1. i \in 1 .. (n - 1) /\ c.items[i] = p.items[i]
          BY <1>1, <2>2, <4>2
        <5>2. c.items[i + 1].node = p.items[i + 1].node
          <6>1. CASE i + 1 = n
            BY <2>2, <2>5, <6>1
          <6>2. CASE i + 1 # n
            <7>1. i + 1 \in 1 .. (n - 1)
              BY <1>1, <5>1, <6>2
            <7> QED BY <2>2, <7>1
          <6> QED BY <6>1, <6>2
        <5> QED BY <1>0, <5>1, <5>2 DEF Linked
      <4> QED BY <4>1, <4>2
    <3>3. Len(c.items) - 1 = n
      BY <1>1, <2>2
    <3> QED BY <3>1, <3>2, <3>3 DEF Linked
  <2>7. ASSUME Unheld(p.items), ~x.has, NEW i \in DOMAIN c.items PROVE ~c.items[i].has
    <3>1. i \in 1 .. (n + 1)
      BY <2>2, ItemsFacts
    <3>2. \A j \in 1 .. n : ~p.items[j].has
      BY <1>1, <2>7 DEF Unheld
    <3>3. CASE i = n + 1
      BY <2>2, <2>3, <2>7, <3>3
    <3>4. CASE i = n
      <4>1. n \in 1 .. n
        BY <1>1, <1>4
      <4> QED BY <2>2, <2>5, <3>2, <3>4, <4>1
    <3>5. CASE i # n /\ i # n + 1
      <4>1. i \in 1 .. (n - 1) /\ i \in 1 .. n
        BY <1>1, <3>1, <3>5
      <4> QED BY <2>2, <3>2, <4>1
    <3> QED BY <3>3, <3>4, <3>5
  <2>8. Len(c.items) > 0
    BY <1>1, <2>2
  <2> QED BY <2>2, <2>6, <2>7, <2>8 DEF Unheld
<1> QED BY <1>0, <1>1, <1>2, <1>3, <1>4

\* The recursion of PushAll.
LEMMA Unfold ==
  ASSUME NEW p, NEW xs, Len(xs) \in Nat
  PROVE  \E f : /\ f[0] = p /\ \A k \in 1 .. Len(xs) : f[k] = Push(T, f[k - 1], xs[k])
                /\ PushAll(T, p, xs) = f[Len(xs)]
<1> DEFINE Is(f, m) == f = [k \in 0 .. m |-> IF k = 0 THEN p ELSE Push(T, f[k - 1], xs[k])]
           S == {m \in Nat : \E f : Is(f, m)}
<1>1. 0 \in S
  <2>1. Is([k \in 0 .. 0 |-> p], 0)
    OBVIOUS
  <2> QED BY <2>1
<1>2. ASSUME NEW m \in S PROVE m + 1 \in S
  <2>1. PICK f : Is(f, m)
    OBVIOUS
  <2> DEFINE g == [k \in 0 .. (m + 1) |-> IF k <= m THEN f[k] ELSE Push(T, f[m], xs[m + 1])]
  <2>2. m \in Nat
    OBVIOUS
  <2>3. Is(g, m + 1)
    <3>1. ASSUME NEW k \in 0 .. (m + 1)
          PROVE  g[k] = IF k = 0 THEN p ELSE Push(T, g[k - 1], xs[k])
      <4>1. CASE k <= m
        BY <2>1, <2>2, <4>1
      <4>2. CASE k = m + 1
        BY <2>1, <2>2, <4>2
      <4> QED BY <2>2, <4>1, <4>2
    <3> QED BY <3>1
  <2> HIDE DEF Is
  <2> QED BY <2>2, <2>3
<1>3. S = Nat
  BY <1>1, <1>2, SetInduction
<1>4. Len(xs) \in S
  BY <1>3
<1>5. PICK f : Is(f, Len(xs))
  BY <1>4
<1> DEFINE c == CHOOSE h : Is(h, Len(xs))
<1>6. Is(c, Len(xs))
  BY <1>5
<1>7. PushAll(T, p, xs) = c[Len(xs)]
  BY DEF PushAll
<1> HIDE DEF c
<1>8. c[0] = p /\ \A k \in 1 .. Len(xs) : c[k] = Push(T, c[k - 1], xs[k])
  BY <1>6
<1> QED BY <1>7, <1>8

\* However many items are pushed.
LEMMA PushAllKeeps ==
  ASSUME NEW p \in Path, Linked(p), NEW xs \in Seq(Item), NEW c, c = PushAll(T, p, xs)
  PROVE  /\ c \in Path /\ Linked(c)
         /\ Len(p.items) > 0 \/ Len(xs) > 0 => Len(c.items) > 0
         /\ Unheld(p.items) /\ Unheld(xs) => Unheld(c.items)
<1>1. Len(xs) \in Nat /\ DOMAIN xs = 1 .. Len(xs) /\ \A i \in 1 .. Len(xs) : xs[i] \in Item
  BY LenProperties, ElementOfSeq
<1>2. PICK f : /\ f[0] = p /\ \A k \in 1 .. Len(xs) : f[k] = Push(T, f[k - 1], xs[k])
               /\ c = f[Len(xs)]
  BY <1>1, Unfold
<1> DEFINE Good(k) == /\ f[k] \in Path /\ Linked(f[k])
                      /\ Len(p.items) > 0 \/ k > 0 => Len(f[k].items) > 0
                      /\ Unheld(p.items) /\ Unheld(xs) => Unheld(f[k].items)
           S == {k \in Nat : k <= Len(xs) => Good(k)}
<1>3. 0 \in S
  BY <1>2
<1>4. ASSUME NEW k \in S PROVE k + 1 \in S
  <2>1. SUFFICES ASSUME k + 1 <= Len(xs) PROVE Good(k + 1)
    OBVIOUS
  <2>2. k \in Nat /\ k + 1 \in 1 .. Len(xs) /\ k <= Len(xs) /\ (k + 1) - 1 = k
    BY <1>1, <2>1
  <2>3. Good(k)
    BY <2>2
  <2>4. f[k + 1] = Push(T, f[k], xs[k + 1]) /\ xs[k + 1] \in Item
    BY <1>1, <1>2, <2>2
  <2>5. /\ f[k + 1] \in Path /\ Linked(f[k + 1]) /\ Len(f[k + 1].items) > 0
        /\ Unheld(f[k].items) /\ ~xs[k + 1].has => Unheld(f[k + 1].items)
    BY <2>3, <2>4, PushKeeps
  <2>6. Unheld(xs) => ~xs[k + 1].has
    BY <1>1, <2>2 DEF Unheld
  <2> QED BY <2>3, <2>5, <2>6
<1> HIDE DEF Good
<1>5. S = Nat
  BY <1>3, <1>4, SetInduction
<1>6. Good(Len(xs))
  BY <1>1, <1>5
<1> QED BY <1>2, <1>6 DEF Good

\* Items that follow on one another and fit are all pushed.
LEMMA PushAllExact ==
  ASSUME NEW p \in Path, NEW xs \in Seq(Item), Len(p.items) + Len(xs) <= TRACK_MAX,
         Len(p.items) > 0 /\ Len(xs) > 0 =>
           EdgesTo(T, p.items[Len(p.items)].node, xs[1].node) # {},
         \A i \in 1 .. (Len(xs) - 1) : EdgesTo(T, xs[i].node, xs[i + 1].node) # {}
  PROVE  /\ PushAll(T, p, xs) \in Path
         /\ Len(PushAll(T, p, xs).items) = Len(p.items) + Len(xs)
         /\ \A i \in 1 .. Len(p.items) :
              /\ PushAll(T, p, xs).items[i].node = p.items[i].node
              /\ PushAll(T, p, xs).items[i].has = p.items[i].has
         /\ \A j \in 1 .. Len(xs) :
              /\ PushAll(T, p, xs).items[Len(p.items) + j].node = xs[j].node
              /\ PushAll(T, p, xs).items[Len(p.items) + j].has = xs[j].has
<1>0. PICK n, c : n = Len(p.items) /\ c = PushAll(T, p, xs)
  OBVIOUS
<1>1. /\ Len(xs) \in Nat /\ \A i \in 1 .. Len(xs) : xs[i] \in Item
      /\ n \in Nat
  BY <1>0, LenProperties, ElementOfSeq, ItemsFacts
<1>2. PICK f : /\ f[0] = p /\ \A k \in 1 .. Len(xs) : f[k] = Push(T, f[k - 1], xs[k])
               /\ c = f[Len(xs)]
  BY <1>0, <1>1, Unfold
<1> DEFINE Good(k) ==
             /\ f[k] \in Path /\ Len(f[k].items) = n + k
             /\ \A i \in 1 .. n : /\ f[k].items[i].node = p.items[i].node
                                  /\ f[k].items[i].has = p.items[i].has
             /\ \A j \in 1 .. k : /\ f[k].items[n + j].node = xs[j].node
                                  /\ f[k].items[n + j].has = xs[j].has
           S == {k \in Nat : k <= Len(xs) => Good(k)}
<1>3. 0 \in S
  BY <1>0, <1>1, <1>2
<1>4. ASSUME NEW k \in S PROVE k + 1 \in S
  <2>1. SUFFICES ASSUME k + 1 <= Len(xs) PROVE Good(k + 1)
    OBVIOUS
  <2>2. k \in Nat /\ k + 1 \in 1 .. Len(xs) /\ k <= Len(xs) /\ (k + 1) - 1 = k
    BY <1>1, <2>1
  <2>3. Good(k)
    BY <2>2
  <2>4. f[k + 1] = Push(T, f[k], xs[k + 1]) /\ xs[k + 1] \in Item
    BY <1>1, <1>2, <2>2
  <2>5. n + k > 0 => Follows(f[k], xs[k + 1])
    <3>1. CASE k = 0
      <4>1. f[k] = p /\ n + k = n /\ Len(xs) > 0 /\ k + 1 = 1
        BY <1>1, <1>2, <2>2, <3>1
      <4> QED BY <1>0, <4>1 DEF Follows
    <3>2. CASE k > 0
      <4>1. k \in 1 .. (Len(xs) - 1) /\ k \in 1 .. k
        BY <1>1, <2>2, <3>2
      <4>2. f[k].items[n + k].node = xs[k].node
        BY <2>3, <4>1
      <4> QED BY <2>3, <4>1, <4>2 DEF Follows
    <3> QED BY <2>2, <3>1, <3>2
  <2>6. n + k < TRACK_MAX
    BY <1>0, <1>1, <2>2, TrackMax
  <2>0. PICK m : m = n + k
    OBVIOUS
  <2>7. /\ f[k + 1] \in Path /\ Len(f[k + 1].items) = m + 1
        /\ \A i \in 1 .. m : /\ f[k + 1].items[i].node = f[k].items[i].node
                             /\ f[k + 1].items[i].has = f[k].items[i].has
        /\ f[k + 1].items[m + 1].node = xs[k + 1].node
        /\ f[k + 1].items[m + 1].has = xs[k + 1].has
    <3>1. /\ f[k] \in Path /\ m = Len(f[k].items) /\ m < TRACK_MAX
          /\ m > 0 => Follows(f[k], xs[k + 1])
      BY <2>0, <2>3, <2>5, <2>6
    <3>2. PICK q, x, c1 : q = f[k] /\ x = xs[k + 1] /\ c1 = f[k + 1]
      OBVIOUS
    <3>3. /\ q \in Path /\ m = Len(q.items) /\ m < TRACK_MAX /\ (m > 0 => Follows(q, x))
          /\ x \in Item /\ c1 = Push(T, q, x)
      BY <2>4, <3>1, <3>2
    <3>4. /\ c1 \in Path /\ Len(c1.items) = m + 1
          /\ \A i \in 1 .. m : c1.items[i].node = q.items[i].node /\ c1.items[i].has = q.items[i].has
          /\ c1.items[m + 1].node = x.node /\ c1.items[m + 1].has = x.has
      BY <3>3, PushExact
    <3> QED BY <3>2, <3>4
  <2>8. ASSUME NEW i \in 1 .. n
        PROVE  /\ f[k + 1].items[i].node = p.items[i].node
               /\ f[k + 1].items[i].has = p.items[i].has
    <3>1. i \in 1 .. m
      BY <1>1, <2>0, <2>2
    <3> QED BY <2>3, <2>7, <3>1
  <2>9. ASSUME NEW j \in 1 .. (k + 1)
        PROVE  /\ f[k + 1].items[n + j].node = xs[j].node
               /\ f[k + 1].items[n + j].has = xs[j].has
    <3>1. CASE j = k + 1
      <4>1. n + j = m + 1
        BY <1>1, <2>0, <2>2, <3>1
      <4> QED BY <2>7, <3>1, <4>1
    <3>2. CASE j # k + 1
      <4>1. j \in 1 .. k /\ n + j \in 1 .. m
        BY <1>1, <2>0, <2>2, <3>2
      <4> QED BY <2>3, <2>7, <4>1
    <3> QED BY <3>1, <3>2
  <2>10. Len(f[k + 1].items) = n + (k + 1)
    <3>1. m + 1 = n + (k + 1)
      BY <1>1, <2>0, <2>2
    <3> QED BY <2>7, <3>1
  <2> QED BY <2>7, <2>8, <2>9, <2>10
<1> HIDE DEF Good
<1>5. S = Nat
  BY <1>3, <1>4, SetInduction
<1>6. Good(Len(xs))
  BY <1>1, <1>5
<1> QED BY <1>0, <1>2, <1>6 DEF Good
-----------------------------------------------------------------------------
\* A function on 1 .. n is a sequence of length n.
LEMMA FunctionSeq ==
  ASSUME NEW S, NEW n \in Nat, NEW f \in [1 .. n -> S]
  PROVE  f \in Seq(S) /\ Len(f) = n /\ DOMAIN f = 1 .. n
<1>1. f \in Seq(S)
  BY SeqDef
<1>2. Len(f) \in Nat /\ DOMAIN f = 1 .. Len(f)
  BY <1>1, LenProperties
<1>3. 1 .. n = 1 .. Len(f)
  BY <1>2
<1>4. n = Len(f)
  <2>1. n <= Len(f)
    <3>1. CASE n = 0
      BY <1>2, <3>1
    <3>2. CASE n > 0
      <4>1. n \in 1 .. n
        BY <3>2
      <4>2. n \in 1 .. Len(f)
        BY <1>3, <4>1
      <4> QED BY <4>2
    <3> QED BY <3>1, <3>2
  <2>2. Len(f) <= n
    <3>1. CASE Len(f) = 0
      BY <3>1
    <3>2. CASE Len(f) > 0
      <4>1. Len(f) \in 1 .. Len(f)
        BY <1>2, <3>2
      <4>2. Len(f) \in 1 .. n
        BY <1>3, <4>1
      <4> QED BY <4>2
    <3> QED BY <1>2, <3>1, <3>2
  <2> QED BY <1>2, <2>1, <2>2
<1> QED BY <1>1, <1>4

\* A path node is made of any node of the track, and not held.
LEMMA NodeFacts ==
  ASSUME NEW n \in Nodes(T)
  PROVE  PathNode(n) \in Item /\ PathNode(n).node = n /\ ~PathNode(n).has
BY DEF PathNode, Item

\* The empty path.
LEMMA EmptyFacts ==
  /\ EmptyPath \in Path /\ Linked(EmptyPath)
  /\ EmptyPath.items = <<>> /\ Len(EmptyPath.items) = 0 /\ Unheld(EmptyPath.items)
<1>1. EmptyPath.items = <<>> /\ EmptyPath.mm = 0
  BY DEF EmptyPath
<1>2. EmptyPath \in Path
  BY EmptySeq DEF EmptyPath, Path
<1>3. Len(EmptyPath.items) = 0 /\ DOMAIN EmptyPath.items = {}
  BY <1>1
<1>4. Linked(EmptyPath)
  BY <1>3, TrackMax DEF Linked
<1> QED BY <1>1, <1>2, <1>3, <1>4 DEF Unheld

\* The path along a sequence of nodes is linked and not held.
LEMMA PathOfFacts ==
  ASSUME NEW w \in Seq(Nodes(T))
  PROVE  /\ PathOf(w) \in Path /\ Linked(PathOf(w)) /\ Unheld(PathOf(w).items)
         /\ Len(w) > 0 => Len(PathOf(w).items) > 0
<1>1. PICK xs : xs = [i \in DOMAIN w |-> PathNode(w[i])]
  OBVIOUS
<1>2. Len(w) \in Nat /\ DOMAIN w = 1 .. Len(w) /\ \A i \in 1 .. Len(w) : w[i] \in Nodes(T)
  BY LenProperties, ElementOfSeq
<1>3. xs \in [1 .. Len(w) -> Item] /\ \A i \in 1 .. Len(w) : ~xs[i].has
  BY <1>1, <1>2, NodeFacts
<1>4. xs \in Seq(Item) /\ Len(xs) = Len(w) /\ DOMAIN xs = 1 .. Len(w)
  BY <1>2, <1>3, FunctionSeq
<1>5. Unheld(xs)
  BY <1>3, <1>4 DEF Unheld
<1>6. PICK c : c = PushAll(T, EmptyPath, xs)
  OBVIOUS
<1>7. c \in Path /\ Linked(c) /\ Unheld(c.items) /\ (Len(xs) > 0 => Len(c.items) > 0)
  BY <1>4, <1>5, <1>6, EmptyFacts, PushAllKeeps
<1> QED BY <1>1, <1>4, <1>6, <1>7 DEF PathOf

\* The ways are sequences of nodes.
LEMMA WaysFacts ==
  ASSUME NEW s \in Nodes(T), NEW w \in Ways[s]
  PROVE  w \in Seq(Nodes(T)) /\ Len(w) > 0
<1> DEFINE Further(v) == {Append(v, e.dest) : e \in Outgoing(T, Last(v))}
           New(v) == \A i \in 2 .. (Len(v) - 1) : v[i] # Last(v)
           After(V, k) == {v \in UNION {Further(u) : u \in {x \in V : k = 2 \/ Last(x) # s}} : New(v)}
           Is(f, m) == f = [k \in 1 .. m |-> IF k = 1 THEN {<<s>>} ELSE After(f[k - 1], k)]
           N == Len(T) + 1
           S == {m \in Nat : \E f : Is(f, m)}
           WW == {v \in Seq(Nodes(T)) : Len(v) > 0}
<1>1. N \in Nat
  <2>1. T \in Seq(Range(T))
    BY ReservationAssumption DEF SoundTrack
  <2> QED BY <2>1, LenProperties
<1>2. 0 \in S
  <2>1. Is([k \in 1 .. 0 |-> {}], 0)
    OBVIOUS
  <2> QED BY <2>1
<1>3. ASSUME NEW m \in S PROVE m + 1 \in S
  <2>1. PICK f : Is(f, m)
    OBVIOUS
  <2> HIDE DEF After
  <2> DEFINE g == [k \in 1 .. (m + 1) |-> IF k <= m THEN f[k]
                                          ELSE IF k = 1 THEN {<<s>>} ELSE After(f[m], k)]
  <2>2. m \in Nat
    OBVIOUS
  <2>3. Is(g, m + 1)
    <3>1. ASSUME NEW k \in 1 .. (m + 1)
          PROVE  g[k] = IF k = 1 THEN {<<s>>} ELSE After(g[k - 1], k)
      <4>1. CASE k = 1
        BY <2>1, <2>2, <4>1
      <4>3. CASE k <= m /\ k # 1
        <5>1. k \in 1 .. m /\ k - 1 \in 1 .. m /\ k - 1 <= m /\ k - 1 \in 1 .. (m + 1)
          BY <2>2, <4>3
        <5>2. g[k] = f[k] /\ g[k - 1] = f[k - 1]
          BY <4>3, <5>1
        <5>3. f[k] = After(f[k - 1], k)
          BY <2>1, <4>3, <5>1
        <5> QED BY <4>3, <5>2, <5>3
      <4>2. CASE k = m + 1 /\ k # 1
        BY <2>1, <2>2, <4>2
      <4> QED BY <2>2, <4>1, <4>2, <4>3
    <3> QED BY <3>1
  <2> HIDE DEF Is
  <2> QED BY <2>2, <2>3
<1>4. S = Nat
  BY <1>2, <1>3, SetInduction
<1>5. PICK f : Is(f, N)
  BY <1>1, <1>4
<1> DEFINE c == CHOOSE h : Is(h, N)
<1>6. Is(c, N)
  BY <1>5
<1>7. Ways[s] = UNION {c[k] : k \in 2 .. N}
  BY DEF Ways
<1> HIDE DEF c
<1>8. ASSUME NEW V \in SUBSET WW, NEW k PROVE After(V, k) \subseteq WW
  <2>1. ASSUME NEW u \in V, NEW e \in Outgoing(T, Last(u)) PROVE Append(u, e.dest) \in WW
    <3>1. u \in Seq(Nodes(T)) /\ u # <<>>
      BY EmptySeq
    <3>2. Last(u) \in Nodes(T)
      BY <3>1, FrontFacts
    <3>3. e.dest \in Nodes(T)
      BY <3>2, TrackFacts DEF WellFormed, Outgoing
    <3> QED BY <3>1, <3>3, AppendProperties, LenProperties
  <2> QED BY <2>1
<1> DEFINE R == {m \in Nat : m \in 1 .. N => c[m] \subseteq WW}
<1> HIDE DEF After, WW, N
<1>9. 0 \in R
  OBVIOUS
<1>10. ASSUME NEW m \in R PROVE m + 1 \in R
  <2>1. m \in Nat
    OBVIOUS
  <2>2. SUFFICES ASSUME m + 1 \in 1 .. N PROVE c[m + 1] \subseteq WW
    BY <2>1
  <2>3. CASE m = 0
    <3>1. c[m + 1] = {<<s>>}
      BY <1>6, <2>2, <2>3
    <3>2. <<s>> \in WW
      BY DEF WW
    <3> QED BY <3>1, <3>2
  <2>4. CASE m # 0
    <3>0. m \in 1 .. N /\ m + 1 # 1 /\ (m + 1) - 1 = m
      BY <1>1, <2>1, <2>2, <2>4
    <3>1. c[m + 1] = After(c[m], m + 1)
      BY <1>6, <2>2, <3>0
    <3>2. c[m] \in SUBSET WW
      BY <3>0
    <3> QED BY <1>8, <3>1, <3>2
  <2> QED BY <2>3, <2>4
<1>11. R = Nat
  BY <1>9, <1>10, SetInduction
<1>12. \A k \in 2 .. N : c[k] \subseteq WW
  <2>1. ASSUME NEW k \in 2 .. N PROVE k \in R /\ k \in 1 .. N
    BY <1>1, <1>11
  <2> QED BY <2>1
<1>13. w \in WW
  BY <1>7, <1>12
<1> QED BY <1>13 DEF WW

\* What find_path finds is a path, linked, not empty and not held.
LEMMA FindPathFacts ==
  ASSUME NEW s \in Nodes(T), NEW g, NEW p \in FindPath(s, g)
  PROVE  p \in Path /\ Linked(p) /\ Unheld(p.items) /\ Len(p.items) > 0
<1>1. PICK w \in Ways[s] : p = PathOf(w)
  BY DEF FindPath
<1> QED BY <1>1, WaysFacts, PathOfFacts
-----------------------------------------------------------------------------
\* pop drops the first item.
LEMMA PopFacts ==
  ASSUME NEW p \in Path, Linked(p), Len(p.items) > 0
  PROVE  /\ Pop(p) \in Path /\ Linked(Pop(p)) /\ Len(Pop(p).items) = Len(p.items) - 1
         /\ \A i \in 1 .. (Len(p.items) - 1) : Pop(p).items[i] = p.items[i + 1]
<1>0. PICK n, c : n = Len(p.items) /\ c = Pop(p)
  OBVIOUS
<1>1. p.items \in Seq(Item) /\ p.items # <<>> /\ p.mm \in Int /\ n \in Nat
  BY <1>0, ItemsFacts
<1>2. PICK s, d : s = Tail(p.items) /\ d = p.mm - First(p).dx
  OBVIOUS
<1>3. c = [items |-> s, mm |-> d]
  BY <1>0, <1>1, <1>2 DEF Pop
<1>4. /\ s \in Seq(Item) /\ Len(s) = n - 1 /\ Head(p.items) \in Item
      /\ \A i \in 1 .. Len(s) : s[i] = p.items[i + 1]
  BY <1>0, <1>1, <1>2, HeadTailProperties
<1>5. d \in Int
  BY <1>1, <1>2, <1>4 DEF First, Item
<1>6. c \in Path /\ c.items = s
  BY <1>3, <1>4, <1>5, PathOfItems
<1>7. Linked(c)
  <2>1. Len(s) <= TRACK_MAX
    BY <1>0, <1>1, <1>4, TrackMax DEF Linked
  <2>2. ASSUME NEW i \in 1 .. (Len(s) - 1)
        PROVE  /\ EdgesTo(T, s[i].node, s[i + 1].node) # {}
               /\ IsBranch(T, s[i].node) => s[i].curved = Curved(T, s[i].node, s[i + 1].node)
    <3>1. i \in 1 .. Len(s) /\ i + 1 \in 1 .. Len(s) /\ i + 1 \in 1 .. (n - 1)
      BY <1>1, <1>4
    <3>2. s[i] = p.items[i + 1] /\ s[i + 1] = p.items[(i + 1) + 1]
      BY <1>4, <3>1
    <3> QED BY <1>0, <3>1, <3>2 DEF Linked
  <2> QED BY <1>6, <2>1, <2>2 DEF Linked
<1> QED BY <1>0, <1>4, <1>6, <1>7

\* The first m items are popped.
LEMMA PopNFacts ==
  ASSUME NEW p \in Path, Linked(p), NEW n, n = Len(p.items), NEW m \in 0 .. n,
         NEW c, c = PopN(p, m)
  PROVE  /\ c \in Path /\ Linked(c) /\ Len(c.items) = n - m
         /\ \A i \in 1 .. (n - m) : c.items[i] = p.items[i + m]
<1> DEFINE Is(f, l) == f = [k \in 0 .. l |-> IF k = 0 THEN p ELSE Pop(f[k - 1])]
           S == {l \in Nat : \E f : Is(f, l)}
<1>0. n \in Nat /\ m \in Nat /\ m <= n
  BY ItemsFacts
<1>1. 0 \in S
  <2>1. Is([k \in 0 .. 0 |-> p], 0)
    OBVIOUS
  <2> QED BY <2>1
<1>2. ASSUME NEW l \in S PROVE l + 1 \in S
  <2>1. PICK f : Is(f, l)
    OBVIOUS
  <2> DEFINE g == [k \in 0 .. (l + 1) |-> IF k <= l THEN f[k] ELSE Pop(f[l])]
  <2>2. l \in Nat
    OBVIOUS
  <2>3. Is(g, l + 1)
    <3>1. ASSUME NEW k \in 0 .. (l + 1) PROVE g[k] = IF k = 0 THEN p ELSE Pop(g[k - 1])
      <4>1. CASE k <= l
        BY <2>1, <2>2, <4>1
      <4>2. CASE k = l + 1
        BY <2>1, <2>2, <4>2
      <4> QED BY <2>2, <4>1, <4>2
    <3> QED BY <3>1
  <2> HIDE DEF Is
  <2> QED BY <2>2, <2>3
<1>3. S = Nat
  BY <1>1, <1>2, SetInduction
<1>4. m \in S
  BY <1>0, <1>3
<1>5. PICK f : Is(f, m)
  BY <1>4
<1> DEFINE h == CHOOSE g : Is(g, m)
<1>6. Is(h, m)
  BY <1>5
<1>7. c = h[m]
  BY DEF PopN
<1> HIDE DEF h
<1>8. h[0] = p /\ \A k \in 1 .. m : h[k] = Pop(h[k - 1])
  BY <1>0, <1>6
<1> HIDE DEF Is
<1> DEFINE Good(k) == /\ h[k] \in Path /\ Linked(h[k]) /\ Len(h[k].items) = n - k
                      /\ \A i \in 1 .. (n - k) : h[k].items[i] = p.items[i + k]
           R == {k \in Nat : k <= m => Good(k)}
<1>9. 0 \in R
  BY <1>0, <1>8
<1>10. ASSUME NEW k \in R PROVE k + 1 \in R
  <2>0. k \in Nat /\ k + 1 \in Nat
    OBVIOUS
  <2>1. SUFFICES ASSUME k + 1 <= m PROVE Good(k + 1)
    BY <2>0
  <2>2. k \in Nat /\ k + 1 \in 1 .. m /\ k <= m /\ (k + 1) - 1 = k /\ n - k > 0
    BY <1>0, <2>1
  <2>3. Good(k)
    BY <2>2
  <2>4. h[k + 1] = Pop(h[k])
    BY <1>8, <2>2
  <2>5. PICK l : l = n - k
    OBVIOUS
  <2>6. /\ h[k + 1] \in Path /\ Linked(h[k + 1]) /\ Len(h[k + 1].items) = l - 1
        /\ \A i \in 1 .. (l - 1) : h[k + 1].items[i] = h[k].items[i + 1]
    <3>1. h[k] \in Path /\ Linked(h[k]) /\ Len(h[k].items) = l /\ l > 0
      BY <2>2, <2>3, <2>5
    <3>2. Len(h[k].items) > 0
      BY <3>1
    <3> QED BY <2>4, <3>1, <3>2, PopFacts
  <2>7. l - 1 = n - (k + 1)
    BY <1>0, <2>2, <2>5
  <2>8. ASSUME NEW i \in 1 .. (n - (k + 1)) PROVE h[k + 1].items[i] = p.items[i + (k + 1)]
    <3>1. i \in 1 .. (l - 1) /\ i + 1 \in 1 .. (n - k) /\ (i + 1) + k = i + (k + 1)
      BY <1>0, <2>2, <2>5
    <3> QED BY <2>3, <2>6, <3>1
  <2> QED BY <2>6, <2>7, <2>8
<1> HIDE DEF Good
<1>11. R = Nat
  BY <1>9, <1>10, SetInduction
<1>12. Good(m)
  BY <1>0, <1>11
<1> QED BY <1>7, <1>12 DEF Good

\* pop_back drops the last item.
LEMMA PopBackFacts ==
  ASSUME NEW p \in Path, Len(p.items) > 0
  PROVE  /\ PopBack(p) \in Path /\ Len(PopBack(p).items) = Len(p.items) - 1
         /\ \A i \in 1 .. (Len(p.items) - 1) :
              /\ PopBack(p).items[i].node = p.items[i].node
              /\ PopBack(p).items[i].has = p.items[i].has
              /\ PopBack(p).items[i].curved = p.items[i].curved
<1>0. PICK n, c : n = Len(p.items) /\ c = PopBack(p)
  OBVIOUS
<1>1. p.items \in Seq(Item) /\ p.items # <<>> /\ p.mm \in Int /\ n \in Nat
  BY <1>0, ItemsFacts
<1>2. PICK f : f = Front(p.items)
  OBVIOUS
<1>3. /\ f \in Seq(Item) /\ Len(f) = n - 1 /\ \A i \in 1 .. (n - 1) : f[i] = p.items[i]
      /\ Final(p) \in Item
  BY <1>0, <1>1, <1>2, FrontFacts DEF Final
<1>4. Final(p).dx \in Int
  BY <1>3 DEF Item
<1>5. CASE n = 1
  <2>1. c = [items |-> f, mm |-> p.mm - Final(p).dx]
    BY <1>0, <1>1, <1>2, <1>5 DEF PopBack
  <2>2. c \in Path
    BY <1>1, <1>3, <1>4, <2>1, PathOfItems
  <2>3. c.items = f
    BY <2>1
  <2> QED BY <1>0, <1>3, <1>5, <2>2, <2>3
<1>6. CASE n # 1
  <2>1. PICK k, x, y, s, d :
          /\ k = Len(f) /\ x = f[k] /\ y = [x EXCEPT !.dx = 0]
          /\ s = [f EXCEPT ![Len(f)].dx = 0] /\ d = p.mm - Final(p).dx - x.dx
    OBVIOUS
  <2>2. c = [items |-> s, mm |-> d]
    <3>1. c = [items |-> [Front(p.items) EXCEPT ![Len(Front(p.items))].dx = 0],
               mm |-> p.mm - Final(p).dx - Front(p.items)[Len(Front(p.items))].dx]
      BY <1>0, <1>1, <1>6 DEF PopBack
    <3>2. [Front(p.items) EXCEPT ![Len(Front(p.items))].dx = 0] = s
      BY <1>2, <2>1, Zenon
    <3>3. p.mm - Final(p).dx - Front(p.items)[Len(Front(p.items))].dx = d
      BY <1>2, <2>1, Zenon
    <3> QED BY <3>1, <3>2, <3>3, Zenon
  <2>3. k \in 1 .. Len(f) /\ k = n - 1
    <3>1. k = Len(f)
      BY <2>1
    <3> QED BY <1>1, <1>3, <1>6, <3>1
  <2>4. x \in Item
    BY <1>3, <2>1, <2>3, ElementOfSeq
  <2>5. y \in Item /\ y.node = x.node /\ y.has = x.has /\ y.curved = x.curved
    BY <2>1, <2>4 DEF Item
  <2>6. /\ s \in Seq(Item) /\ Len(s) = Len(f)
        /\ \A j \in 1 .. Len(f) : s[j] = IF j = k THEN y ELSE f[j]
    <3>1. s = [f EXCEPT ![k] = y]
      BY <2>1
    <3> QED BY <1>3, <2>3, <2>5, <3>1, ExceptSeq
  <2>7. d \in Int
    BY <1>1, <1>4, <2>1, <2>4 DEF Item
  <2>8. c \in Path
    BY <2>2, <2>6, <2>7, PathOfItems
  <2>9. c.items = s
    BY <2>2
  <2>10. ASSUME NEW i \in 1 .. (n - 1)
         PROVE  /\ s[i].node = p.items[i].node /\ s[i].has = p.items[i].has
                /\ s[i].curved = p.items[i].curved
    <3>1. p.items[i] = f[i] /\ i \in 1 .. Len(f)
      BY <1>3
    <3>2. CASE i = k
      BY <2>1, <2>5, <2>6, <3>1, <3>2
    <3>3. CASE i # k
      BY <2>6, <3>1, <3>3
    <3> QED BY <3>2, <3>3
  <2> QED BY <1>0, <1>3, <2>6, <2>8, <2>9, <2>10
<1> QED BY <1>0, <1>5, <1>6

\* pop_back keeps the path linked.
LEMMA PopBackLinked ==
  ASSUME NEW p \in Path, Linked(p), Len(p.items) > 0
  PROVE  Linked(PopBack(p))
<1>0. PICK n, c : n = Len(p.items) /\ c = PopBack(p)
  OBVIOUS
<1>1. n \in Nat /\ n <= TRACK_MAX
  BY <1>0, ItemsFacts DEF Linked
<1>2. /\ Len(c.items) = n - 1
      /\ \A i \in 1 .. (n - 1) : /\ c.items[i].node = p.items[i].node
                                 /\ c.items[i].curved = p.items[i].curved
  BY <1>0, PopBackFacts
<1>3. Len(c.items) <= TRACK_MAX
  BY <1>1, <1>2, TrackMax
<1>4. ASSUME NEW i \in 1 .. (Len(c.items) - 1)
      PROVE  /\ EdgesTo(T, c.items[i].node, c.items[i + 1].node) # {}
             /\ IsBranch(T, c.items[i].node) =>
                  c.items[i].curved = Curved(T, c.items[i].node, c.items[i + 1].node)
  <2>1. i \in 1 .. (n - 1) /\ i + 1 \in 1 .. (n - 1)
    BY <1>1, <1>2
  <2> QED BY <1>0, <1>2, <2>1 DEF Linked
<1> QED BY <1>0, <1>3, <1>4 DEF Linked

\* c is p and, from where p ends, q.
Joined(c, p, q) ==
  /\ Len(c.items) = Len(p.items) + Len(q.items) - 1
  /\ \A i \in 1 .. (Len(p.items) - 1) : /\ c.items[i].node = p.items[i].node
                                        /\ c.items[i].has = p.items[i].has
  /\ \A j \in 1 .. Len(q.items) : /\ c.items[Len(p.items) - 1 + j].node = q.items[j].node
                                  /\ c.items[Len(p.items) - 1 + j].has = q.items[j].has
  /\ q.items[1].node = p.items[Len(p.items)].node

\* concat joins two paths where the first ends, or leaves one as it is.
LEMMA ConcatFacts ==
  ASSUME NEW p \in Path, NEW q \in Path, Linked(p), Linked(q)
  PROVE  /\ Concat(T, p, q) \in Path /\ Linked(Concat(T, p, q))
         /\ \/ Concat(T, p, q) = p
            \/ Len(p.items) = 0 /\ Concat(T, p, q) = q
            \/ /\ Len(p.items) > 0 /\ Len(q.items) > 0
               /\ Joined(Concat(T, p, q), p, q)
         /\ Len(p.items) = 0 /\ Len(q.items) > 0 => Concat(T, p, q) = q
<1>1. PICK n, k, c : n = Len(p.items) /\ k = Len(q.items) /\ c = Concat(T, p, q)
  OBVIOUS
<1>2. /\ n \in Nat /\ (p.items = <<>> <=> n = 0)
      /\ k \in Nat /\ (q.items = <<>> <=> k = 0)
      /\ p.items \in Seq(Item) /\ q.items \in Seq(Item)
  BY <1>1, ItemsFacts
<1>3. CASE k = 0
  BY <1>1, <1>2, <1>3 DEF Concat
<1>4. CASE k > 0 /\ n = 0
  BY <1>1, <1>2, <1>4 DEF Concat
<1>5. CASE k > 0 /\ n > 0
  <2>1. Final(p) = p.items[n] /\ First(q) = q.items[1]
    BY <1>1, <1>2, <1>5 DEF Final, First, Last
  <2>2. CASE p.items[n].node # q.items[1].node \/ n + k - 1 > TRACK_MAX
    <3>0. Final(p).node # First(q).node \/ Len(p.items) + Len(q.items) - 1 > TRACK_MAX
      BY <1>1, <2>1, <2>2
    <3>1. c = p
      <4>1. p.items # <<>> /\ q.items # <<>> /\ c = Concat(T, p, q)
        BY <1>1, <1>2, <1>5
      <4> QED BY <3>0, <4>1 DEF Concat
    <3> QED BY <1>1, <1>5, <3>1
  <2>3. CASE ~(p.items[n].node # q.items[1].node \/ n + k - 1 > TRACK_MAX)
    <3>1. c = PushAll(T, PopBack(p), q.items)
      BY <1>1, <1>2, <1>5, <2>1, <2>3 DEF Concat
    <3>2. PICK b, m, xs : b = PopBack(p) /\ m = n - 1 /\ xs = q.items
      OBVIOUS
    <3>3. /\ b \in Path /\ Linked(b) /\ Len(b.items) = m
          /\ \A i \in 1 .. m : /\ b.items[i].node = p.items[i].node
                               /\ b.items[i].has = p.items[i].has
      BY <1>1, <1>5, <3>2, PopBackFacts, PopBackLinked
    <3>4. xs \in Seq(Item) /\ Len(xs) = k /\ m \in Nat /\ xs[1].node = p.items[n].node
      <4>1. xs \in Seq(Item) /\ Len(xs) = k
        BY <1>1, <1>2, <3>2
      <4>2. m \in Nat
        BY <1>2, <1>5, <3>2
      <4>3. xs[1].node = p.items[n].node
        BY <2>3, <3>2
      <4> QED BY <4>1, <4>2, <4>3
    <3>5. m + Len(xs) <= TRACK_MAX
      BY <1>2, <2>3, <3>2, <3>4, TrackMax
    <3>6. m > 0 /\ Len(xs) > 0 => EdgesTo(T, b.items[m].node, xs[1].node) # {}
      <4>1. SUFFICES ASSUME m > 0 PROVE EdgesTo(T, b.items[m].node, xs[1].node) # {}
        OBVIOUS
      <4>2. m \in 1 .. (n - 1) /\ m \in 1 .. m /\ m + 1 = n
        BY <1>2, <3>2, <3>4, <4>1
      <4>3. EdgesTo(T, p.items[m].node, p.items[m + 1].node) # {}
        BY <1>1, <4>2 DEF Linked
      <4> QED BY <3>3, <3>4, <4>2, <4>3
    <3>7. \A i \in 1 .. (Len(xs) - 1) : EdgesTo(T, xs[i].node, xs[i + 1].node) # {}
      BY <1>1, <3>2 DEF Linked
    <3>8. c = PushAll(T, b, xs)
      BY <3>1, <3>2
    <3>9. /\ c \in Path /\ Len(c.items) = m + Len(xs)
          /\ \A i \in 1 .. m : /\ c.items[i].node = b.items[i].node
                               /\ c.items[i].has = b.items[i].has
          /\ \A j \in 1 .. Len(xs) : /\ c.items[m + j].node = xs[j].node
                                     /\ c.items[m + j].has = xs[j].has
      BY <3>3, <3>4, <3>5, <3>6, <3>7, <3>8, PushAllExact
    <3>10. Linked(c)
      BY <3>3, <3>4, <3>8, PushAllKeeps
    <3>11. Joined(c, p, q)
      <4>1. Len(c.items) = n + k - 1
        BY <1>2, <3>2, <3>4, <3>9
      <4>2. ASSUME NEW i \in 1 .. (n - 1)
            PROVE  /\ c.items[i].node = p.items[i].node
                   /\ c.items[i].has = p.items[i].has
        BY <3>2, <3>3, <3>9
      <4>3. ASSUME NEW j \in 1 .. k
            PROVE  /\ c.items[n - 1 + j].node = q.items[j].node
                   /\ c.items[n - 1 + j].has = q.items[j].has
        BY <3>2, <3>4, <3>9
      <4> QED BY <1>1, <2>3, <4>1, <4>2, <4>3 DEF Joined
    <3> QED BY <1>1, <1>5, <3>9, <3>10, <3>11
  <2> QED BY <2>2, <2>3
<1> QED BY <1>2, <1>3, <1>4, <1>5

\* An edge leads from every item of a path to the next.
LEMMA LinkedStep ==
  ASSUME NEW p \in Path, Linked(p), NEW i \in 1 .. (Len(p.items) - 1)
  PROVE  /\ p.items[i].node \in Nodes(T) /\ p.items[i + 1].node \in Nodes(T)
         /\ EdgesTo(T, p.items[i].node, p.items[i + 1].node) # {}
<1>1. Len(p.items) \in Nat
  BY ItemsFacts
<1>2. i \in 1 .. Len(p.items) /\ i + 1 \in 1 .. Len(p.items)
  BY <1>1
<1>3. p.items[i] \in Item /\ p.items[i + 1] \in Item
  BY <1>2, ItemsFacts
<1> QED BY <1>3 DEF Linked, Item

\* The path of items that follow on one another.
LEMMA PushFromEmpty ==
  ASSUME NEW xs \in Seq(Item), Len(xs) <= TRACK_MAX,
         \A i \in 1 .. (Len(xs) - 1) : EdgesTo(T, xs[i].node, xs[i + 1].node) # {}
  PROVE  /\ PushAll(T, EmptyPath, xs) \in Path /\ Linked(PushAll(T, EmptyPath, xs))
         /\ Len(PushAll(T, EmptyPath, xs).items) = Len(xs)
         /\ \A j \in 1 .. Len(xs) : /\ PushAll(T, EmptyPath, xs).items[j].node = xs[j].node
                                    /\ PushAll(T, EmptyPath, xs).items[j].has = xs[j].has
<1>1. PICK p, c : p = EmptyPath /\ c = PushAll(T, p, xs)
  OBVIOUS
<1>2. p \in Path /\ Linked(p) /\ Len(p.items) = 0
  BY <1>1, EmptyFacts
<1>3. Len(xs) \in Nat
  BY LenProperties
<1>4. Len(p.items) + Len(xs) <= TRACK_MAX /\ ~(Len(p.items) > 0)
  BY <1>2, <1>3
<1>5. /\ c \in Path /\ Len(c.items) = Len(p.items) + Len(xs)
      /\ \A j \in 1 .. Len(xs) : /\ c.items[Len(p.items) + j].node = xs[j].node
                                 /\ c.items[Len(p.items) + j].has = xs[j].has
  <2>1. /\ PushAll(T, p, xs) \in Path
        /\ Len(PushAll(T, p, xs).items) = Len(p.items) + Len(xs)
        /\ \A j \in 1 .. Len(xs) :
             /\ PushAll(T, p, xs).items[Len(p.items) + j].node = xs[j].node
             /\ PushAll(T, p, xs).items[Len(p.items) + j].has = xs[j].has
    BY <1>2, <1>4, PushAllExact
  <2> QED BY <1>1, <2>1
<1>6. Linked(c)
  BY <1>1, <1>2, PushAllKeeps
<1>7. Len(p.items) + Len(xs) = Len(xs) /\ \A j \in 1 .. Len(xs) : Len(p.items) + j = j
  BY <1>2, <1>3
<1> QED BY <1>1, <1>5, <1>6, <1>7

\* A reversed path leads over the other sides of its nodes, and an item is held
\* when the one before it in its new order was.
LEMMA ReversedFacts ==
  ASSUME NEW p \in Path, Linked(p), Len(p.items) > 0
  PROVE  /\ Reversed(T, p) \in Path /\ Linked(Reversed(T, p))
         /\ Len(Reversed(T, p).items) = Len(p.items)
         /\ \A j \in 1 .. Len(p.items) :
              Reversed(T, p).items[j].node = Rev(T, p.items[Len(p.items) - j + 1].node)
         /\ \A j \in 1 .. (Len(p.items) - 1) :
              Reversed(T, p).items[j].has = p.items[Len(p.items) - j].has
         /\ ~Reversed(T, p).items[Len(p.items)].has
<1>1. PICK k, c : k = Len(p.items) /\ c = Reversed(T, p)
  OBVIOUS
<1>2. /\ k \in Nat /\ k > 0 /\ p.items \in Seq(Item) /\ p.items # <<>>
      /\ \A i \in 1 .. k : p.items[i] \in Item
      /\ k <= TRACK_MAX
  BY <1>1, ItemsFacts DEF Linked
<1>3. PICK x : x = PathNode(Rev(T, First(p).node))
  OBVIOUS
<1>4. First(p) = p.items[1] /\ p.items[1].node \in Nodes(T)
  <2>1. First(p) = p.items[1]
    BY <1>2 DEF First
  <2>2. p.items[1] \in Item
    BY <1>2
  <2> QED BY <2>1, <2>2 DEF Item
<1>5. x \in Item /\ x.node = Rev(T, p.items[1].node) /\ ~x.has
  <2>1. Rev(T, p.items[1].node) \in Nodes(T)
    BY <1>4, TrackFacts DEF WellFormed
  <2> QED BY <1>3, <1>4, <2>1, NodeFacts
<1> DEFINE e(i) == GetEdge(T, p.items[k - i].node, p.items[k - i + 1].node).rev
           Back(i) == [node |-> e(i)[1], dx |-> At(T, e(i)[1]).edge[e(i)[2] + 1].dist,
                       curved |-> IsBranch(T, e(i)[1]) /\ e(i)[2] = 1, has |-> p.items[k - i].has]
<1>6. ASSUME NEW i \in 1 .. (k - 1)
      PROVE  /\ Back(i) \in Item
             /\ Back(i).node = Rev(T, p.items[k - i + 1].node) /\ Back(i).has = p.items[k - i].has
             /\ EdgesTo(T, Rev(T, p.items[k - i + 1].node), Rev(T, p.items[k - i].node)) # {}
  <2>1. k - i \in 1 .. (k - 1) /\ k - i \in 1 .. k
    BY <1>2
  <2>2. PICK n, m : n = p.items[k - i].node /\ m = p.items[k - i + 1].node
    OBVIOUS
  <2>3. n \in Nodes(T) /\ m \in Nodes(T) /\ EdgesTo(T, n, m) # {}
    BY <1>1, <2>1, <2>2, LinkedStep
  <2>4. /\ Rev(T, m) \in Nodes(T) /\ EdgesTo(T, Rev(T, m), Rev(T, n)) # {}
        /\ GetEdge(T, n, m).rev[1] = Rev(T, m)
        /\ At(T, Rev(T, m)).edge[GetEdge(T, n, m).rev[2] + 1].dist \in Nat
    BY <2>3, EdgeBack
  <2>5. p.items[k - i].has \in BOOLEAN
    BY <1>2, <2>1 DEF Item
  <2>6. PICK b : b = Back(i)
    OBVIOUS
  <2>7. b.node = Rev(T, m) /\ b.has = p.items[k - i].has
    BY <2>2, <2>4, <2>6
  <2>8. b \in Item
    <3>0. PICK r : r = GetEdge(T, n, m).rev
      OBVIOUS
    <3>4. e(i) = r /\ r[1] = Rev(T, m) /\ At(T, Rev(T, m)).edge[r[2] + 1].dist \in Nat
      BY <2>2, <2>4, <3>0
    <3>1. e(i)[1] = Rev(T, m)
      BY <3>4
    <3>2. At(T, e(i)[1]).edge[e(i)[2] + 1].dist \in Int
      <4>1. At(T, Rev(T, m)).edge[r[2] + 1].dist \in Int
        BY <3>4
      <4> HIDE DEF e
      <4> QED BY <3>4, <4>1, Zenon
    <3>3. (IsBranch(T, e(i)[1]) /\ e(i)[2] = 1) \in BOOLEAN
      BY DEF IsBranch
    <3> HIDE DEF e
    <3> QED BY <2>4, <2>5, <2>6, <3>1, <3>2, <3>3 DEF Item
  <2> QED BY <2>2, <2>4, <2>6, <2>7, <2>8
<1>7. c = PushAll(T, EmptyPath, [i \in 1 .. (k - 1) |-> Back(i)] \o <<x>>)
  BY <1>1, <1>2, <1>3 DEF Reversed
<1>8. PICK ys : ys = [i \in 1 .. (k - 1) |-> Back(i)]
  OBVIOUS
<1>9. PICK xs : xs = ys \o <<x>>
  OBVIOUS
<1>10. c = PushAll(T, EmptyPath, xs)
  BY <1>7, <1>8, <1>9
<1>11. /\ \A i \in 1 .. (k - 1) : /\ ys[i].node = Rev(T, p.items[k - i + 1].node)
                                  /\ ys[i].has = p.items[k - i].has
       /\ ys \in [1 .. (k - 1) -> Item]
  <2> HIDE DEF Back
  <2> QED BY <1>6, <1>8
<1>12. ys \in Seq(Item) /\ Len(ys) = k - 1
  <2>1. k - 1 \in Nat
    BY <1>2
  <2> QED BY <1>11, <2>1, FunctionSeq
<1>13. /\ xs \in Seq(Item) /\ Len(xs) = k
       /\ \A i \in 1 .. (k - 1) : xs[i] = ys[i]
       /\ xs[k] = x
  <2>1. xs = Append(ys, x)
    BY <1>5, <1>9, <1>12, AppendIsConcat
  <2>2. /\ Append(ys, x) \in Seq(Item) /\ Len(Append(ys, x)) = Len(ys) + 1
        /\ \A i \in 1 .. Len(ys) : Append(ys, x)[i] = ys[i]
        /\ Append(ys, x)[Len(ys) + 1] = x
    BY <1>5, <1>12, AppendProperties
  <2>3. Len(ys) + 1 = k
    BY <1>2, <1>12
  <2> QED BY <1>12, <2>1, <2>2, <2>3
<1>14. ASSUME NEW j \in 1 .. k PROVE xs[j].node = Rev(T, p.items[k - j + 1].node)
  <2>1. CASE j = k
    <3>1. k - j + 1 = 1
      BY <1>2, <2>1
    <3> QED BY <1>5, <1>13, <2>1, <3>1
  <2>2. CASE j # k
    <3>1. j \in 1 .. (k - 1)
      BY <1>2, <2>2
    <3> QED BY <1>11, <1>13, <3>1
  <2> QED BY <2>1, <2>2
<1>15. ASSUME NEW j \in 1 .. (Len(xs) - 1) PROVE EdgesTo(T, xs[j].node, xs[j + 1].node) # {}
  <2>1. j \in 1 .. (k - 1) /\ j \in 1 .. k /\ j + 1 \in 1 .. k /\ k - (j + 1) + 1 = k - j
    BY <1>2, <1>13
  <2>2. xs[j].node = Rev(T, p.items[k - j + 1].node) /\ xs[j + 1].node = Rev(T, p.items[k - j].node)
    BY <1>14, <2>1
  <2> QED BY <1>6, <2>1, <2>2
<1>16. Linked(c) /\ c \in Path
  BY <1>10, <1>13, EmptyFacts, PushAllKeeps
<1>17. /\ Len(c.items) = k
       /\ \A j \in 1 .. k : c.items[j].node = xs[j].node /\ c.items[j].has = xs[j].has
  <2>1. Len(xs) <= TRACK_MAX /\ Len(xs) = k
    BY <1>2, <1>13
  <2> QED BY <1>10, <1>13, <1>15, <2>1, PushFromEmpty
<1>18. \A j \in 1 .. (k - 1) : c.items[j].has = p.items[k - j].has
  <2>1. ASSUME NEW j \in 1 .. (k - 1) PROVE c.items[j].has = p.items[k - j].has
    <3>1. j \in 1 .. k
      BY <1>2
    <3> QED BY <1>11, <1>13, <1>17, <3>1
  <2> QED BY <2>1
<1>19. ~c.items[k].has
  <2>1. k \in 1 .. k
    BY <1>2
  <2> QED BY <1>5, <1>13, <1>17, <2>1
<1> QED BY <1>1, <1>14, <1>16, <1>17, <1>18, <1>19

\* A path that was sent and received has its nodes, and nothing of it is held.
LEMMA DecodeFacts ==
  ASSUME NEW p \in Path, Linked(p)
  PROVE  LET c == Decode(T, Encode(p))
         IN  /\ c \in Path /\ Linked(c) /\ Len(c.items) = Len(p.items)
             /\ \A i \in 1 .. Len(p.items) : c.items[i].node = p.items[i].node /\ ~c.items[i].has
<1>1. PICK k, s, c : k = Len(p.items) /\ s = Encode(p) /\ c = Decode(T, s)
  OBVIOUS
<1>2. k \in Nat /\ k <= TRACK_MAX /\ DOMAIN p.items = 1 .. k /\ \A i \in 1 .. k : p.items[i] \in Item
  BY <1>1, ItemsFacts DEF Linked
<1>3. s \in [1 .. k -> Nodes(T)] /\ \A i \in 1 .. k : s[i] = p.items[i].node
  BY <1>1, <1>2 DEF Encode, Item
<1>4. s \in Seq(Nodes(T)) /\ Len(s) = k /\ DOMAIN s = 1 .. k
  BY <1>2, <1>3, FunctionSeq
<1>5. ASSUME NEW i \in 1 .. (k - 1) PROVE EdgesTo(T, s[i], s[i + 1]) # {}
  <2>1. i \in 1 .. k /\ i + 1 \in 1 .. k
    BY <1>2
  <2> QED BY <1>1, <1>3, <2>1, LinkedStep
<1>6. {i \in 1 .. (Len(s) - 1) : EdgesTo(T, s[i], s[i + 1]) = {}} = {}
  BY <1>4, <1>5
<1>7. PICK xs : xs = [i \in DOMAIN s |-> PathNode(s[i])]
  OBVIOUS
<1>8. c = PushAll(T, EmptyPath, xs)
  BY <1>1, <1>6, <1>7 DEF Decode
<1>9. /\ xs \in [1 .. k -> Item]
      /\ \A i \in 1 .. k : xs[i].node = s[i] /\ ~xs[i].has
  BY <1>3, <1>4, <1>7, NodeFacts
<1>10. xs \in Seq(Item) /\ Len(xs) = k /\ DOMAIN xs = 1 .. k
  BY <1>2, <1>9, FunctionSeq
<1>11. Linked(c) /\ c \in Path
  BY <1>8, <1>10, EmptyFacts, PushAllKeeps
<1>12. \A i \in 1 .. (Len(xs) - 1) : EdgesTo(T, xs[i].node, xs[i + 1].node) # {}
  <2>1. ASSUME NEW i \in 1 .. (k - 1) PROVE EdgesTo(T, xs[i].node, xs[i + 1].node) # {}
    <3>1. i \in 1 .. k /\ i + 1 \in 1 .. k
      BY <1>2
    <3> QED BY <1>5, <1>9, <3>1
  <2> QED BY <1>10, <2>1
<1>13. /\ Len(c.items) = k
       /\ \A j \in 1 .. k : c.items[j].node = xs[j].node /\ c.items[j].has = xs[j].has
  <2>1. Len(xs) <= TRACK_MAX /\ Len(xs) = k
    BY <1>2, <1>10
  <2> QED BY <1>8, <1>10, <1>12, <2>1, PushFromEmpty
<1>14. \A i \in 1 .. k : c.items[i].node = p.items[i].node /\ ~c.items[i].has
  BY <1>3, <1>9, <1>13
<1> QED BY <1>1, <1>11, <1>13, <1>14

\* Over what a train holds, in the other direction: the first h items of p.
LEMMA TurnedFacts ==
  ASSUME NEW p \in Path, Linked(p), Len(p.items) > 0, NEW h \in 0 .. (Len(p.items) - 1),
         \A i \in 1 .. Len(p.items) : p.items[i].has <=> i <= h
  PROVE  LET c == HeldPart(Reversed(T, p))
         IN  /\ c \in Path /\ Linked(c)
             /\ h = 0 => Len(c.items) = 0
             /\ h > 0 =>
                  /\ Len(c.items) = h + 1
                  /\ \A j \in 1 .. (h + 1) : c.items[j].node = Rev(T, p.items[h + 2 - j].node)
                  /\ \A j \in 1 .. h : c.items[j].has
                  /\ ~c.items[h + 1].has
<1>1. PICK k, r, c : k = Len(p.items) /\ r = Reversed(T, p) /\ c = HeldPart(r)
  OBVIOUS
<1>2. k \in Nat /\ k > 0 /\ h \in Nat /\ h < k
  BY <1>1, ItemsFacts
<1>3. /\ r \in Path /\ Linked(r) /\ Len(r.items) = k /\ DOMAIN r.items = 1 .. k
      /\ \A j \in 1 .. k : r.items[j].node = Rev(T, p.items[k - j + 1].node)
      /\ \A j \in 1 .. (k - 1) : r.items[j].has = p.items[k - j].has
      /\ ~r.items[k].has
  <2>1. /\ r \in Path /\ Linked(r) /\ Len(r.items) = Len(p.items)
        /\ \A j \in 1 .. Len(p.items) :
             r.items[j].node = Rev(T, p.items[Len(p.items) - j + 1].node)
        /\ \A j \in 1 .. (Len(p.items) - 1) : r.items[j].has = p.items[Len(p.items) - j].has
        /\ ~r.items[Len(p.items)].has
    BY <1>1, ReversedFacts
  <2>2. DOMAIN r.items = 1 .. Len(r.items)
    BY <2>1, ItemsFacts
  <2> QED BY <1>1, <2>1, <2>2
<1>4. PICK H : H = {i \in DOMAIN r.items : r.items[i].has}
  OBVIOUS
<1>5. c = PopN(r, IF H = {} THEN Len(r.items) ELSE Min(H) - 1)
  BY <1>1, <1>4 DEF HeldPart
<1>6. ASSUME NEW j \in 1 .. k PROVE j \in H <=> j >= k - h /\ j < k
  <2>1. CASE j = k
    BY <1>2, <1>3, <1>4, <2>1
  <2>2. CASE j # k
    <3>1. j \in 1 .. (k - 1) /\ k - j \in 1 .. k
      BY <1>2, <2>2
    <3>2. p.items[k - j].has <=> k - j <= h
      BY <1>1, <3>1
    <3>3. j \in H <=> k - j <= h
      BY <1>3, <1>4, <3>1, <3>2
    <3> QED BY <1>2, <3>1, <3>3
  <2> QED BY <2>1, <2>2
<1>7. H \subseteq 1 .. k
  BY <1>3, <1>4
<1>8. CASE h = 0
  <2>1. H = {}
    <3>1. ASSUME NEW j \in H PROVE FALSE
      <4>1. j \in 1 .. k
        BY <1>7
      <4> QED BY <1>2, <1>6, <1>8, <4>1
    <3> QED BY <3>1
  <2>2. c = PopN(r, k) /\ k \in 0 .. k
    BY <1>2, <1>3, <1>5, <2>1
  <2>3. c \in Path /\ Linked(c) /\ Len(c.items) = k - k
    BY <1>3, <2>2, PopNFacts
  <2> QED BY <1>1, <1>2, <1>8, <2>3
<1>9. CASE h > 0
  <2>1. k - h \in 1 .. k
    BY <1>2, <1>9
  <2>2. k - h \in H
    BY <1>2, <1>6, <1>9, <2>1
  <2>3. H \in SUBSET Nat
    BY <1>7
  <2>4. Min(H) \in H /\ Min(H) <= k - h
    BY <2>2, <2>3, Least
  <2>5. Min(H) \in 1 .. k
    BY <1>7, <2>4
  <2>6. Min(H) >= k - h
    BY <1>6, <2>4, <2>5
  <2>7. PICK m : m = k - h - 1
    OBVIOUS
  <2>8. Min(H) - 1 = m /\ m \in 0 .. k /\ k - m = h + 1 /\ m \in Nat
    BY <1>2, <2>4, <2>5, <2>6, <2>7
  <2>9. c = PopN(r, m)
    BY <1>5, <2>2, <2>8
  <2>10. /\ c \in Path /\ Linked(c) /\ Len(c.items) = h + 1
         /\ \A i \in 1 .. (h + 1) : c.items[i] = r.items[i + m]
    <3>1. r \in Path /\ Linked(r) /\ k = Len(r.items) /\ m \in 0 .. k
      BY <1>3, <2>8
    <3>2. /\ c \in Path /\ Linked(c) /\ Len(c.items) = k - m
          /\ \A i \in 1 .. (k - m) : c.items[i] = r.items[i + m]
      BY <2>9, <3>1, PopNFacts
    <3> QED BY <2>8, <3>2
  <2>11. ASSUME NEW j \in 1 .. (h + 1) PROVE c.items[j].node = Rev(T, p.items[h + 2 - j].node)
    <3>1. j + m \in 1 .. k /\ k - (j + m) + 1 = h + 2 - j
      BY <1>2, <2>7, <2>8
    <3> QED BY <1>3, <2>10, <3>1
  <2>12. ASSUME NEW j \in 1 .. h PROVE c.items[j].has
    <3>1. j + m \in 1 .. (k - 1) /\ j \in 1 .. (h + 1) /\ k - (j + m) = h + 1 - j
          /\ h + 1 - j \in 1 .. k /\ h + 1 - j <= h
      BY <1>2, <2>7, <2>8
    <3>2. p.items[h + 1 - j].has
      BY <1>1, <3>1
    <3> QED BY <1>3, <2>10, <3>1, <3>2
  <2>13. ~c.items[h + 1].has
    <3>1. (h + 1) + m = k /\ h + 1 \in 1 .. (h + 1)
      BY <1>2, <2>7
    <3> QED BY <1>3, <2>10, <3>1
  <2> QED BY <1>1, <1>9, <2>10, <2>11, <2>12, <2>13
<1> QED BY <1>2, <1>8, <1>9
-----------------------------------------------------------------------------
(* The invariant, for one train at a time, and the operations that keep it. *)
ResOK(r) ==
  /\ r \in [Nodes(T) -> Train \cup {UNRESERVED}]
  /\ \A n \in Nodes(T) : \A m \in Sec[n] : r[m] = r[n]

\* Every node is in its section, and the nodes of a section have the same.
LEMMA Sections ==
  \A n \in Nodes(T) :
    /\ n \in Sec[n] /\ Sec[n] \subseteq Nodes(T)
    /\ \A m \in Sec[n] : Sec[m] = Sec[n]
<1>1. DOMAIN Sec = Nodes(T)
  BY DEF Sec
<1> QED BY <1>1, ReservationAssumption DEF Partition, SoundTrack
-----------------------------------------------------------------------------
NodeAt(p, i) == p.items[i].node
SecAt(p, i)  == Sec[NodeAt(p, i)]

\* The path p of train t, with the reservations r and the history tw and lf.
Fits(t, p, r, tw, lf) ==
  /\ p \in Path /\ Linked(p)
  /\ \A i \in 1 .. Len(p.items) : p.items[i].has =>
       /\ SecAt(p, i) \in tw \/ r[NodeAt(p, i)] = t
       /\ \A j \in 1 .. Len(p.items) : ~p.items[j].has => i < j
  /\ \A i, j \in 1 .. Len(p.items) : i # j /\ SecAt(p, i) = SecAt(p, j) => SecAt(p, i) \in tw
  /\ \A n \in Nodes(T) : r[n] = t =>
       \/ Sec[n] \in lf
       \/ \E i \in 1 .. Len(p.items) :
            /\ SecAt(p, i) = Sec[n]
            /\ \A j \in 1 .. i : r[NodeAt(p, j)] = t \/ SecAt(p, j) \in tw

\* What t knows of its path at c, with a loop at item a.
PcFits(t, p, r, c, a) ==
  /\ c # "idle" => Len(p.items) > 0
  /\ c = "release" => a \in 1 .. Len(p.items) /\ p.items[a].has
  /\ c = "switch" =>
       /\ a \in 1 .. Len(p.items) /\ p.items[a].has
       /\ \A i \in 1 .. Len(p.items) : p.items[i].has => i <= a
       /\ Wants(p, a) # {}
       /\ r[NodeAt(p, a)] = t
  /\ c = "lost" =>
       \E k \in 1 .. Len(p.items) :
         /\ ~p.items[k].has /\ \A j \in 1 .. (k - 1) : p.items[j].has
         /\ r[NodeAt(p, k)] # t

ExemptAt(p, i, tw) ==
  \/ \E j \in {i - 1, i} : SecAt(p, j) \in tw
  \/ Wants(p, i) = {"straight"} /\ SwitchNum(p, i) > 100

\* The switches cv on what is held of p.
SetFits(p, cv, tw, c, a) ==
  \A i \in 2 .. Len(p.items) : p.items[i].has =>
    \/ Wants(p, i) = {}
    \/ c = "switch" /\ a = i
    \/ ExemptAt(p, i, tw)
    \/ Wants(p, i) = {"curved"} <=> SwitchNum(p, i) \in cv

Good ==
  /\ TypeOK /\ ResOK(res)
  /\ \A t \in Train : /\ Fits(t, path[t], res, twice[t], left[t])
                      /\ PcFits(t, path[t], res, pc[t], at[t])
                      /\ SetFits(path[t], curved, twice[t], pc[t], at[t])
-----------------------------------------------------------------------------
\* The representative of a section has the owner of every node of it.
LEMMA Representative ==
  ASSUME NEW r, ResOK(r), NEW n \in Nodes(T)
  PROVE  /\ (CHOOSE m \in Sec[n] : TRUE) \in Sec[n]
         /\ r[CHOOSE m \in Sec[n] : TRUE] = r[n]
<1>1. (CHOOSE m \in Sec[n] : TRUE) \in Sec[n]
  BY Sections
<1> QED BY <1>1 DEF ResOK

\* Good is IInv, with the parts that speak of one train put together.
LEMMA GoodIsIInv == Good <=> IInv
<1> SUFFICES ASSUME TypeOK, ResOK(res) PROVE Good <=> IInv
  <2>1. TypeOK /\ NoConflict => ResOK(res)
    BY DEF TypeOK, NoConflict, ResOK
  <2> QED BY <2>1 DEF Good, IInv
<1>1. NoConflict
  BY DEF NoConflict, ResOK
<1>2. \A t \in Train : /\ path[t] \in Path /\ path[t].items = Items(t)
                       /\ DOMAIN Items(t) = 1 .. Len(Items(t)) /\ Len(Items(t)) \in Nat
                       /\ (Items(t) = <<>> <=> Len(Items(t)) = 0)
  BY ItemsFacts DEF TypeOK, Items
<1>3. \A t \in Train : \A i \in 1 .. Len(Items(t)) :
        /\ OwnerOf(SecOf(t, i)) = res[Items(t)[i].node]
        /\ Items(t)[i].has \in BOOLEAN
  <2>1. ASSUME NEW t \in Train, NEW i \in 1 .. Len(Items(t))
        PROVE  Items(t)[i].node \in Nodes(T) /\ Items(t)[i].has \in BOOLEAN
    BY <1>2, ItemsFacts DEF Item
  <2> QED BY <2>1, Representative DEF OwnerOf, SecOf
<1>4. \A t \in Train : /\ Held(t) = {i \in 1 .. Len(Items(t)) : Items(t)[i].has}
                       /\ Free(t) = {i \in 1 .. Len(Items(t)) : ~Items(t)[i].has}
  BY <1>2 DEF Held, Free
<1> DEFINE HeldOK(t) == \A i \in Held(t) :
             /\ SecOf(t, i) \in twice[t] \/ OwnerOf(SecOf(t, i)) = t
             /\ \A j \in Free(t) : i < j
           KnownOK(t) == \A i, j \in DOMAIN Items(t) :
             i # j /\ SecOf(t, i) = SecOf(t, j) => SecOf(t, i) \in twice[t]
           AheadOK(t) == \A n \in Nodes(T) : res[n] = t =>
             \/ Sec[n] \in left[t]
             \/ \E i \in DOMAIN Items(t) :
                  /\ SecOf(t, i) = Sec[n]
                  /\ \A j \in 1 .. i : OwnerOf(SecOf(t, j)) = t \/ SecOf(t, j) \in twice[t]
           SetOK(t) == \A i \in Held(t) \ {1} :
             \/ Wants(path[t], i) = {}
             \/ pc[t] = "switch" /\ at[t] = i
             \/ Exempt(t, i)
             \/ Wants(path[t], i) = {"curved"} <=> SwitchNum(path[t], i) \in curved
           PcOK(t) ==
             /\ pc[t] # "idle" => Items(t) # <<>>
             /\ pc[t] = "release" => at[t] \in Held(t)
             /\ pc[t] = "switch" =>
                  /\ at[t] \in Held(t) /\ \A i \in Held(t) : i <= at[t]
                  /\ Wants(path[t], at[t]) # {}
                  /\ OwnerOf(SecOf(t, at[t])) = t
             /\ pc[t] = "lost" => Free(t) # {} /\ OwnerOf(SecOf(t, Next1(t))) # t
<1>5. IInv <=> \A t \in Train : /\ Linked(path[t]) /\ HeldOK(t) /\ KnownOK(t) /\ AheadOK(t)
                                /\ SetOK(t) /\ PcOK(t)
  BY <1>1 DEF IInv, PathsLinked, HeldIsOwned, TwiceKnown, OwnedAhead, SwitchesSet, PcSound
<1>6. ASSUME NEW t \in Train
      PROVE  /\ HeldOK(t) <=> \A i \in 1 .. Len(path[t].items) : path[t].items[i].has =>
                  /\ SecAt(path[t], i) \in twice[t] \/ res[NodeAt(path[t], i)] = t
                  /\ \A j \in 1 .. Len(path[t].items) : ~path[t].items[j].has => i < j
             /\ KnownOK(t) <=> \A i, j \in 1 .. Len(path[t].items) :
                  i # j /\ SecAt(path[t], i) = SecAt(path[t], j) => SecAt(path[t], i) \in twice[t]
  <2>1. \A i : SecOf(t, i) = SecAt(path[t], i) /\ Items(t)[i] = path[t].items[i]
               /\ Items(t)[i].node = NodeAt(path[t], i)
    BY <1>2 DEF SecOf, SecAt, NodeAt, Items
  <2>2. HeldOK(t) <=> \A i \in 1 .. Len(path[t].items) : path[t].items[i].has =>
                  /\ SecAt(path[t], i) \in twice[t] \/ res[NodeAt(path[t], i)] = t
                  /\ \A j \in 1 .. Len(path[t].items) : ~path[t].items[j].has => i < j
    BY <1>2, <1>3, <1>4, <2>1
  <2>3. KnownOK(t) <=> \A i, j \in 1 .. Len(path[t].items) :
                  i # j /\ SecAt(path[t], i) = SecAt(path[t], j) => SecAt(path[t], i) \in twice[t]
    BY <1>2, <2>1
  <2> QED BY <2>2, <2>3
<1>7. ASSUME NEW t \in Train
      PROVE  AheadOK(t) <=> \A n \in Nodes(T) : res[n] = t =>
               \/ Sec[n] \in left[t]
               \/ \E i \in 1 .. Len(path[t].items) :
                    /\ SecAt(path[t], i) = Sec[n]
                    /\ \A j \in 1 .. i : res[NodeAt(path[t], j)] = t \/ SecAt(path[t], j) \in twice[t]
  <2>1. \A i : SecOf(t, i) = SecAt(path[t], i) /\ Items(t)[i].node = NodeAt(path[t], i)
    BY <1>2 DEF SecOf, SecAt, NodeAt, Items
  <2>2. ASSUME NEW i \in 1 .. Len(path[t].items)
        PROVE  \A j \in 1 .. i : OwnerOf(SecOf(t, j)) = res[NodeAt(path[t], j)]
    <3>1. ASSUME NEW j \in 1 .. i PROVE j \in 1 .. Len(Items(t))
      BY <1>2
    <3> QED BY <1>3, <2>1, <3>1
  <2> QED BY <1>2, <2>1, <2>2
<1>8. ASSUME NEW t \in Train
      PROVE  SetOK(t) <=> SetFits(path[t], curved, twice[t], pc[t], at[t])
  <2>1. \A i : SecOf(t, i) = SecAt(path[t], i)
    BY <1>2 DEF SecOf, SecAt, NodeAt, Items
  <2>2. \A i : Exempt(t, i) <=> ExemptAt(path[t], i, twice[t])
    BY <2>1 DEF Exempt, ExemptAt
  <2>3. \A i : i \in Held(t) \ {1} <=> i \in 2 .. Len(path[t].items) /\ path[t].items[i].has
    <3>1. Len(Items(t)) \in Nat /\ path[t].items = Items(t)
      BY <1>2
    <3>2. \A i : i \in (1 .. Len(Items(t))) \ {1} <=> i \in 2 .. Len(Items(t))
      BY <3>1
    <3> QED BY <1>4, <3>1, <3>2
  <2> HIDE <1>2, <1>3, <1>4
  <2> QED BY <2>2, <2>3 DEF SetFits
<1>9. ASSUME NEW t \in Train, HeldOK(t)
      PROVE  PcOK(t) <=> PcFits(t, path[t], res, pc[t], at[t])
  <2>1. \A i : SecOf(t, i) = SecAt(path[t], i) /\ Items(t)[i].node = NodeAt(path[t], i)
    BY <1>2 DEF SecOf, SecAt, NodeAt, Items
  <2>2. (Free(t) # {} /\ OwnerOf(SecOf(t, Next1(t))) # t)
          <=> \E k \in 1 .. Len(path[t].items) :
                /\ ~path[t].items[k].has /\ \A j \in 1 .. (k - 1) : path[t].items[j].has
                /\ res[NodeAt(path[t], k)] # t
    <3>1. ASSUME Free(t) # {}
          PROVE  /\ Next1(t) \in 1 .. Len(path[t].items) /\ ~path[t].items[Next1(t)].has
                 /\ \A j \in 1 .. (Next1(t) - 1) : path[t].items[j].has
                 /\ OwnerOf(SecOf(t, Next1(t))) = res[NodeAt(path[t], Next1(t))]
      <4>1. Free(t) \in SUBSET Nat
        BY <1>4
      <4>2. Next1(t) \in Free(t) /\ \A i \in Free(t) : Next1(t) <= i
        BY <3>1, <4>1, Least DEF Next1
      <4>3. Next1(t) \in 1 .. Len(Items(t)) /\ ~path[t].items[Next1(t)].has
        BY <1>2, <1>4, <4>2
      <4>4. ASSUME NEW j \in 1 .. (Next1(t) - 1) PROVE path[t].items[j].has
        <5>1. j \in 1 .. Len(Items(t)) /\ ~(Next1(t) <= j)
          BY <1>2, <4>3
        <5> QED BY <1>2, <1>4, <4>2, <5>1
      <4> QED BY <1>2, <1>3, <2>1, <4>3, <4>4
    <3>2. ASSUME NEW k \in 1 .. Len(path[t].items), ~path[t].items[k].has,
                 \A j \in 1 .. (k - 1) : path[t].items[j].has, Free(t) # {}
          PROVE  k = Next1(t)
      <4>1. Next1(t) \in 1 .. Len(path[t].items) /\ ~path[t].items[Next1(t)].has
            /\ \A j \in 1 .. (Next1(t) - 1) : path[t].items[j].has
        BY <3>1, <3>2
      <4>2. ~(k < Next1(t))
        <5>1. ASSUME k < Next1(t) PROVE k \in 1 .. (Next1(t) - 1)
          BY <1>2, <4>1, <5>1
        <5> QED BY <3>2, <4>1, <5>1
      <4>3. ~(Next1(t) < k)
        <5>1. ASSUME Next1(t) < k PROVE Next1(t) \in 1 .. (k - 1)
          BY <1>2, <4>1, <5>1
        <5> QED BY <3>2, <4>1, <5>1
      <4> QED BY <1>2, <4>1, <4>2, <4>3
    <3>3. ASSUME NEW k \in 1 .. Len(path[t].items), ~path[t].items[k].has PROVE Free(t) # {}
      BY <1>2, <1>4, <3>3
    <3> QED BY <3>1, <3>2, <3>3
  <2>3. \A a : a \in Held(t) <=> a \in 1 .. Len(path[t].items) /\ path[t].items[a].has
    BY <1>2, <1>4
  <2>4. \A a \in Held(t) : OwnerOf(SecOf(t, a)) = res[NodeAt(path[t], a)]
    BY <1>2, <1>3, <2>1, <2>3
  <2>5. Items(t) # <<>> <=> Len(path[t].items) > 0
    BY <1>2
  <2> DEFINE Lost == Free(t) # {} /\ OwnerOf(SecOf(t, Next1(t))) # t
  <2> HIDE <1>2, <1>3, <1>4, <1>9
  <2>6. PcOK(t) <=>
             /\ pc[t] # "idle" => Items(t) # <<>>
             /\ pc[t] = "release" => at[t] \in Held(t)
             /\ pc[t] = "switch" =>
                  /\ at[t] \in Held(t) /\ \A i \in Held(t) : i <= at[t]
                  /\ Wants(path[t], at[t]) # {}
                  /\ OwnerOf(SecOf(t, at[t])) = t
             /\ pc[t] = "lost" => Lost
    OBVIOUS
  <2> HIDE DEF PcOK, Lost
  <2>7. (\A i \in Held(t) : i <= at[t])
           <=> \A i \in 1 .. Len(path[t].items) : path[t].items[i].has => i <= at[t]
    BY <2>3
  <2>8. Lost <=> \E k \in 1 .. Len(path[t].items) :
                /\ ~path[t].items[k].has /\ \A j \in 1 .. (k - 1) : path[t].items[j].has
                /\ res[NodeAt(path[t], k)] # t
    BY <2>2 DEF Lost
  <2> QED BY <2>3, <2>4, <2>5, <2>6, <2>7, <2>8 DEF PcFits
<1> HIDE DEF HeldOK, KnownOK, AheadOK, SetOK, PcOK
<1>10. ASSUME NEW t \in Train
       PROVE  (/\ Linked(path[t]) /\ HeldOK(t) /\ KnownOK(t) /\ AheadOK(t)
               /\ SetOK(t) /\ PcOK(t))
                <=> (/\ Fits(t, path[t], res, twice[t], left[t])
                     /\ PcFits(t, path[t], res, pc[t], at[t])
                     /\ SetFits(path[t], curved, twice[t], pc[t], at[t]))
  <2>1. path[t] \in Path
    BY <1>2
  <2>2. Fits(t, path[t], res, twice[t], left[t])
          <=> Linked(path[t]) /\ HeldOK(t) /\ KnownOK(t) /\ AheadOK(t)
    BY <1>6, <1>7, <2>1 DEF Fits
  <2> QED BY <1>8, <1>9, <2>2
<1> QED BY <1>5, <1>10 DEF Good
-----------------------------------------------------------------------------
(* What the history must know of a path. *)
Known(p, tw) ==
  \A i, j \in 1 .. Len(p.items) : i # j /\ SecAt(p, i) = SecAt(p, j) => SecAt(p, i) \in tw

\* The node, the section and the flags of an item.
LEMMA NodeAtFacts ==
  ASSUME NEW p \in Path, NEW i \in 1 .. Len(p.items)
  PROVE  /\ NodeAt(p, i) \in Nodes(T) /\ SecAt(p, i) = Sec[NodeAt(p, i)]
         /\ SecAt(p, i) \in SUBSET Nodes(T)
         /\ p.items[i].has \in BOOLEAN /\ p.items[i].curved \in BOOLEAN
<1>1. p.items[i] \in Item
  BY ItemsFacts
<1>2. NodeAt(p, i) \in Nodes(T)
  BY <1>1 DEF NodeAt, Item
<1> QED BY <1>1, <1>2, Sections DEF SecAt, Item

\* What Has(t, p) does: the path of t is p, and what is twice on it is known.
LEMMA HasFacts ==
  ASSUME TypeOK, NEW t \in Train, NEW p \in Path, Has(t, p)
  PROVE  /\ path' \in [Train -> Path] /\ path'[t] = p
         /\ twice' \in [Train -> SUBSET SUBSET Nodes(T)]
         /\ twice[t] \subseteq twice'[t] /\ Known(p, twice'[t])
         /\ \A u \in Train \ {t} : path'[u] = path[u] /\ twice'[u] = twice[u]
<1> DEFINE again == {i \in DOMAIN p.items : \E j \in DOMAIN p.items \ {i} :
                       Sec[p.items[i].node] = Sec[p.items[j].node]}
           new == {Sec[p.items[i].node] : i \in again}
<1>1. /\ path' = [path EXCEPT ![t] = p]
      /\ twice' = [twice EXCEPT ![t] = @ \cup new]
  BY DEF Has
<1>2. DOMAIN p.items = 1 .. Len(p.items)
  BY ItemsFacts
<1>3. new \in SUBSET SUBSET Nodes(T)
  BY <1>2, NodeAtFacts DEF NodeAt, SecAt
<1>4. \A i, j \in 1 .. Len(p.items) : i # j /\ SecAt(p, i) = SecAt(p, j) => SecAt(p, i) \in new
  BY <1>2 DEF NodeAt, SecAt
<1> HIDE DEF new
<1>5. path' \in [Train -> Path] /\ path'[t] = p /\ \A u \in Train \ {t} : path'[u] = path[u]
  BY <1>1 DEF TypeOK
<1>6. /\ twice' \in [Train -> SUBSET SUBSET Nodes(T)] /\ twice'[t] = twice[t] \cup new
      /\ \A u \in Train \ {t} : twice'[u] = twice[u]
  BY <1>1, <1>3 DEF TypeOK
<1> QED BY <1>4, <1>5, <1>6 DEF Known

\* A path whose operation leaves the train's own sections alone.
LEMMA FitsSame ==
  ASSUME NEW t, NEW p, NEW r, NEW s, NEW tw, NEW lf, Fits(t, p, r, tw, lf),
         \A n \in Nodes(T) : s[n] = t <=> r[n] = t
  PROVE  Fits(t, p, s, tw, lf)
<1>1. p \in Path /\ Len(p.items) \in Nat
  BY ItemsFacts DEF Fits
<1>2. \A i \in 1 .. Len(p.items) : s[NodeAt(p, i)] = t <=> r[NodeAt(p, i)] = t
  BY <1>1, NodeAtFacts
<1>3. ASSUME NEW i \in 1 .. Len(p.items)
      PROVE  \A j \in 1 .. i : s[NodeAt(p, j)] = t <=> r[NodeAt(p, j)] = t
  <2>1. \A j \in 1 .. i : j \in 1 .. Len(p.items)
    BY <1>1
  <2> QED BY <1>2, <2>1
<1>4. \A n \in Nodes(T) : s[n] = t =>
       \/ Sec[n] \in lf
       \/ \E i \in 1 .. Len(p.items) :
            /\ SecAt(p, i) = Sec[n]
            /\ \A j \in 1 .. i : s[NodeAt(p, j)] = t \/ SecAt(p, j) \in tw
  <2>1. ASSUME NEW n \in Nodes(T), r[n] = t, Sec[n] \notin lf
        PROVE  \E i \in 1 .. Len(p.items) :
                 /\ SecAt(p, i) = Sec[n]
                 /\ \A j \in 1 .. i : s[NodeAt(p, j)] = t \/ SecAt(p, j) \in tw
    <3>1. PICK i \in 1 .. Len(p.items) :
            /\ SecAt(p, i) = Sec[n]
            /\ \A j \in 1 .. i : r[NodeAt(p, j)] = t \/ SecAt(p, j) \in tw
      BY <2>1 DEF Fits
    <3> QED BY <1>3, <3>1
  <2> QED BY <2>1
<1> QED BY <1>1, <1>2, <1>4 DEF Fits

\* A step that leaves the train's sections alone keeps what it knows of its path.
LEMMA PcFitsSame ==
  ASSUME NEW t, NEW p \in Path, NEW r, NEW s, NEW c, NEW a, PcFits(t, p, r, c, a),
         \A n \in Nodes(T) : s[n] = t <=> r[n] = t
  PROVE  PcFits(t, p, s, c, a)
<1>1. \A i \in 1 .. Len(p.items) : s[NodeAt(p, i)] = t <=> r[NodeAt(p, i)] = t
  BY NodeAtFacts
<1> QED BY <1>1 DEF PcFits

\* r gives back the section of n, if it is t's, and nothing else of t's.
Gives(t, r, s, n) == \A m \in Nodes(T) : s[m] = t <=> r[m] = t /\ Sec[m] # Sec[n]

\* A train that gives back its first section and pops the item.
LEMMA FitsPop ==
  ASSUME NEW t \in Train, NEW p, NEW r, NEW s, NEW tw, NEW tw2, NEW lf, Fits(t, p, r, tw, lf),
         ResOK(r), Len(p.items) > 0, Gives(t, r, s, NodeAt(p, 1)),
         tw \subseteq tw2, Known(Pop(p), tw2)
  PROVE  Fits(t, Pop(p), s, tw2, lf)
<1>1. PICK n, q : n = Len(p.items) /\ q = Pop(p)
  OBVIOUS
<1>2. p \in Path /\ Linked(p) /\ n \in Nat /\ n > 0
  BY <1>1, ItemsFacts DEF Fits
<1>3. /\ q \in Path /\ Linked(q) /\ Len(q.items) = n - 1
      /\ \A i \in 1 .. (n - 1) : q.items[i] = p.items[i + 1]
  BY <1>1, <1>2, PopFacts
<1>4. \A i \in 1 .. (n - 1) : /\ NodeAt(q, i) = NodeAt(p, i + 1) /\ SecAt(q, i) = SecAt(p, i + 1)
                              /\ i + 1 \in 1 .. n
  BY <1>2, <1>3 DEF NodeAt, SecAt
\* What is not before the sensor is kept, unless it is there as well.
<1>5. ASSUME NEW i \in 2 .. n, r[NodeAt(p, i)] = t \/ SecAt(p, i) \in tw
      PROVE  s[NodeAt(p, i)] = t \/ SecAt(p, i) \in tw2
  <2>1. i \in 1 .. n /\ 1 \in 1 .. n /\ i # 1 /\ NodeAt(p, i) \in Nodes(T)
    BY <1>1, <1>2, NodeAtFacts
  <2>2. CASE SecAt(p, i) = SecAt(p, 1)
    <3>1. SecAt(p, i) \in tw
      BY <1>1, <2>1, <2>2 DEF Fits
    <3> QED BY <3>1
  <2>3. CASE SecAt(p, i) # SecAt(p, 1)
    <3>1. r[NodeAt(p, i)] = t => s[NodeAt(p, i)] = t
      BY <2>1, <2>3 DEF Gives, SecAt
    <3> QED BY <1>5, <3>1
  <2> QED BY <2>2, <2>3
<1>6. ASSUME NEW i \in 1 .. (n - 1), q.items[i].has
      PROVE  /\ SecAt(q, i) \in tw2 \/ s[NodeAt(q, i)] = t
             /\ \A j \in 1 .. (n - 1) : ~q.items[j].has => i < j
  <2>1. i + 1 \in 1 .. n /\ i + 1 \in 2 .. n /\ p.items[i + 1].has
    BY <1>2, <1>3, <1>6
  <2>2. SecAt(p, i + 1) \in tw \/ r[NodeAt(p, i + 1)] = t
    BY <1>1, <2>1 DEF Fits
  <2>3. SecAt(q, i) \in tw2 \/ s[NodeAt(q, i)] = t
    BY <1>4, <1>5, <2>1, <2>2
  <2>4. ASSUME NEW j \in 1 .. (n - 1), ~q.items[j].has PROVE i < j
    <3>1. j + 1 \in 1 .. n /\ ~p.items[j + 1].has
      BY <1>2, <1>3, <2>4
    <3>2. i + 1 < j + 1
      BY <1>1, <2>1, <3>1 DEF Fits
    <3> QED BY <3>2
  <2> QED BY <2>3, <2>4
<1>7. ASSUME NEW m \in Nodes(T), s[m] = t, Sec[m] \notin lf
      PROVE  \E i \in 1 .. (n - 1) :
               /\ SecAt(q, i) = Sec[m]
               /\ \A j \in 1 .. i : s[NodeAt(q, j)] = t \/ SecAt(q, j) \in tw2
  <2>1. r[m] = t /\ Sec[m] # SecAt(p, 1)
    BY <1>7 DEF Gives, SecAt
  <2>2. PICK i \in 1 .. n :
          /\ SecAt(p, i) = Sec[m]
          /\ \A j \in 1 .. i : r[NodeAt(p, j)] = t \/ SecAt(p, j) \in tw
    BY <1>1, <1>7, <2>1 DEF Fits
  <2>3. i # 1
    BY <2>1, <2>2
  <2>4. i - 1 \in 1 .. (n - 1) /\ (i - 1) + 1 = i
    BY <1>2, <2>3
  <2>5. SecAt(q, i - 1) = Sec[m]
    BY <1>4, <2>2, <2>4
  <2>6. ASSUME NEW j \in 1 .. (i - 1)
        PROVE  s[NodeAt(q, j)] = t \/ SecAt(q, j) \in tw2
    <3>1. j \in 1 .. (n - 1) /\ j + 1 \in 2 .. n /\ j + 1 \in 1 .. i
      BY <1>2, <2>4
    <3>2. s[NodeAt(p, j + 1)] = t \/ SecAt(p, j + 1) \in tw2
      BY <1>5, <2>2, <3>1
    <3> QED BY <1>4, <3>1, <3>2
  <2> QED BY <2>4, <2>5, <2>6
<1> QED BY <1>1, <1>3, <1>6, <1>7 DEF Fits, Known

\* A path of which nothing is held yet.
LEMMA FitsUnheld ==
  ASSUME NEW t, NEW p \in Path, Linked(p), Unheld(p.items), NEW r, NEW tw, NEW lf,
         Known(p, tw),
         \A n \in Nodes(T) : r[n] = t =>
           \/ Sec[n] \in lf
           \/ \E i \in 1 .. Len(p.items) :
                /\ SecAt(p, i) = Sec[n]
                /\ \A j \in 1 .. i : r[NodeAt(p, j)] = t \/ SecAt(p, j) \in tw
  PROVE  Fits(t, p, r, tw, lf)
<1>1. \A i \in 1 .. Len(p.items) : ~p.items[i].has
  BY ItemsFacts DEF Unheld
<1> QED BY <1>1 DEF Fits, Known

\* Nothing held, no switch to be set.
LEMMA SetUnheld ==
  ASSUME NEW p \in Path, Unheld(p.items), NEW cv, NEW tw, NEW c, NEW a
  PROVE  SetFits(p, cv, tw, c, a)
<1>1. DOMAIN p.items = 1 .. Len(p.items) /\ Len(p.items) \in Nat
  BY ItemsFacts
<1>2. \A i \in 2 .. Len(p.items) : i \in 1 .. Len(p.items)
  BY <1>1
<1> QED BY <1>1, <1>2 DEF SetFits, Unheld
-----------------------------------------------------------------------------
\* The ways in which an item wants its switch.
LEMMA WantsCases ==
  ASSUME NEW p, NEW i
  PROVE  /\ IsBranch(T, NodeAt(p, i)) /\ p.items[i].curved => Wants(p, i) = {"curved"}
         /\ IsBranch(T, NodeAt(p, i)) /\ ~p.items[i].curved => Wants(p, i) = {"straight"}
         /\ At(T, NodeAt(p, i)).type = "MERGE" /\ i # 1 =>
              /\ Curved(T, Rev(T, NodeAt(p, i)), Rev(T, NodeAt(p, i - 1))) => Wants(p, i) = {"curved"}
              /\ ~Curved(T, Rev(T, NodeAt(p, i)), Rev(T, NodeAt(p, i - 1))) => Wants(p, i) = {"straight"}
         /\ At(T, NodeAt(p, i)).type = "MERGE" /\ i = 1 => Wants(p, i) = {}
         /\ At(T, NodeAt(p, i)).type \notin {"BRANCH", "MERGE"} => Wants(p, i) = {}
BY DEF Wants, NodeAt, IsBranch

\* An item wants its switch as another does that is the same node after the same.
LEMMA WantsSame ==
  ASSUME NEW p \in Path, NEW i \in 1 .. Len(p.items), NEW q \in Path, NEW j \in 1 .. Len(q.items),
         NodeAt(p, i) = NodeAt(q, j),
         IsBranch(T, NodeAt(p, i)) => (p.items[i].curved <=> q.items[j].curved),
         i = 1 <=> j = 1, i # 1 => NodeAt(p, i - 1) = NodeAt(q, j - 1)
  PROVE  Wants(p, i) = Wants(q, j) /\ SwitchNum(p, i) = SwitchNum(q, j)
<1>1. SwitchNum(p, i) = SwitchNum(q, j)
  BY Zenon DEF SwitchNum, NodeAt
<1>2. CASE IsBranch(T, NodeAt(p, i))
  BY <1>1, <1>2, WantsCases, Zenon
<1>3. CASE At(T, NodeAt(p, i)).type = "MERGE" /\ i = 1
  BY <1>1, <1>3, WantsCases, Zenon
<1>4. CASE At(T, NodeAt(p, i)).type = "MERGE" /\ i # 1
  <2>1. Curved(T, Rev(T, NodeAt(p, i)), Rev(T, NodeAt(p, i - 1)))
          <=> Curved(T, Rev(T, NodeAt(q, j)), Rev(T, NodeAt(q, j - 1)))
    BY <1>4, Zenon
  <2>2. /\ Curved(T, Rev(T, NodeAt(p, i)), Rev(T, NodeAt(p, i - 1))) => Wants(p, i) = {"curved"}
        /\ ~Curved(T, Rev(T, NodeAt(p, i)), Rev(T, NodeAt(p, i - 1))) => Wants(p, i) = {"straight"}
    BY <1>4, WantsCases, Zenon
  <2>3. At(T, NodeAt(q, j)).type = "MERGE" /\ j # 1
    BY <1>4, Zenon
  <2>4. /\ Curved(T, Rev(T, NodeAt(q, j)), Rev(T, NodeAt(q, j - 1))) => Wants(q, j) = {"curved"}
        /\ ~Curved(T, Rev(T, NodeAt(q, j)), Rev(T, NodeAt(q, j - 1))) => Wants(q, j) = {"straight"}
    BY <2>3, WantsCases, Zenon
  <2> QED BY <1>1, <2>1, <2>2, <2>4, Zenon
<1>5. CASE At(T, NodeAt(p, i)).type \notin {"BRANCH", "MERGE"}
  <2>1. At(T, NodeAt(q, j)).type \notin {"BRANCH", "MERGE"}
    BY <1>5, Zenon
  <2>2. Wants(p, i) = {} /\ Wants(q, j) = {}
    BY <1>5, <2>1, WantsCases, Zenon
  <2> QED BY <1>1, <2>2
<1>6. CASE At(T, NodeAt(p, i)).type \in {"BRANCH", "MERGE"}
  <2>1. At(T, NodeAt(p, i)).type = "BRANCH" => IsBranch(T, NodeAt(p, i))
    BY DEF IsBranch
  <2> QED BY <1>1, <1>2, <1>3, <1>4, <1>6, <2>1, Zenon
<1> QED BY <1>1, <1>5, <1>6

\* The switches on what is left when the first item is popped.
LEMMA SetPop ==
  ASSUME NEW p \in Path, Linked(p), Len(p.items) > 0, NEW cv, NEW tw, NEW tw2, NEW c, NEW a,
         NEW c2, NEW a2, SetFits(p, cv, tw, c, a), c # "switch", tw \subseteq tw2
  PROVE  SetFits(Pop(p), cv, tw2, c2, a2)
<1>1. PICK n, q : n = Len(p.items) /\ q = Pop(p)
  OBVIOUS
<1>2. n \in Nat /\ n > 0
  BY <1>1, ItemsFacts
<1>3. q \in Path /\ Len(q.items) = n - 1 /\ \A i \in 1 .. (n - 1) : q.items[i] = p.items[i + 1]
  BY <1>1, <1>2, PopFacts
<1>4. ASSUME NEW i \in 2 .. (n - 1), q.items[i].has
      PROVE  \/ Wants(q, i) = {}
             \/ ExemptAt(q, i, tw2)
             \/ Wants(q, i) = {"curved"} <=> SwitchNum(q, i) \in cv
  <2>1. /\ i \in 1 .. (n - 1) /\ i - 1 \in 1 .. (n - 1) /\ i + 1 \in 2 .. n
        /\ (i - 1) + 1 = i /\ (i + 1) - 1 = i /\ i # 1 /\ i + 1 # 1
    BY <1>2
  <2>2. q.items[i] = p.items[i + 1] /\ q.items[i - 1] = p.items[i]
    BY <1>3, <2>1
  <2>3. Wants(q, i) = Wants(p, i + 1) /\ SwitchNum(q, i) = SwitchNum(p, i + 1)
    <3>1. i \in 1 .. Len(q.items) /\ i + 1 \in 1 .. Len(p.items)
      BY <1>1, <1>2, <1>3, <2>1
    <3>2. /\ NodeAt(q, i) = NodeAt(p, i + 1) /\ (q.items[i].curved <=> p.items[i + 1].curved)
          /\ NodeAt(q, i - 1) = NodeAt(p, (i + 1) - 1)
      BY <2>1, <2>2 DEF NodeAt
    <3> QED BY <1>3, <2>1, <3>1, <3>2, WantsSame
  <2>4. \/ Wants(p, i + 1) = {}
        \/ ExemptAt(p, i + 1, tw)
        \/ Wants(p, i + 1) = {"curved"} <=> SwitchNum(p, i + 1) \in cv
    BY <1>1, <1>4, <2>1, <2>2 DEF SetFits
  <2>5. ExemptAt(p, i + 1, tw) => ExemptAt(q, i, tw2)
    BY <2>1, <2>2, <2>3 DEF ExemptAt, SecAt, NodeAt
  <2> QED BY <2>3, <2>4, <2>5
<1> QED BY <1>1, <1>3, <1>4 DEF SetFits
-----------------------------------------------------------------------------
(* The next item of the path becomes held. *)
Mark(p, k) == [p EXCEPT !.items[k].has = TRUE]

\* The item that becomes held, and the others.
LEMMA MarkFacts ==
  ASSUME NEW p \in Path, Linked(p), NEW k \in 1 .. Len(p.items),
         NEW q, q = Mark(p, k)
  PROVE  /\ q \in Path /\ Linked(q) /\ Len(q.items) = Len(p.items)
         /\ \A i \in 1 .. Len(p.items) :
              /\ NodeAt(q, i) = NodeAt(p, i) /\ SecAt(q, i) = SecAt(p, i)
              /\ q.items[i].curved <=> p.items[i].curved
              /\ q.items[i].has <=> i = k \/ p.items[i].has
<1>1. PICK n, s : n = Len(p.items) /\ s = p.items
  OBVIOUS
<1>2. n \in Nat /\ s \in Seq(Item) /\ p.mm \in Int /\ s[k] \in Item /\ p = [items |-> s, mm |-> p.mm]
  BY <1>1, ItemsFacts
<1>3. PICK y : y = [s[k] EXCEPT !.has = TRUE]
  OBVIOUS
<1>4. y \in Item /\ y.node = s[k].node /\ y.curved = s[k].curved /\ y.has
  BY <1>2, <1>3 DEF Item
<1>5. PICK z : z = [s EXCEPT ![k] = y]
  OBVIOUS
<1>6. z \in Seq(Item) /\ Len(z) = n /\ \A j \in 1 .. n : z[j] = IF j = k THEN y ELSE s[j]
  BY <1>1, <1>2, <1>4, <1>5, ExceptSeq
<1>7. q = [items |-> z, mm |-> p.mm]
  <2>1. z = [s EXCEPT ![k].has = TRUE]
    BY <1>3, <1>5
  <2>2. q = [p EXCEPT !.items = [p.items EXCEPT ![k].has = TRUE]]
    BY DEF Mark
  <2>3. q = [p EXCEPT !.items = z]
    BY <1>1, <2>1, <2>2, Zenon
  <2> HIDE <2>2
  <2>4. DOMAIN p = {"items", "mm"}
    BY DEF Path
  <2>5. [p EXCEPT !.items = z] = [items |-> z, mm |-> p.mm]
    BY <2>4
  <2> QED BY <2>3, <2>5, Zenon
<1>8. q \in Path
  <2>1. [items |-> z, mm |-> p.mm] \in Path
    BY <1>2, <1>6, PathOfItems
  <2> QED BY <1>7, <2>1, Zenon
<1>9. q.items = z
  BY <1>7
<1>10. ASSUME NEW i \in 1 .. n
       PROVE  /\ z[i].node = s[i].node /\ z[i].curved = s[i].curved
              /\ z[i].has <=> i = k \/ s[i].has
  <2>1. CASE i = k
    BY <1>4, <1>6, <2>1
  <2>2. CASE i # k
    BY <1>6, <2>2
  <2> QED BY <2>1, <2>2
<1>11. ASSUME NEW i \in 1 .. n
       PROVE  /\ NodeAt(q, i) = NodeAt(p, i) /\ SecAt(q, i) = SecAt(p, i)
              /\ q.items[i].curved <=> p.items[i].curved
              /\ q.items[i].has <=> i = k \/ p.items[i].has
  BY <1>1, <1>9, <1>10 DEF NodeAt, SecAt
<1>12. Linked(q)
  <2>1. Len(q.items) = Len(p.items)
    BY <1>1, <1>6, <1>9
  <2>2. ASSUME NEW i \in 1 .. (n - 1)
        PROVE  /\ EdgesTo(T, q.items[i].node, q.items[i + 1].node) # {}
               /\ IsBranch(T, q.items[i].node) =>
                    q.items[i].curved = Curved(T, q.items[i].node, q.items[i + 1].node)
    <3>1. i \in 1 .. n /\ i + 1 \in 1 .. n
      BY <1>2
    <3>2. /\ q.items[i].node = p.items[i].node /\ q.items[i + 1].node = p.items[i + 1].node
          /\ q.items[i].curved = p.items[i].curved
      BY <1>1, <1>9, <1>10, <3>1, Zenon
    <3>3. /\ EdgesTo(T, p.items[i].node, p.items[i + 1].node) # {}
          /\ IsBranch(T, p.items[i].node) =>
               p.items[i].curved = Curved(T, p.items[i].node, p.items[i + 1].node)
      BY <1>1, <2>2, Zenon DEF Linked
    <3> QED BY <3>2, <3>3, Zenon
  <2>3. Len(q.items) - 1 = n - 1 /\ Len(q.items) <= TRACK_MAX
    BY <1>1, <2>1 DEF Linked
  <2> HIDE <1>6, <1>9
  <2> QED BY <2>2, <2>3, Zenon DEF Linked
<1> QED BY <1>1, <1>6, <1>8, <1>9, <1>11, <1>12

\* Item k is the first that is not held.
FirstFree(p, k) ==
  /\ k \in 1 .. Len(p.items) /\ ~p.items[k].has
  /\ \A j \in 1 .. (k - 1) : p.items[j].has

\* What is held ends at item k.
HeldTo(p, k) == \A i \in 1 .. Len(p.items) : p.items[i].has <=> i <= k

\* A train that reserves the section of its first free item and marks it.
LEMMA FitsReserve ==
  ASSUME NEW t \in Train, NEW p, NEW r, NEW tw, NEW lf, Fits(t, p, r, tw, lf), ResOK(r),
         NEW k, FirstFree(p, k)
  PROVE  /\ Fits(t, Mark(p, k), Reserve(Sec, r, NodeAt(p, k), t), tw, lf)
         /\ Reserve(Sec, r, NodeAt(p, k), t)[NodeAt(Mark(p, k), k)] = t
         /\ HeldTo(Mark(p, k), k)
<1>0. PICK s, q : s = Reserve(Sec, r, NodeAt(p, k), t) /\ q = Mark(p, k)
  OBVIOUS
<1>1. PICK n : n = Len(p.items)
  OBVIOUS
<1>2. p \in Path /\ Linked(p) /\ n \in Nat
  BY <1>1, ItemsFacts DEF Fits
<1>13. /\ k \in 1 .. Len(p.items) /\ ~p.items[k].has
      /\ \A j \in 1 .. (k - 1) : p.items[j].has
  BY DEF FirstFree
<1>3. /\ q \in Path /\ Linked(q) /\ Len(q.items) = n
      /\ \A i \in 1 .. n : /\ NodeAt(q, i) = NodeAt(p, i) /\ SecAt(q, i) = SecAt(p, i)
                           /\ q.items[i].has <=> i = k \/ p.items[i].has
  BY <1>0, <1>1, <1>2, <1>13, MarkFacts
<1>4. \A i \in 1 .. n : q.items[i].has <=> i <= k
  <2>1. ASSUME NEW i \in 1 .. n, p.items[i].has PROVE i < k
    BY <1>1, <1>13, <2>1 DEF Fits
  <2>2. ASSUME NEW i \in 1 .. n, i < k PROVE p.items[i].has
    <3>1. i \in 1 .. (k - 1)
      BY <1>2, <1>13, <2>2
    <3> QED BY <1>13, <3>1
  <2> QED BY <1>2, <1>3, <1>13, <2>1, <2>2
<1>5. \A m \in Nodes(T) : s[m] = t <=> r[m] = t \/ m \in Sec[NodeAt(p, k)]
  BY <1>0 DEF Reserve, ResOK
<1>6. NodeAt(p, k) \in Nodes(T) /\ NodeAt(p, k) \in Sec[NodeAt(p, k)] /\ k \in 1 .. n
  BY <1>1, <1>2, <1>13, NodeAtFacts, Sections
<1>7. \A i \in 1 .. k : i \in 1 .. n /\ (s[NodeAt(q, i)] = t \/ SecAt(q, i) \in tw)
  <2>1. ASSUME NEW i \in 1 .. k PROVE s[NodeAt(q, i)] = t \/ SecAt(q, i) \in tw
    <3>1. i \in 1 .. n /\ NodeAt(p, i) \in Nodes(T)
      BY <1>1, <1>2, <1>6, NodeAtFacts
    <3>2. CASE i = k
      BY <1>3, <1>5, <1>6, <3>2
    <3>3. CASE i # k
      <4>1. i \in 1 .. (k - 1)
        BY <1>2, <1>6, <3>3
      <4>2. SecAt(p, i) \in tw \/ r[NodeAt(p, i)] = t
        BY <1>1, <1>13, <3>1, <4>1 DEF Fits
      <4> QED BY <1>3, <1>5, <3>1, <4>2
    <3> QED BY <3>2, <3>3
  <2>2. \A i \in 1 .. k : i \in 1 .. n
    BY <1>2, <1>6
  <2> QED BY <2>1, <2>2
<1>8. ASSUME NEW m \in Nodes(T), s[m] = t, Sec[m] \notin lf
      PROVE  \E i \in 1 .. n :
               /\ SecAt(q, i) = Sec[m]
               /\ \A j \in 1 .. i : s[NodeAt(q, j)] = t \/ SecAt(q, j) \in tw
  <2>1. CASE m \in Sec[NodeAt(p, k)]
    <3>1. Sec[m] = SecAt(q, k)
      BY <1>3, <1>6, <2>1, Sections DEF SecAt
    <3> QED BY <1>6, <1>7, <3>1
  <2>2. CASE m \notin Sec[NodeAt(p, k)]
    <3>1. r[m] = t
      BY <1>5, <1>8, <2>2
    <3>2. PICK i \in 1 .. n :
            /\ SecAt(p, i) = Sec[m]
            /\ \A j \in 1 .. i : r[NodeAt(p, j)] = t \/ SecAt(p, j) \in tw
      BY <1>1, <1>8, <3>1 DEF Fits
    <3>3. ASSUME NEW j \in 1 .. i PROVE s[NodeAt(q, j)] = t \/ SecAt(q, j) \in tw
      <4>1. j \in 1 .. n
        BY <1>2
      <4>2. NodeAt(p, j) \in Nodes(T)
        BY <1>1, <1>2, <4>1, NodeAtFacts
      <4> QED BY <1>3, <1>5, <3>2, <4>1, <4>2
    <3> QED BY <1>3, <3>2, <3>3
  <2> QED BY <2>1, <2>2
<1>9. \A i, j \in 1 .. n : i # j /\ SecAt(q, i) = SecAt(q, j) => SecAt(q, i) \in tw
  <2>1. ASSUME NEW i \in 1 .. n, NEW j \in 1 .. n, i # j, SecAt(q, i) = SecAt(q, j)
        PROVE  SecAt(q, i) \in tw
    <3>1. SecAt(q, i) = SecAt(p, i) /\ SecAt(q, j) = SecAt(p, j)
      BY <1>3
    <3> QED BY <1>1, <2>1, <3>1 DEF Fits
  <2> QED BY <2>1
<1>10. ASSUME NEW i \in 1 .. n, q.items[i].has
       PROVE  /\ SecAt(q, i) \in tw \/ s[NodeAt(q, i)] = t
              /\ \A j \in 1 .. n : ~q.items[j].has => i < j
  <2>1. i \in 1 .. k
    BY <1>2, <1>4, <1>10
  <2>2. \A j \in 1 .. n : ~q.items[j].has => i < j
    BY <1>2, <1>4, <1>6, <2>1
  <2> QED BY <1>7, <2>1, <2>2
<1>11. s[NodeAt(q, k)] = t
  BY <1>3, <1>5, <1>6
<1>12. Fits(t, q, s, tw, lf)
  BY <1>3, <1>8, <1>9, <1>10 DEF Fits
<1> QED BY <1>0, <1>3, <1>4, <1>11, <1>12 DEF HeldTo

\* The switch of the item that becomes held is the one that is set next.
LEMMA SetReserve ==
  ASSUME NEW p \in Path, Linked(p), NEW cv, NEW tw, NEW c, NEW a,
         SetFits(p, cv, tw, c, a), c # "switch", NEW k \in 1 .. Len(p.items),
         NEW c2, NEW a2, Wants(p, k) = {} \/ (c2 = "switch" /\ a2 = k)
  PROVE  SetFits(Mark(p, k), cv, tw, c2, a2)
<1>0. PICK q : q = Mark(p, k)
  OBVIOUS
<1>1. PICK n : n = Len(p.items)
  OBVIOUS
<1>2. n \in Nat
  BY <1>1, ItemsFacts
<1>3. /\ q \in Path /\ Len(q.items) = n
      /\ \A i \in 1 .. n : /\ NodeAt(q, i) = NodeAt(p, i) /\ SecAt(q, i) = SecAt(p, i)
                           /\ q.items[i].curved <=> p.items[i].curved
                           /\ q.items[i].has <=> i = k \/ p.items[i].has
  BY <1>0, <1>1, <1>2, MarkFacts
<1>4. ASSUME NEW i \in 2 .. n, q.items[i].has
      PROVE  \/ Wants(q, i) = {}
             \/ c2 = "switch" /\ a2 = i
             \/ ExemptAt(q, i, tw)
             \/ Wants(q, i) = {"curved"} <=> SwitchNum(q, i) \in cv
  <2>1. i \in 1 .. n /\ i - 1 \in 1 .. n /\ i # 1
    BY <1>2
  <2>2. Wants(q, i) = Wants(p, i) /\ SwitchNum(q, i) = SwitchNum(p, i)
    <3>1. /\ NodeAt(q, i) = NodeAt(p, i) /\ (q.items[i].curved <=> p.items[i].curved)
          /\ NodeAt(q, i - 1) = NodeAt(p, i - 1)
          /\ i \in 1 .. Len(p.items) /\ i \in 1 .. Len(q.items)
      BY <1>1, <1>3, <2>1
    <3> QED BY <1>3, <3>1, WantsSame, ZenonT(30)
  <2>3. CASE i = k
    BY <2>2, <2>3
  <2>4. CASE i # k
    <3>1. p.items[i].has
      BY <1>3, <1>4, <2>1, <2>4
    <3>2. \/ Wants(p, i) = {}
          \/ ExemptAt(p, i, tw)
          \/ Wants(p, i) = {"curved"} <=> SwitchNum(p, i) \in cv
      BY <1>1, <3>1 DEF SetFits
    <3>3. ExemptAt(p, i, tw) => ExemptAt(q, i, tw)
      BY <1>3, <2>1, <2>2 DEF ExemptAt
    <3> QED BY <2>2, <3>2, <3>3
  <2> QED BY <2>3, <2>4
<1> QED BY <1>0, <1>3, <1>4 DEF SetFits
-----------------------------------------------------------------------------
(* A path that goes on. *)
\* More may be known to be twice or left.
LEMMA FitsMono ==
  ASSUME NEW t, NEW p, NEW r, NEW tw, NEW lf, NEW tw2, NEW lf2, Fits(t, p, r, tw, lf),
         tw \subseteq tw2, lf \subseteq lf2
  PROVE  Fits(t, p, r, tw2, lf2)
<1>1. ASSUME NEW n \in Nodes(T), r[n] = t, Sec[n] \notin lf2
      PROVE  \E i \in 1 .. Len(p.items) :
               /\ SecAt(p, i) = Sec[n]
               /\ \A j \in 1 .. i : r[NodeAt(p, j)] = t \/ SecAt(p, j) \in tw2
  <2>1. PICK i \in 1 .. Len(p.items) :
          /\ SecAt(p, i) = Sec[n]
          /\ \A j \in 1 .. i : r[NodeAt(p, j)] = t \/ SecAt(p, j) \in tw
    BY <1>1 DEF Fits
  <2> QED BY <2>1
<1> QED BY <1>1 DEF Fits

\* The switches, when more is known to be twice.
LEMMA SetMono ==
  ASSUME NEW p, NEW cv, NEW tw, NEW c, NEW a, NEW tw2, NEW c2, NEW a2,
         SetFits(p, cv, tw, c, a), c # "switch", tw \subseteq tw2
  PROVE  SetFits(p, cv, tw2, c2, a2)
BY DEF SetFits, ExemptAt

\* c is p with more behind it, of which nothing is held.
Continues(c, p) ==
  /\ Len(p.items) <= Len(c.items)
  /\ \A i \in 1 .. Len(p.items) : NodeAt(c, i) = NodeAt(p, i)
  /\ \A i \in 1 .. Len(c.items) : c.items[i].has => i \in 1 .. Len(p.items) /\ p.items[i].has
  /\ \A i, j \in 1 .. Len(c.items) : c.items[i].has /\ ~c.items[j].has => i < j
  /\ \A i \in 1 .. Len(c.items) :
       c.items[i].has => i \in 1 .. (Len(p.items) - 1) \/ c.items[i] = p.items[i]

\* A path that is not held goes on from where the path of a train ends.
LEMMA ConcatContinues ==
  ASSUME NEW t, NEW p, NEW q \in Path, NEW r, NEW tw, NEW lf, Fits(t, p, r, tw, lf),
         Len(p.items) > 0, Linked(q), Unheld(q.items)
  PROVE  /\ Concat(T, p, q) \in Path /\ Linked(Concat(T, p, q))
         /\ Continues(Concat(T, p, q), p)
<1>1. PICK n, k, c : n = Len(p.items) /\ k = Len(q.items) /\ c = Concat(T, p, q)
  OBVIOUS
<1>2. p \in Path /\ Linked(p) /\ n \in Nat /\ k \in Nat /\ n > 0 /\ DOMAIN q.items = 1 .. k
  BY <1>1, ItemsFacts DEF Fits
<1>3. c \in Path /\ Linked(c) /\ (c = p \/ (k > 0 /\ Joined(c, p, q)))
  <2>1. ~(Len(p.items) = 0) /\ (Len(q.items) > 0 <=> k > 0)
    BY <1>1, <1>2
  <2>2. /\ Concat(T, p, q) \in Path /\ Linked(Concat(T, p, q))
        /\ \/ Concat(T, p, q) = p
           \/ Len(p.items) = 0 /\ Concat(T, p, q) = q
           \/ /\ Len(p.items) > 0 /\ Len(q.items) > 0
              /\ Joined(Concat(T, p, q), p, q)
    BY <1>2, ConcatFacts
  <2>3. c = Concat(T, p, q)
    BY <1>1
  <2>4. Concat(T, p, q) = p \/ (k > 0 /\ Joined(Concat(T, p, q), p, q))
    BY <2>1, <2>2, Zenon
  <2> QED BY <2>2, <2>3, <2>4
<1>4. CASE c = p
  <2>1. \A i, j \in 1 .. n : p.items[i].has /\ ~p.items[j].has => i < j
    BY <1>1 DEF Fits
  <2> QED BY <1>1, <1>2, <1>3, <1>4, <2>1 DEF Continues
<1>5. CASE k > 0 /\ Joined(c, p, q)
  <2>1. /\ Len(c.items) = n + k - 1
        /\ \A i \in 1 .. (n - 1) : /\ c.items[i].node = p.items[i].node
                                   /\ c.items[i].has = p.items[i].has
        /\ \A j \in 1 .. k : /\ c.items[n - 1 + j].node = q.items[j].node
                             /\ c.items[n - 1 + j].has = q.items[j].has
        /\ q.items[1].node = p.items[n].node
    BY <1>1, <1>5 DEF Joined
  <2>2. n <= Len(c.items)
    BY <1>2, <1>5, <2>1
  <2>3. ASSUME NEW i \in 1 .. n PROVE NodeAt(c, i) = NodeAt(p, i)
    <3>1. CASE i = n
      <4>1. 1 \in 1 .. k /\ n - 1 + 1 = n
        BY <1>2, <1>5
      <4>2. c.items[n].node = q.items[1].node
        BY <2>1, <4>1
      <4> QED BY <2>1, <3>1, <4>2 DEF NodeAt
    <3>2. CASE i # n
      <4>1. i \in 1 .. (n - 1)
        BY <1>2, <3>2
      <4> QED BY <2>1, <4>1 DEF NodeAt
    <3> QED BY <3>1, <3>2
  <2>4. ASSUME NEW i \in 1 .. Len(c.items), c.items[i].has
        PROVE  i \in 1 .. (n - 1) /\ i \in 1 .. n /\ p.items[i].has
    <3>1. CASE i \in 1 .. (n - 1)
      <4>1. i \in 1 .. n
        BY <1>2, <3>1
      <4>2. p.items[i].has
        BY <2>1, <2>4, <3>1, Zenon
      <4> QED BY <3>1, <4>1, <4>2
    <3>2. CASE i \notin 1 .. (n - 1)
      <4>0. i \in 1 .. (n + k - 1)
        BY <2>1, <2>4
      <4>1. i - (n - 1) \in 1 .. k /\ n - 1 + (i - (n - 1)) = i
        BY <1>2, <3>2, <4>0
      <4>2. ~q.items[i - (n - 1)].has
        BY <1>2, <4>1 DEF Unheld
      <4> QED BY <2>1, <2>4, <4>1, <4>2
    <3> QED BY <3>1, <3>2
  <2>5. ASSUME NEW i \in 1 .. Len(c.items), NEW j \in 1 .. Len(c.items),
               c.items[i].has, ~c.items[j].has
        PROVE  i < j
    <3>1. i \in 1 .. (n - 1) /\ i \in 1 .. n /\ p.items[i].has
      BY <2>4, <2>5
    <3>2. CASE j \in 1 .. (n - 1)
      <4>1. ~p.items[j].has
        BY <2>1, <2>5, <3>2, Zenon
      <4>2. j \in 1 .. n
        BY <1>2, <3>2
      <4> QED BY <1>1, <3>1, <4>1, <4>2 DEF Fits
    <3>3. CASE j \notin 1 .. (n - 1)
      BY <1>2, <2>1, <3>1, <3>3
    <3> QED BY <3>2, <3>3
  <2> QED BY <1>1, <1>3, <2>2, <2>3, <2>4, <2>5 DEF Continues
<1> QED BY <1>3, <1>4, <1>5

\* A train whose path goes on further holds what it held.
LEMMA FitsContinues ==
  ASSUME NEW t, NEW p, NEW r, NEW tw, NEW lf, Fits(t, p, r, tw, lf),
         NEW c \in Path, Linked(c), Continues(c, p), NEW tw2, tw \subseteq tw2, Known(c, tw2)
  PROVE  Fits(t, c, r, tw2, lf)
<1>1. PICK n, l : n = Len(p.items) /\ l = Len(c.items)
  OBVIOUS
<1>2. p \in Path /\ n \in Nat /\ l \in Nat /\ n <= l
  BY <1>1, ItemsFacts DEF Fits, Continues
<1>3. \A i \in 1 .. n : NodeAt(c, i) = NodeAt(p, i) /\ SecAt(c, i) = SecAt(p, i) /\ i \in 1 .. l
  BY <1>1, <1>2 DEF Continues, SecAt
<1>4. ASSUME NEW i \in 1 .. l, c.items[i].has
      PROVE  SecAt(c, i) \in tw2 \/ r[NodeAt(c, i)] = t
  <2>1. i \in 1 .. n /\ p.items[i].has
    BY <1>1, <1>4 DEF Continues
  <2>2. SecAt(p, i) \in tw \/ r[NodeAt(p, i)] = t
    BY <1>1, <2>1 DEF Fits
  <2> QED BY <1>3, <2>1, <2>2
<1>5. ASSUME NEW m \in Nodes(T), r[m] = t, Sec[m] \notin lf
      PROVE  \E i \in 1 .. l :
               /\ SecAt(c, i) = Sec[m]
               /\ \A j \in 1 .. i : r[NodeAt(c, j)] = t \/ SecAt(c, j) \in tw2
  <2>1. PICK i \in 1 .. n :
          /\ SecAt(p, i) = Sec[m]
          /\ \A j \in 1 .. i : r[NodeAt(p, j)] = t \/ SecAt(p, j) \in tw
    BY <1>1, <1>5 DEF Fits
  <2>2. \A j \in 1 .. i : j \in 1 .. n
    BY <1>2
  <2> QED BY <1>3, <2>1, <2>2
<1>6. \A i \in 1 .. l : c.items[i].has => \A j \in 1 .. l : ~c.items[j].has => i < j
  BY <1>1 DEF Continues
<1> QED BY <1>1, <1>4, <1>5, <1>6 DEF Fits, Known

\* And its switches are set as before.
LEMMA SetContinues ==
  ASSUME NEW p \in Path, Linked(p), NEW cv, NEW tw, NEW x, NEW a, SetFits(p, cv, tw, x, a),
         x # "switch", NEW c \in Path, Linked(c), Continues(c, p), NEW tw2, tw \subseteq tw2,
         NEW x2, NEW a2
  PROVE  SetFits(c, cv, tw2, x2, a2)
<1>1. PICK n, l : n = Len(p.items) /\ l = Len(c.items)
  OBVIOUS
<1>2. n \in Nat /\ l \in Nat /\ n <= l
  BY <1>1, ItemsFacts DEF Continues
<1>3. \A i \in 1 .. n : NodeAt(c, i) = NodeAt(p, i) /\ SecAt(c, i) = SecAt(p, i) /\ i \in 1 .. l
  BY <1>1, <1>2 DEF Continues, SecAt
<1>4. ASSUME NEW i \in 2 .. l, c.items[i].has
      PROVE  \/ Wants(c, i) = {}
             \/ ExemptAt(c, i, tw2)
             \/ Wants(c, i) = {"curved"} <=> SwitchNum(c, i) \in cv
  <2>1. i \in 1 .. n /\ p.items[i].has /\ i \in 2 .. n /\ i \in 1 .. l
    BY <1>1, <1>2, <1>4 DEF Continues
  <2>2. i - 1 \in 1 .. n /\ i # 1
    BY <1>2, <2>1
  <2>3. IsBranch(T, NodeAt(c, i)) => (c.items[i].curved <=> p.items[i].curved)
    <3>1. CASE i \in 1 .. (n - 1)
      <4>1. i + 1 \in 1 .. n /\ i \in 1 .. (l - 1)
        BY <1>2, <3>1
      <4>2. IsBranch(T, NodeAt(p, i)) => p.items[i].curved = Curved(T, NodeAt(p, i), NodeAt(p, i + 1))
        BY <1>1, <3>1 DEF Linked, NodeAt
      <4>3. IsBranch(T, NodeAt(c, i)) => c.items[i].curved = Curved(T, NodeAt(c, i), NodeAt(c, i + 1))
        BY <1>1, <4>1 DEF Linked, NodeAt
      <4>4. NodeAt(c, i) = NodeAt(p, i) /\ NodeAt(c, i + 1) = NodeAt(p, i + 1)
        BY <1>3, <2>1, <4>1
      <4> QED BY <4>2, <4>3, <4>4, Zenon
    <3>2. CASE c.items[i] = p.items[i]
      BY <3>2
    <3> QED BY <1>1, <1>4, <2>1, <3>1, <3>2 DEF Continues
  <2>4. Wants(c, i) = Wants(p, i) /\ SwitchNum(c, i) = SwitchNum(p, i)
    <3>1. NodeAt(c, i) = NodeAt(p, i) /\ NodeAt(c, i - 1) = NodeAt(p, i - 1)
      BY <1>3, <2>1, <2>2
    <3> QED BY <1>1, <2>1, <2>3, <3>1, WantsSame, ZenonT(30)
  <2>5. \/ Wants(p, i) = {}
        \/ ExemptAt(p, i, tw)
        \/ Wants(p, i) = {"curved"} <=> SwitchNum(p, i) \in cv
    BY <1>1, <2>1 DEF SetFits
  <2>6. ExemptAt(p, i, tw) => ExemptAt(c, i, tw2)
    BY <1>3, <2>1, <2>2, <2>4 DEF ExemptAt
  <2> QED BY <2>4, <2>5, <2>6
<1> QED BY <1>1, <1>4 DEF SetFits
-----------------------------------------------------------------------------
(* A path that turns, and the requests. *)
\* d leads over the first h items of p in the other direction.
Turned(d, p, h) ==
  /\ h \in 1 .. (Len(p.items) - 1) /\ Len(d.items) = h + 1
  /\ \A i \in 1 .. Len(p.items) : p.items[i].has <=> i <= h
  /\ \A j \in 1 .. (h + 1) : NodeAt(d, j) = Rev(T, NodeAt(p, h + 2 - j))
  /\ \A j \in 1 .. (h + 1) : d.items[j].has <=> j <= h

\* In the other direction the sections come in the other order: a section is
\* reserved from the node before it.
LEMMA TurnedSections ==
  ASSUME NEW p \in Path, Linked(p), NEW d \in Path, NEW h, Turned(d, p, h)
  PROVE  \A j \in 1 .. h : /\ h + 1 - j \in 1 .. h /\ j \in 1 .. (h + 1)
                           /\ SecAt(d, j) = SecAt(p, h + 1 - j)
<1>1. PICK n : n = Len(p.items)
  OBVIOUS
<1>2. n \in Nat /\ h \in 1 .. (n - 1) /\ Len(d.items) = h + 1
  BY <1>1, ItemsFacts DEF Turned
<1>3. ASSUME NEW j \in 1 .. h PROVE SecAt(d, j) = SecAt(p, h + 1 - j)
  <2>1. PICK o : o = h + 1 - j
    OBVIOUS
  <2>2. o \in 1 .. (n - 1) /\ h + 2 - j = o + 1 /\ j \in 1 .. (h + 1)
    BY <1>2, <2>1
  <2>3. NodeAt(d, j) = Rev(T, NodeAt(p, o + 1))
    BY <2>2 DEF Turned
  <2>4. NodeAt(p, o) \in Nodes(T) /\ EdgesTo(T, NodeAt(p, o), NodeAt(p, o + 1)) # {}
    BY <1>1, <2>2, LinkedStep DEF NodeAt
  <2>5. Sec[Rev(T, NodeAt(p, o + 1))] = Sec[NodeAt(p, o)]
    BY <2>4, EdgeBack
  <2> QED BY <2>1, <2>3, <2>5 DEF SecAt
<1>4. \A j \in 1 .. h : h + 1 - j \in 1 .. h /\ j \in 1 .. (h + 1)
  BY <1>2
<1> QED BY <1>3, <1>4

\* A train that turns back over what it holds holds it, but for what lies behind
\* a section it had twice.
LEMMA FitsTurned ==
  ASSUME NEW t \in Train, NEW p, NEW r, NEW tw, NEW lf, Fits(t, p, r, tw, lf), ResOK(r),
         NEW d \in Path, Linked(d), NEW h, Turned(d, p, h), r[NodeAt(p, h + 1)] # t,
         NEW tw2, NEW lf2, tw \subseteq tw2, lf \subseteq lf2, Known(d, tw2),
         SecAt(p, h + 1) \in tw => \A j \in (h + 2) .. Len(p.items) : SecAt(p, j) \in lf2
  PROVE  Fits(t, d, r, tw2, lf2)
<1>1. PICK n : n = Len(p.items)
  OBVIOUS
<1>2. /\ p \in Path /\ Linked(p) /\ n \in Nat /\ h \in 1 .. (n - 1) /\ Len(d.items) = h + 1
      /\ h + 1 \in 1 .. n /\ h \in Nat
  <2>1. p \in Path /\ Linked(p)
    BY DEF Fits
  <2>2. n \in Nat /\ h \in 1 .. (n - 1) /\ Len(d.items) = h + 1
    BY <1>1, <2>1, ItemsFacts DEF Turned
  <2> QED BY <2>1, <2>2
<1>3. ASSUME NEW j \in 1 .. h PROVE SecAt(d, j) \in tw2 \/ r[NodeAt(d, j)] = t
  <2>1. PICK o : o = h + 1 - j
    OBVIOUS
  <2>2. o \in 1 .. h /\ o \in 1 .. n /\ j \in 1 .. Len(d.items) /\ o <= h
    BY <1>2, <2>1
  <2>3. SecAt(d, j) = SecAt(p, o)
    <3>1. p \in Path /\ Linked(p) /\ d \in Path /\ Linked(d) /\ Turned(d, p, h)
      BY <1>2
    <3> HIDE <1>2
    <3>2. \A i \in 1 .. h : SecAt(d, i) = SecAt(p, h + 1 - i)
      BY <3>1, TurnedSections
    <3> QED BY <2>1, <3>2
  <2>4. p.items[o].has
    BY <1>1, <2>2 DEF Turned
  <2>5. SecAt(p, o) \in tw \/ r[NodeAt(p, o)] = t
    BY <1>1, <2>2, <2>4 DEF Fits
  <2>6. r[NodeAt(d, j)] = r[NodeAt(p, o)]
    <3>1. NodeAt(d, j) \in Nodes(T) /\ NodeAt(p, o) \in Nodes(T)
      BY <1>1, <1>2, <2>2, NodeAtFacts
    <3>2. NodeAt(d, j) \in Sec[NodeAt(p, o)]
      BY <2>3, <3>1, Sections DEF SecAt
    <3> QED BY <3>1, <3>2 DEF ResOK
  <2> QED BY <2>3, <2>5, <2>6
<1>4. ASSUME NEW m \in Nodes(T), r[m] = t, Sec[m] \notin lf2
      PROVE  \E i \in 1 .. (h + 1) :
               /\ SecAt(d, i) = Sec[m]
               /\ \A j \in 1 .. i : r[NodeAt(d, j)] = t \/ SecAt(d, j) \in tw2
  <2>1. PICK i \in 1 .. n :
          /\ SecAt(p, i) = Sec[m]
          /\ \A j \in 1 .. i : r[NodeAt(p, j)] = t \/ SecAt(p, j) \in tw
    BY <1>1, <1>4 DEF Fits
  <2>2. CASE i <= h
    <3>1. PICK k : k = h + 1 - i
      OBVIOUS
    <3>2. k \in 1 .. h /\ h + 1 - k = i /\ k \in 1 .. (h + 1) /\ \A j \in 1 .. k : j \in 1 .. h
      BY <1>2, <2>2, <3>1
    <3>3. SecAt(d, k) = SecAt(p, i)
      BY <1>2, <3>2, TurnedSections
    <3> QED BY <1>3, <2>1, <3>2, <3>3
  <2>3. CASE i = h + 1
    <3>1. NodeAt(p, i) \in Nodes(T)
      BY <1>1, <1>2, NodeAtFacts
    <3>2. NodeAt(p, i) \in Sec[m]
      BY <2>1, <3>1, Sections DEF SecAt
    <3>3. r[NodeAt(p, i)] = t
      BY <1>4, <3>2 DEF ResOK
    <3> QED BY <2>3, <3>3
  <2>4. CASE i > h + 1
    <3>1. h + 1 \in 1 .. i /\ i \in (h + 2) .. n
      BY <1>2, <2>4
    <3>2. SecAt(p, h + 1) \in tw
      BY <2>1, <3>1
    <3> QED BY <1>1, <1>4, <2>1, <3>1, <3>2
  <2> QED BY <1>2, <2>2, <2>3, <2>4
<1>5. \A j \in 1 .. (h + 1) : d.items[j].has <=> j <= h
  BY DEF Turned
<1>6. ASSUME NEW j \in 1 .. (h + 1), d.items[j].has
      PROVE  /\ SecAt(d, j) \in tw2 \/ r[NodeAt(d, j)] = t
             /\ \A i \in 1 .. (h + 1) : ~d.items[i].has => j < i
  <2>1. j \in 1 .. h
    BY <1>2, <1>5, <1>6
  <2>2. \A i \in 1 .. (h + 1) : ~d.items[i].has => j < i
    BY <1>2, <1>5, <2>1
  <2> QED BY <1>3, <2>1, <2>2
<1> QED BY <1>2, <1>4, <1>6 DEF Fits, Known

\* A switch that is run over from behind is wanted as it is from ahead.
LEMMA SetTurned ==
  ASSUME NEW p \in Path, Linked(p), NEW cv, NEW tw, NEW x, NEW a, SetFits(p, cv, tw, x, a),
         x # "switch", NEW d \in Path, Linked(d), NEW h, Turned(d, p, h),
         NEW tw2, tw \subseteq tw2, NEW x2, NEW a2
  PROVE  SetFits(d, cv, tw2, x2, a2)
<1>1. PICK n : n = Len(p.items)
  OBVIOUS
<1>2. /\ n \in Nat /\ h \in 1 .. (n - 1) /\ Len(d.items) = h + 1 /\ h \in Nat
      /\ \A i \in 1 .. n : p.items[i].has <=> i <= h
      /\ \A j \in 1 .. (h + 1) : NodeAt(d, j) = Rev(T, NodeAt(p, h + 2 - j))
      /\ \A j \in 1 .. (h + 1) : d.items[j].has <=> j <= h
  <2>1. n \in Nat /\ h \in 1 .. (n - 1)
    BY <1>1, ItemsFacts DEF Turned
  <2> QED BY <1>1, <2>1 DEF Turned
<1>3. ASSUME NEW i \in 2 .. (h + 1), d.items[i].has
      PROVE  \/ Wants(d, i) = {}
             \/ ExemptAt(d, i, tw2)
             \/ Wants(d, i) = {"curved"} <=> SwitchNum(d, i) \in cv
  <2>1. PICK o : o = h + 2 - i
    OBVIOUS
  <2>0. i \in 1 .. (h + 1)
    BY <1>2
  <2>2. i <= h
    BY <1>2, <1>3, <2>0
  <2>3. /\ i \in 2 .. h /\ i \in 1 .. h /\ i + 1 \in 1 .. (h + 1) /\ i - 1 \in 1 .. (h + 1)
        /\ i - 1 \in 1 .. h /\ h + 2 - i = o /\ h + 2 - (i + 1) = o - 1 /\ h + 2 - (i - 1) = o + 1
        /\ h + 1 - i = o - 1 /\ h + 1 - (i - 1) = o
        /\ o \in 2 .. h /\ o \in 1 .. n /\ o <= h /\ o - 1 \in 1 .. n /\ o + 1 \in 1 .. n
        /\ o \in 2 .. n /\ o \in 1 .. (n - 1) /\ o # 1 /\ i # 1
    BY <1>2, <2>1, <2>2
  <2>4. PICK u, v, w : u = NodeAt(p, o - 1) /\ v = NodeAt(p, o) /\ w = NodeAt(p, o + 1)
    OBVIOUS
  <2>5. u \in Nodes(T) /\ v \in Nodes(T) /\ w \in Nodes(T)
    BY <1>1, <2>3, <2>4, NodeAtFacts
  <2>6. NodeAt(d, i) = Rev(T, v) /\ NodeAt(d, i + 1) = Rev(T, u) /\ NodeAt(d, i - 1) = Rev(T, w)
    BY <1>2, <2>0, <2>3, <2>4
  <2>7. /\ Rev(T, v) \in Nodes(T) /\ Rev(T, Rev(T, v)) = v /\ Rev(T, Rev(T, w)) = w
        /\ IsBranch(T, v) <=> At(T, Rev(T, v)).type = "MERGE"
        /\ IsBranch(T, Rev(T, v)) <=> At(T, v).type = "MERGE"
    <3>1. /\ Rev(T, v) \in Nodes(T) /\ Rev(T, Rev(T, v)) = v
          /\ IsBranch(T, v) <=> At(T, Rev(T, v)).type = "MERGE"
      BY <2>5, TrackFacts DEF WellFormed
    <3>2. Rev(T, Rev(T, w)) = w
      BY <2>5, TrackFacts DEF WellFormed
    <3>3. IsBranch(T, Rev(T, v)) <=> At(T, Rev(T, Rev(T, v))).type = "MERGE"
      BY <3>1, TrackFacts DEF WellFormed
    <3> QED BY <3>1, <3>2, <3>3
  <2>8. SecAt(d, i) = SecAt(p, o - 1) /\ SecAt(d, i - 1) = SecAt(p, o)
    <3>1. \A j \in 1 .. h : SecAt(d, j) = SecAt(p, h + 1 - j)
      BY TurnedSections
    <3> QED BY <2>3, <3>1, Zenon
  <2>9. CASE IsBranch(T, v)
    <3>1. At(T, NodeAt(d, i)).type = "MERGE" /\ ~IsBranch(T, NodeAt(d, i))
      BY <2>6, <2>7, <2>9 DEF IsBranch
    <3>2. SwitchNum(d, i) = SwitchNum(p, o)
      BY <2>4, <2>6, <2>7, <2>9, <3>1 DEF SwitchNum, SwitchAt, NodeAt
    <3>3. p.items[o].curved = Curved(T, v, w)
      BY <1>1, <2>3, <2>4, <2>9 DEF Linked, NodeAt
    <3>4. /\ p.items[o].curved => Wants(p, o) = {"curved"}
          /\ ~p.items[o].curved => Wants(p, o) = {"straight"}
      BY <2>4, <2>9, WantsCases, Zenon
    <3>5. /\ Curved(T, v, w) => Wants(d, i) = {"curved"}
          /\ ~Curved(T, v, w) => Wants(d, i) = {"straight"}
      <4>1. /\ Curved(T, Rev(T, NodeAt(d, i)), Rev(T, NodeAt(d, i - 1))) => Wants(d, i) = {"curved"}
            /\ ~Curved(T, Rev(T, NodeAt(d, i)), Rev(T, NodeAt(d, i - 1))) => Wants(d, i) = {"straight"}
        BY <2>3, <3>1, WantsCases, Zenon
      <4>2. Rev(T, NodeAt(d, i)) = v /\ Rev(T, NodeAt(d, i - 1)) = w
        BY <2>6, <2>7
      <4> QED BY <4>1, <4>2, Zenon
    <3>6. Wants(d, i) = Wants(p, o)
      BY <3>3, <3>4, <3>5, Zenon
    <3> QED BY <1>1, <1>2, <2>3, <2>8, <3>2, <3>6 DEF SetFits, ExemptAt
  <2>10. CASE At(T, v).type = "MERGE"
    <3>1. ~IsBranch(T, v) /\ IsBranch(T, NodeAt(d, i))
      BY <2>6, <2>7, <2>10 DEF IsBranch
    <3>2. SwitchNum(d, i) = SwitchNum(p, o)
      BY <2>4, <2>6, <3>1 DEF SwitchNum, SwitchAt, NodeAt
    <3>3. d.items[i].curved = Curved(T, Rev(T, v), Rev(T, u))
      <4>1. i \in 1 .. (Len(d.items) - 1)
        BY <1>2, <2>3
      <4> QED BY <2>6, <3>1, <4>1 DEF Linked, NodeAt
    <3>4. /\ d.items[i].curved => Wants(d, i) = {"curved"}
          /\ ~d.items[i].curved => Wants(d, i) = {"straight"}
      BY <3>1, WantsCases, Zenon
    <3>5. /\ Curved(T, Rev(T, v), Rev(T, u)) => Wants(p, o) = {"curved"}
          /\ ~Curved(T, Rev(T, v), Rev(T, u)) => Wants(p, o) = {"straight"}
      BY <2>3, <2>4, <2>10, WantsCases, Zenon
    <3>6. Wants(d, i) = Wants(p, o)
      BY <3>3, <3>4, <3>5, Zenon
    <3> QED BY <1>1, <1>2, <2>3, <2>8, <3>2, <3>6 DEF SetFits, ExemptAt
  <2>11. CASE ~IsBranch(T, v) /\ At(T, v).type # "MERGE"
    <3>1. At(T, NodeAt(d, i)).type \notin {"BRANCH", "MERGE"}
      BY <2>6, <2>7, <2>11 DEF IsBranch
    <3> QED BY <3>1, WantsCases
  <2> QED BY <2>9, <2>10, <2>11
<1> QED BY <1>2, <1>3 DEF SetFits
-----------------------------------------------------------------------------
\* The requests.
LEMMA OwnerOfNode ==
  ASSUME NEW r, ResOK(r), NEW n \in Nodes(T)
  PROVE  GetReservation(Sec, r, n) = r[n]
<1>1. {r[m] : m \in Sec[n]} = {r[n]}
  BY Sections DEF ResOK
<1>2. CASE r[n] = UNRESERVED
  <2>1. Owners(Sec, r, n) = {}
    BY <1>1, <1>2 DEF Owners
  <2> QED BY <1>2, <2>1 DEF GetReservation
<1>3. CASE r[n] # UNRESERVED
  <2>1. Owners(Sec, r, n) = {r[n]}
    BY <1>1, <1>3 DEF Owners
  <2>2. Cardinality({r[n]}) = 1
    BY FS_Singleton
  <2>3. (CHOOSE o \in {r[n]} : TRUE) = r[n]
    OBVIOUS
  <2> QED BY <2>1, <2>2, <2>3 DEF GetReservation
<1> QED BY <1>2, <1>3

\* A section is reserved as a whole.
LEMMA ReserveOK ==
  ASSUME NEW r, ResOK(r), NEW t \in Train, NEW n \in Nodes(T)
  PROVE  ResOK(Reserve(Sec, r, n, t))
<1> DEFINE s == Reserve(Sec, r, n, t)
<1>1. s \in [Nodes(T) -> Train \cup {UNRESERVED}]
  BY DEF ResOK, Reserve
<1>2. ASSUME NEW k \in Nodes(T), NEW m \in Sec[k] PROVE s[m] = s[k]
  <2>1. m \in Nodes(T) /\ Sec[m] = Sec[k] /\ k \in Sec[k] /\ r[m] = r[k]
    BY <1>2, Sections DEF ResOK
  <2>2. m \in Sec[n] <=> k \in Sec[n]
    BY <2>1, Sections
  <2> QED BY <2>1, <2>2 DEF Reserve, ResOK
<1> QED BY <1>1, <1>2 DEF ResOK

\* A section is given back as a whole.
LEMMA ReleaseOK ==
  ASSUME NEW r, ResOK(r), NEW t \in Train, NEW n \in Nodes(T)
  PROVE  ResOK(Release(Sec, r, n, t))
<1> DEFINE s == Release(Sec, r, n, t)
<1>1. s \in [Nodes(T) -> Train \cup {UNRESERVED}]
  BY DEF ResOK, Release
<1>2. ASSUME NEW k \in Nodes(T), NEW m \in Sec[k] PROVE s[m] = s[k]
  <2>1. m \in Nodes(T) /\ Sec[m] = Sec[k] /\ k \in Sec[k] /\ r[m] = r[k]
    BY <1>2, Sections DEF ResOK
  <2>2. m \in Sec[n] <=> k \in Sec[n]
    BY <2>1, Sections
  <2> QED BY <2>1, <2>2 DEF Release, ResOK
<1> QED BY <1>1, <1>2 DEF ResOK

\* What a request for t does not touch.
Untouched(t, r, s) == \A u \in Train \ {t} : \A m \in Nodes(T) : s[m] = u <=> r[m] = u

\* reserve_path of one node, for a train that may.
LEMMA ReserveTouches ==
  ASSUME ResOK(res), NEW t \in Train, NEW n, MayReserve(t, n), HandleReserve(t, n)
  PROVE  /\ n \in Nodes(T) /\ res' = Reserve(Sec, res, n, t)
         /\ ResOK(res') /\ Untouched(t, res, res')
<1>1. n \in Nodes(T) /\ GetReservation(Sec, res, n) \in {UNRESERVED, t}
  BY DEF MayReserve, ResOK
<1>2. res[n] \in {UNRESERVED, t}
  BY <1>1, OwnerOfNode
<1>3. res' = Reserve(Sec, res, n, t)
  BY DEF HandleReserve
<1>4. \A m \in Nodes(T) : m \in Sec[n] => res[m] \in {UNRESERVED, t} /\ res'[m] = t
  BY <1>1, <1>2, <1>3 DEF Reserve, ResOK
<1>5. \A m \in Nodes(T) : m \notin Sec[n] => res'[m] = res[m]
  BY <1>3 DEF Reserve, ResOK
<1>6. UNRESERVED \notin Train
  BY ReservationAssumption
<1>7. Untouched(t, res, res')
  <2>1. ASSUME NEW u \in Train \ {t}, NEW m \in Nodes(T) PROVE res'[m] = u <=> res[m] = u
    <3>1. CASE m \in Sec[n]
      BY <1>4, <1>6, <3>1
    <3>2. CASE m \notin Sec[n]
      BY <1>5, <3>2
    <3> QED BY <3>1, <3>2
  <2> QED BY <2>1 DEF Untouched
<1> QED BY <1>1, <1>3, <1>7, ReserveOK

\* release_path of one node.
LEMMA ReleaseTouches ==
  ASSUME ResOK(res), NEW t \in Train, NEW n \in Nodes(T), HandleRelease(t, n)
  PROVE  ResOK(res') /\ Gives(t, res, res', n) /\ Untouched(t, res, res')
<1>1. MayReserve(t, n) <=> res[n] \in {UNRESERVED, t}
  BY OwnerOfNode DEF MayReserve, ResOK
<1>2. \A m \in Nodes(T) : /\ m \in Sec[n] <=> Sec[m] = Sec[n]
                          /\ m \in Sec[n] => res[m] = res[n]
  BY Sections DEF ResOK
<1>3. UNRESERVED \notin Train
  BY ReservationAssumption
<1>4. CASE res[n] \in {UNRESERVED, t}
  <2>1. res' = Release(Sec, res, n, t)
    BY <1>1, <1>4 DEF HandleRelease
  <2>2. \A m \in Nodes(T) : res'[m] = IF m \in Sec[n] /\ res[m] = t THEN UNRESERVED ELSE res[m]
    BY <2>1 DEF Release, ResOK
  <2>3. Gives(t, res, res', n)
    BY <1>2, <1>3, <2>2 DEF Gives
  <2>4. Untouched(t, res, res')
    BY <1>3, <2>2 DEF Untouched
  <2> QED BY <2>1, <2>3, <2>4, ReleaseOK
<1>5. CASE res[n] \notin {UNRESERVED, t}
  <2>1. res' = res
    BY <1>1, <1>5 DEF HandleRelease
  <2>2. Gives(t, res, res', n)
    BY <1>2, <1>5, <2>1 DEF Gives
  <2> QED BY <2>1, <2>2 DEF Untouched
<1> QED BY <1>4, <1>5
-----------------------------------------------------------------------------
(* The switches, and the step of one train. *)
\* An item that wants its switch stands on one of the two sides of a branch,
\* whose sections are those of the item and of the one before it.           
LEMMA SwitchSides ==
  ASSUME NEW p \in Path, Linked(p), NEW i \in 1 .. Len(p.items), Wants(p, i) # {}
  PROVE  LET b == SwitchAt(NodeAt(p, i))
         IN  /\ b \in Nodes(T) /\ IsBranch(T, b) /\ SwitchNum(p, i) = At(T, b).num
             /\ SecAt(p, i) \in {Sec[b], Sec[Rev(T, b)]}
             /\ i # 1 => {Sec[b], Sec[Rev(T, b)]} = {SecAt(p, i - 1), SecAt(p, i)}
<1>1. PICK v, b : v = NodeAt(p, i) /\ b = SwitchAt(v)
  OBVIOUS
<1>2. v \in Nodes(T) /\ SwitchNum(p, i) = At(T, b).num /\ SecAt(p, i) = Sec[v]
  BY <1>1, NodeAtFacts DEF SwitchNum, NodeAt
<1>3. At(T, v).type \in {"BRANCH", "MERGE"}
  BY <1>1, WantsCases
<1>4. /\ Rev(T, v) \in Nodes(T) /\ Rev(T, Rev(T, v)) = v
      /\ IsBranch(T, Rev(T, v)) <=> At(T, v).type = "MERGE"
  <2>1. Rev(T, v) \in Nodes(T) /\ Rev(T, Rev(T, v)) = v
    BY <1>2, TrackFacts DEF WellFormed
  <2>2. IsBranch(T, Rev(T, v)) <=> At(T, Rev(T, Rev(T, v))).type = "MERGE"
    BY <2>1, TrackFacts DEF WellFormed
  <2> QED BY <2>1, <2>2
<1>5. /\ b \in Nodes(T) /\ IsBranch(T, b)
      /\ b = v \/ (b = Rev(T, v) /\ Rev(T, b) = v)
  BY <1>1, <1>2, <1>3, <1>4 DEF SwitchAt, IsBranch
<1>6. ASSUME i # 1 PROVE Sec[Rev(T, v)] = SecAt(p, i - 1)
  <2>1. i - 1 \in 1 .. (Len(p.items) - 1) /\ (i - 1) + 1 = i
    BY <1>6, ItemsFacts
  <2>2. NodeAt(p, i - 1) \in Nodes(T) /\ EdgesTo(T, NodeAt(p, i - 1), v) # {}
    BY <1>1, <2>1, LinkedStep DEF NodeAt
  <2> QED BY <2>2, EdgeBack DEF SecAt
<1>7. {Sec[b], Sec[Rev(T, b)]} = {Sec[v], Sec[Rev(T, v)]}
  BY <1>5
<1>8. SecAt(p, i) \in {Sec[b], Sec[Rev(T, b)]}
  BY <1>2, <1>7
<1>9. i # 1 => {Sec[b], Sec[Rev(T, b)]} = {SecAt(p, i - 1), SecAt(p, i)}
  BY <1>2, <1>6, <1>7
<1> QED BY <1>1, <1>2, <1>5, <1>8, <1>9

\* Another switch, or one whose setting the path does not need any more.
LEMMA SwitchClash ==
  ASSUME Good, NEW t \in Train, pc[t] = "switch",
         NEW u \in Train, NEW i \in 2 .. Len(path[u].items), path[u].items[i].has,
         Wants(path[u], i) # {}, u # t \/ i # at[t],
         SwitchNum(path[u], i) = SwitchNum(path[t], at[t])
  PROVE  ExemptAt(path[u], i, twice[u])
<1>1. PICK p, q, a : p = path[u] /\ q = path[t] /\ a = at[t]
  OBVIOUS
<1>2. /\ Fits(u, p, res, twice[u], left[u]) /\ p \in Path /\ Linked(p)
      /\ Fits(t, q, res, twice[t], left[t]) /\ q \in Path /\ Linked(q)
  BY <1>1 DEF Good, Fits
<1>3. /\ a \in 1 .. Len(q.items) /\ q.items[a].has
      /\ \A j \in 1 .. Len(q.items) : q.items[j].has => j <= a
      /\ Wants(q, a) # {} /\ res[NodeAt(q, a)] = t
  BY <1>1 DEF Good, PcFits
<1>4. Len(p.items) \in Nat /\ Len(q.items) \in Nat
  BY <1>2, ItemsFacts
<1>5. i \in 1 .. Len(p.items) /\ i - 1 \in 1 .. Len(p.items) /\ i # 1
  BY <1>1, <1>4
<1>6. PICK b : b = SwitchAt(NodeAt(p, i))
  OBVIOUS
<1>7. /\ b \in Nodes(T) /\ IsBranch(T, b) /\ SwitchNum(p, i) = At(T, b).num
      /\ {Sec[b], Sec[Rev(T, b)]} = {SecAt(p, i - 1), SecAt(p, i)}
  BY <1>1, <1>2, <1>5, <1>6, SwitchSides
<1>8. PICK c : c = SwitchAt(NodeAt(q, a))
  OBVIOUS
<1>9. /\ c \in Nodes(T) /\ IsBranch(T, c) /\ SwitchNum(q, a) = At(T, c).num
      /\ SecAt(q, a) \in {Sec[c], Sec[Rev(T, c)]}
  BY <1>2, <1>3, <1>8, SwitchSides
<1>10. b = c
  <2>1. At(T, b).num = At(T, c).num
    BY <1>1, <1>7, <1>9
  <2> QED BY <1>7, <1>9, <2>1, TrackFacts DEF WellFormed
<1>11. PICK x \in {i - 1, i} : SecAt(p, x) = SecAt(q, a)
  BY <1>7, <1>9, <1>10
<1>12. x \in 1 .. Len(p.items) /\ x <= i
  BY <1>4, <1>5, <1>11
<1>13. SecAt(p, x) \in twice[u]
  <2>1. CASE u # t
    <3>1. p.items[x].has
      <4>1. p.items[i].has
        BY <1>1
      <4>2. ~p.items[x].has => i < x
        BY <1>2, <1>5, <1>12, <4>1 DEF Fits
      <4> QED BY <1>5, <1>12, <4>2
    <3>2. SecAt(p, x) \in twice[u] \/ res[NodeAt(p, x)] = u
      BY <1>2, <1>12, <3>1 DEF Fits
    <3>3. res[NodeAt(p, x)] = t
      <4>1. NodeAt(p, x) \in Nodes(T) /\ NodeAt(q, a) \in Nodes(T)
        BY <1>2, <1>3, <1>12, NodeAtFacts
      <4>2. NodeAt(p, x) \in Sec[NodeAt(q, a)]
        BY <1>11, <4>1, Sections DEF SecAt
      <4>3. res[NodeAt(p, x)] = res[NodeAt(q, a)]
        BY <4>1, <4>2 DEF Good, ResOK
      <4> QED BY <1>3, <4>3
    <3> QED BY <2>1, <3>2, <3>3
  <2>2. CASE u = t
    <3>1. p = q /\ i # a /\ i <= a
      BY <1>1, <1>3, <1>5, <2>2
    <3>2. x # a
      BY <1>3, <1>4, <1>12, <3>1
    <3> QED BY <1>2, <1>3, <1>11, <1>12, <3>1, <3>2 DEF Fits
  <2> QED BY <2>1, <2>2
<1> QED BY <1>1, <1>13 DEF ExemptAt

\* The command for one switch leaves those of every other item as they were wanted.
LEMMA SwitchSet ==
  ASSUME Good, NEW t \in Train, SetSwitch(t)
  PROVE  \A u \in Train : SetFits(path[u], curved', twice[u], pc'[u], at'[u])
<1>1. PICK num : num = SwitchNum(path[t], at[t])
  OBVIOUS
<1>2. /\ pc[t] = "switch"
      /\ curved' = IF Wants(path[t], at[t]) = {"curved"} THEN curved \cup {num}
                   ELSE IF num > 100 THEN curved ELSE curved \ {num}
  BY <1>1 DEF SetSwitch, SwitchNum, Items
<1>3. /\ pc' = [pc EXCEPT ![t] = "reserve"]
      /\ \A u \in Train \ {t} : pc'[u] = pc[u] /\ at'[u] = at[u]
  BY DEF SetSwitch, Go, Good, TypeOK
<1>4. Wants(path[t], at[t]) # {}
  BY <1>2 DEF Good, PcFits
<1>5. ASSUME NEW u \in Train, NEW i \in 2 .. Len(path[u].items), path[u].items[i].has
      PROVE  \/ Wants(path[u], i) = {}
             \/ pc'[u] = "switch" /\ at'[u] = i
             \/ ExemptAt(path[u], i, twice[u])
             \/ Wants(path[u], i) = {"curved"} <=> SwitchNum(path[u], i) \in curved'
  <2>1. CASE u = t /\ i = at[t]
    <3>1. CASE Wants(path[t], at[t]) = {"curved"}
      BY <1>1, <1>2, <2>1, <3>1
    <3>2. CASE Wants(path[t], at[t]) # {"curved"}
      <4>1. Wants(path[t], at[t]) = {"straight"}
        BY <1>4, <3>2 DEF Wants
      <4>2. CASE num > 100
        BY <1>1, <2>1, <4>1, <4>2 DEF ExemptAt
      <4>3. CASE ~(num > 100)
        BY <1>1, <1>2, <2>1, <3>2, <4>3
      <4> QED BY <4>2, <4>3
    <3> QED BY <3>1, <3>2
  <2>2. CASE u # t \/ i # at[t]
    <3>1. \/ Wants(path[u], i) = {}
          \/ pc[u] = "switch" /\ at[u] = i
          \/ ExemptAt(path[u], i, twice[u])
          \/ Wants(path[u], i) = {"curved"} <=> SwitchNum(path[u], i) \in curved
      BY <1>5 DEF Good, SetFits
    <3>2. SwitchNum(path[u], i) # num \/ Wants(path[u], i) = {} \/ ExemptAt(path[u], i, twice[u])
      BY <1>1, <1>2, <1>5, <2>2, SwitchClash
    <3>3. SwitchNum(path[u], i) # num =>
            (SwitchNum(path[u], i) \in curved <=> SwitchNum(path[u], i) \in curved')
      BY <1>2
    <3>4. pc[u] = "switch" /\ at[u] = i => pc'[u] = "switch" /\ at'[u] = i
      BY <1>3, <2>2
    <3> QED BY <3>1, <3>2, <3>3, <3>4
  <2> QED BY <2>1, <2>2
<1> QED BY <1>5 DEF SetFits
-----------------------------------------------------------------------------
\* A step of one train that leaves alone what the others have keeps Good.
LEMMA OneTrain ==
  ASSUME Good, NEW t \in Train, TypeOK', ResOK(res'), curved' = curved, Untouched(t, res, res'),
         \A u \in Train \ {t} : /\ path'[u] = path[u] /\ twice'[u] = twice[u] /\ left'[u] = left[u]
                                /\ pc'[u] = pc[u] /\ at'[u] = at[u],
         Fits(t, path'[t], res', twice'[t], left'[t]),
         PcFits(t, path'[t], res', pc'[t], at'[t]),
         SetFits(path'[t], curved, twice'[t], pc'[t], at'[t])
  PROVE  Good'
<1>1. ASSUME NEW u \in Train \ {t}
      PROVE  /\ Fits(u, path'[u], res', twice'[u], left'[u])
             /\ PcFits(u, path'[u], res', pc'[u], at'[u])
             /\ SetFits(path'[u], curved', twice'[u], pc'[u], at'[u])
  <2>1. /\ Fits(u, path[u], res, twice[u], left[u]) /\ PcFits(u, path[u], res, pc[u], at[u])
        /\ SetFits(path[u], curved, twice[u], pc[u], at[u])
    BY DEF Good
  <2>2. \A n \in Nodes(T) : res'[n] = u <=> res[n] = u
    BY DEF Untouched
  <2>3. path[u] \in Path
    BY <2>1 DEF Fits
  <2>4. Fits(u, path[u], res', twice[u], left[u])
    BY <2>1, <2>2, FitsSame
  <2>5. PcFits(u, path[u], res', pc[u], at[u])
    BY <2>1, <2>2, <2>3, PcFitsSame
  <2> QED BY <2>1, <2>4, <2>5
<1>2. \A u \in Train : /\ Fits(u, path'[u], res', twice'[u], left'[u])
                       /\ PcFits(u, path'[u], res', pc'[u], at'[u])
                       /\ SetFits(path'[u], curved', twice'[u], pc'[u], at'[u])
  BY <1>1
<1> QED BY <1>2 DEF Good
-----------------------------------------------------------------------------
(* The actions. *)
\* What Good says of a train.
LEMMA TrainFacts ==
  ASSUME Good, NEW t \in Train
  PROVE  /\ path[t] \in Path /\ Linked(path[t]) /\ Items(t) = path[t].items
         /\ DOMAIN Items(t) = 1 .. Len(Items(t)) /\ Len(Items(t)) \in Nat
         /\ Items(t) = <<>> <=> Len(Items(t)) = 0
         /\ Held(t) = {i \in 1 .. Len(Items(t)) : Items(t)[i].has}
         /\ Free(t) = {i \in 1 .. Len(Items(t)) : ~Items(t)[i].has}
         /\ Fits(t, path[t], res, twice[t], left[t])
         /\ PcFits(t, path[t], res, pc[t], at[t])
         /\ SetFits(path[t], curved, twice[t], pc[t], at[t])
         /\ \A i : SecOf(t, i) = SecAt(path[t], i)
<1>1. /\ Fits(t, path[t], res, twice[t], left[t])
      /\ PcFits(t, path[t], res, pc[t], at[t])
      /\ SetFits(path[t], curved, twice[t], pc[t], at[t])
  BY DEF Good
<1>2. path[t] \in Path /\ Linked(path[t])
  BY <1>1 DEF Fits
<1>3. Items(t) = path[t].items
  BY DEF Items
<1>4. /\ DOMAIN Items(t) = 1 .. Len(Items(t)) /\ Len(Items(t)) \in Nat
      /\ Items(t) = <<>> <=> Len(Items(t)) = 0
  BY <1>2, <1>3, ItemsFacts
<1>5. /\ Held(t) = {i \in 1 .. Len(Items(t)) : Items(t)[i].has}
      /\ Free(t) = {i \in 1 .. Len(Items(t)) : ~Items(t)[i].has}
  BY <1>4 DEF Held, Free
<1>6. \A i : SecOf(t, i) = SecAt(path[t], i)
  BY <1>3 DEF SecOf, SecAt, NodeAt
<1> QED BY <1>1, <1>2, <1>3, <1>4, <1>5, <1>6

\* The next item to reserve.
LEMMA NextFacts ==
  ASSUME Good, NEW t \in Train, Free(t) # {}
  PROVE  /\ Next1(t) \in 1 .. Len(path[t].items) /\ ~path[t].items[Next1(t)].has
         /\ \A j \in 1 .. (Next1(t) - 1) : path[t].items[j].has
         /\ Items(t)[Next1(t)].node = NodeAt(path[t], Next1(t))
         /\ NodeAt(path[t], Next1(t)) \in Nodes(T)
<1>1. Free(t) = {i \in 1 .. Len(path[t].items) : ~path[t].items[i].has}
  BY TrainFacts
<1>2. Len(path[t].items) \in Nat /\ path[t] \in Path
  BY TrainFacts
<1>3. Free(t) \in SUBSET Nat
  BY <1>1
<1>4. Next1(t) \in Free(t) /\ \A i \in Free(t) : Next1(t) <= i
  BY <1>3, Least DEF Next1
<1>5. Next1(t) \in 1 .. Len(path[t].items) /\ ~path[t].items[Next1(t)].has
  BY <1>1, <1>4
<1>6. ASSUME NEW j \in 1 .. (Next1(t) - 1) PROVE path[t].items[j].has
  <2>1. j \in 1 .. Len(path[t].items) /\ ~(Next1(t) <= j)
    BY <1>2, <1>5
  <2> QED BY <1>1, <1>4, <2>1
<1> QED BY <1>2, <1>5, <1>6, NodeAtFacts DEF Items, NodeAt

\* A step after which the train has the same path, and no loop is under way.
LEMMA SamePath ==
  ASSUME Good, NEW t \in Train, UNCHANGED <<res, curved, path, twice, left, at>>,
         NEW c, pc' = [pc EXCEPT ![t] = c], pc[t] # "switch",
         c \in {"idle", "reserve", "plan"}, c = "idle" \/ Len(path[t].items) > 0,
         stopped' \in [Train -> BOOLEAN], plans' \in Nat, turns' \in Nat
  PROVE  Good'
<1>1. pc'[t] = c /\ \A u \in Train \ {t} : pc'[u] = pc[u]
  BY DEF Good, TypeOK
<1>2. TypeOK'
  BY DEF Good, TypeOK
<1>3. /\ Fits(t, path[t], res, twice[t], left[t])
      /\ SetFits(path[t], curved, twice[t], pc[t], at[t])
  BY DEF Good
<1>4. PcFits(t, path[t], res, c, at[t])
  BY DEF PcFits
<1>5. SetFits(path[t], curved, twice[t], c, at[t])
  BY <1>3, SetMono
<1>6. ResOK(res') /\ Untouched(t, res, res')
  BY DEF Good, Untouched
<1> QED BY <1>1, <1>2, <1>3, <1>4, <1>5, <1>6, OneTrain

\* A message without a sensor.
LEMMA TickGood == ASSUME Good, NEW t \in Train, Tick(t) PROVE Good'
<1>1. /\ pc' = [pc EXCEPT ![t] = "reserve"] /\ pc[t] = "idle" /\ Items(t) # <<>>
      /\ UNCHANGED <<res, curved, path, stopped, at, plans, turns, twice, left>>
  BY DEF Tick, Go
<1>2. Len(path[t].items) > 0
  BY <1>1, TrainFacts
<1> QED BY <1>1, <1>2, SamePath DEF Good, TypeOK

\* The whole path, or far enough, is reserved.
LEMMA FullGood == ASSUME Good, NEW t \in Train, Full(t) \/ FarEnough(t) PROVE Good'
<1>1. /\ pc' = [pc EXCEPT ![t] = "plan"] /\ pc[t] = "reserve"
      /\ UNCHANGED <<res, curved, path, at, plans, turns, twice, left>>
      /\ stopped' \in [Train -> BOOLEAN]
  BY DEF Full, FarEnough, Go, Good, TypeOK
<1>2. Len(path[t].items) > 0
  BY <1>1, TrainFacts DEF PcFits
<1> QED BY <1>1, <1>2, SamePath DEF Good, TypeOK

\* A standing train has got one node more.
LEMMA ImprovedGood == ASSUME Good, NEW t \in Train, Improved(t) PROVE Good'
<1>1. /\ pc' = [pc EXCEPT ![t] = "idle"] /\ pc[t] = "reserve"
      /\ UNCHANGED <<res, curved, path, at, plans, turns, twice, left>>
      /\ stopped' \in [Train -> BOOLEAN]
  BY DEF Improved, Go, Good, TypeOK
<1> QED BY <1>1, SamePath DEF Good, TypeOK

\* The train has arrived.
LEMMA ArrivedGood == ASSUME Good, NEW t \in Train, Arrived(t) PROVE Good'
<1>1. /\ pc' = [pc EXCEPT ![t] = "idle"] /\ pc[t] = "plan"
      /\ UNCHANGED <<res, curved, path, stopped, at, plans, turns, twice, left>>
  BY DEF Arrived, Go
<1> QED BY <1>1, SamePath DEF Good, TypeOK

\* A refused request: the train that waits too long knows the section is not its own.
LEMMA RefusedGood == ASSUME Good, NEW t \in Train, Refused(t) PROVE Good'
<1>1. /\ pc[t] = "reserve" /\ Free(t) # {} /\ ~MayReserve(t, Items(t)[Next1(t)].node)
      /\ UNCHANGED <<res, curved, path, at, plans, turns, twice, left>>
      /\ stopped' \in [Train -> BOOLEAN]
  BY DEF Refused, Good, TypeOK
<1>2. Len(path[t].items) > 0
  BY <1>1, TrainFacts DEF PcFits
<1>3. CASE \E c \in {"plan", "idle"} : pc' = [pc EXCEPT ![t] = c]
  BY <1>1, <1>2, <1>3, SamePath DEF Good, TypeOK
<1>4. CASE pc' = [pc EXCEPT ![t] = "lost"]
  <2>1. pc'[t] = "lost" /\ \A u \in Train \ {t} : pc'[u] = pc[u]
    BY <1>4 DEF Good, TypeOK
  <2>2. TypeOK'
    BY <1>1, <1>4 DEF Good, TypeOK
  <2>3. /\ Fits(t, path[t], res, twice[t], left[t])
        /\ SetFits(path[t], curved, twice[t], pc[t], at[t])
    BY DEF Good
  <2>4. res[NodeAt(path[t], Next1(t))] # t
    <3>1. NodeAt(path[t], Next1(t)) \in Nodes(T) /\ ResOK(res) /\ Nodes(T) = DOMAIN res
      BY <1>1, NextFacts DEF Good, ResOK
    <3>2. GetReservation(Sec, res, NodeAt(path[t], Next1(t))) = res[NodeAt(path[t], Next1(t))]
      BY <3>1, OwnerOfNode
    <3> QED BY <1>1, <3>1, <3>2, NextFacts DEF MayReserve
  <2>5. PcFits(t, path[t], res, "lost", at[t])
    BY <1>1, <1>2, <2>4, NextFacts DEF PcFits
  <2>6. SetFits(path[t], curved, twice[t], "lost", at[t])
    BY <1>1, <2>3, SetMono
  <2>7. ResOK(res') /\ Untouched(t, res, res')
    BY <1>1 DEF Good, Untouched
  <2> QED BY <1>1, <2>1, <2>2, <2>3, <2>5, <2>6, <2>7, OneTrain
<1> QED BY <1>3, <1>4 DEF Refused, Go

\* A sensor on the path: what lies before it is to be given back.
LEMMA SensorHitGood == ASSUME Good, NEW t \in Train, SensorHit(t) PROVE Good'
<1>1. PICK i \in Held(t) :
        at' = [at EXCEPT ![t] = Min({j \in DOMAIN Items(t) : Items(t)[j].node = Items(t)[i].node})]
  BY DEF SensorHit
<1>2. PICK J : J = {j \in DOMAIN Items(t) : Items(t)[j].node = Items(t)[i].node}
  OBVIOUS
<1>3. i \in 1 .. Len(path[t].items) /\ path[t].items[i].has /\ i \in J /\ J \in SUBSET Nat
  BY <1>2, TrainFacts
<1>4. Min(J) \in J /\ Min(J) <= i
  BY <1>3, Least
<1>5. Min(J) \in 1 .. Len(path[t].items)
  BY <1>2, <1>4, TrainFacts
<1>6. path[t].items[Min(J)].has
  <2>1. ~path[t].items[Min(J)].has => i < Min(J)
    BY <1>3, <1>5 DEF Good, Fits
  <2> QED BY <1>3, <1>4, <1>5, <2>1
<1>7. /\ at' = [at EXCEPT ![t] = Min(J)] /\ Min(J) \in Nat
      /\ pc' = [pc EXCEPT ![t] = "release"] /\ pc[t] = "idle"
      /\ UNCHANGED <<res, curved, path, stopped, plans, turns, twice, left>>
  <2>1. at' = [at EXCEPT ![t] = Min(J)]
    BY <1>1, <1>2, Zenon
  <2>2. Min(J) \in Nat
    BY <1>3, <1>4
  <2>3. /\ pc' = [pc EXCEPT ![t] = "release"] /\ pc[t] = "idle"
        /\ UNCHANGED <<res, curved, path, stopped, plans, turns, twice, left>>
    BY DEF SensorHit, Go
  <2> QED BY <2>1, <2>2, <2>3
<1>8. /\ at'[t] = Min(J) /\ pc'[t] = "release"
      /\ \A u \in Train \ {t} : pc'[u] = pc[u] /\ at'[u] = at[u]
  BY <1>7 DEF Good, TypeOK
<1>9. TypeOK'
  BY <1>7 DEF Good, TypeOK
<1>10. PcFits(t, path[t], res, "release", Min(J))
  BY <1>5, <1>6, TrainFacts DEF PcFits
<1>11. /\ Fits(t, path[t], res, twice[t], left[t])
       /\ SetFits(path[t], curved, twice[t], pc[t], at[t])
  BY DEF Good
<1>12. SetFits(path[t], curved, twice[t], "release", Min(J))
  BY <1>7, <1>11, SetMono
<1>13. ResOK(res') /\ Untouched(t, res, res')
  BY <1>7 DEF Good, Untouched
<1> QED BY <1>7, <1>8, <1>9, <1>10, <1>11, <1>12, <1>13, OneTrain

\* A switch on what was just reserved is set.
LEMMA SetSwitchGood == ASSUME Good, NEW t \in Train, SetSwitch(t) PROVE Good'
<1>1. /\ pc' = [pc EXCEPT ![t] = "reserve"] /\ at' = [at EXCEPT ![t] = 0] /\ pc[t] = "switch"
      /\ UNCHANGED <<res, path, stopped, plans, turns, twice, left>>
  BY DEF SetSwitch, Go
<1>2. /\ at'[t] = 0 /\ pc'[t] = "reserve"
      /\ \A u \in Train \ {t} : pc'[u] = pc[u] /\ at'[u] = at[u]
  BY <1>1 DEF Good, TypeOK
<1>3. curved' \in SUBSET Nat
  <2>1. Wants(path[t], at[t]) # {} /\ at[t] \in 1 .. Len(path[t].items)
    BY <1>1 DEF Good, PcFits
  <2>2. path[t] \in Path /\ Linked(path[t]) /\ Items(t) = path[t].items
    BY TrainFacts
  <2>3. PICK b : b = SwitchAt(NodeAt(path[t], at[t]))
    OBVIOUS
  <2>4. b \in Nodes(T) /\ IsBranch(T, b)
    BY <2>1, <2>2, <2>3, SwitchSides
  <2>5. At(T, b).num \in Nat
    BY <2>4, TrackFacts DEF WellFormed
  <2>6. curved' \subseteq curved \cup {At(T, b).num}
    BY <2>2, <2>3 DEF SetSwitch, NodeAt
  <2> QED BY <2>5, <2>6 DEF Good, TypeOK
<1>4. TypeOK'
  BY <1>1, <1>3 DEF Good, TypeOK
<1>5. \A u \in Train : Fits(u, path[u], res, twice[u], left[u]) /\ PcFits(u, path[u], res, pc[u], at[u])
  BY DEF Good
<1>6. PcFits(t, path[t], res, "reserve", 0)
  BY <1>1, <1>5 DEF PcFits
<1>7. \A u \in Train : PcFits(u, path[u], res, pc'[u], at'[u])
  BY <1>2, <1>5, <1>6
<1>8. ResOK(res)
  BY DEF Good
<1>9. \A u \in Train : SetFits(path[u], curved', twice[u], pc'[u], at'[u])
  BY SwitchSet
<1> QED BY <1>1, <1>4, <1>5, <1>7, <1>8, <1>9 DEF Good

\* A path of which nothing is held, in the place of that of t.
LEMMA LocalizeGood == ASSUME Good, NEW t \in Train, Localize(t) PROVE Good'
<1>1. /\ pc[t] = "idle" /\ Items(t) = <<>> /\ pc' = [pc EXCEPT ![t] = "reserve"]
      /\ UNCHANGED <<res, curved, stopped, at, plans, turns, left>>
  BY DEF Localize, Go
<1>2. PICK n \in Nodes(T) : Has(t, PathOf(<<n>>))
  BY DEF Localize
<1>3. PICK p : p = PathOf(<<n>>)
  OBVIOUS
<1>4. p \in Path /\ Linked(p) /\ Unheld(p.items) /\ Len(p.items) > 0
  <2>1. <<n>> \in Seq(Nodes(T)) /\ Len(<<n>>) > 0
    OBVIOUS
  <2> QED BY <1>3, <2>1, PathOfFacts
<1>5. /\ path' \in [Train -> Path] /\ path'[t] = p
      /\ twice' \in [Train -> SUBSET SUBSET Nodes(T)] /\ Known(p, twice'[t])
      /\ \A u \in Train \ {t} : path'[u] = path[u] /\ twice'[u] = twice[u]
  <2>1. Has(t, p) /\ TypeOK
    BY <1>2, <1>3 DEF Good
  <2> QED BY <1>4, <2>1, HasFacts
<1>6. TypeOK'
  BY <1>1, <1>5 DEF Good, TypeOK
<1>7. Len(path[t].items) = 0
  BY <1>1, TrainFacts
<1>8. \A m \in Nodes(T) : res[m] = t => Sec[m] \in left[t]
  BY <1>7 DEF Good, Fits
<1>9. Fits(t, p, res, twice'[t], left[t])
  BY <1>4, <1>5, <1>8, FitsUnheld
<1>10. pc'[t] = "reserve" /\ \A u \in Train \ {t} : pc'[u] = pc[u]
  BY <1>1 DEF Good, TypeOK
<1>11. PcFits(t, p, res, "reserve", at[t])
  BY <1>4 DEF PcFits
<1>12. SetFits(p, curved, twice'[t], "reserve", at[t])
  BY <1>4, SetUnheld
<1>13. ResOK(res') /\ Untouched(t, res, res')
  BY <1>1 DEF Good, Untouched
<1> QED BY <1>1, <1>5, <1>6, <1>9, <1>10, <1>11, <1>12, <1>13, OneTrain

\* Another tree for the train: its path comes back without what it held.
LEMMA RestartGood == ASSUME Good, NEW t \in Train, Restart(t) PROVE Good'
<1>1. /\ pc[t] = "idle" /\ Has(t, Decode(T, Encode(path[t])))
      /\ UNCHANGED <<res, curved, pc, at, turns, left>>
      /\ plans' \in Nat /\ stopped' \in [Train -> BOOLEAN]
  BY DEF Restart, Good, TypeOK
<1>2. PICK p, q : p = path[t] /\ q = Decode(T, Encode(p))
  OBVIOUS
<1>3. /\ p \in Path /\ Linked(p) /\ Fits(t, p, res, twice[t], left[t])
  BY <1>2, TrainFacts
<1>4. /\ q \in Path /\ Linked(q) /\ Len(q.items) = Len(p.items)
      /\ \A i \in 1 .. Len(p.items) : q.items[i].node = p.items[i].node /\ ~q.items[i].has
  BY <1>2, <1>3, DecodeFacts
<1>5. Unheld(q.items)
  BY <1>4, ItemsFacts DEF Unheld
<1>6. /\ path' \in [Train -> Path] /\ path'[t] = q
      /\ twice' \in [Train -> SUBSET SUBSET Nodes(T)] /\ Known(q, twice'[t]) /\ twice[t] \subseteq twice'[t]
      /\ \A u \in Train \ {t} : path'[u] = path[u] /\ twice'[u] = twice[u]
  <2>1. Has(t, q) /\ TypeOK
    BY <1>1, <1>2 DEF Good
  <2> QED BY <1>4, <2>1, HasFacts
<1>7. TypeOK'
  BY <1>1, <1>6 DEF Good, TypeOK
<1>8. Fits(t, q, res, twice'[t], left[t])
  <2>1. ASSUME NEW n \in Nodes(T), res[n] = t, Sec[n] \notin left[t]
        PROVE  \E i \in 1 .. Len(q.items) :
                 /\ SecAt(q, i) = Sec[n]
                 /\ \A j \in 1 .. i : res[NodeAt(q, j)] = t \/ SecAt(q, j) \in twice'[t]
    <3>1. PICK i \in 1 .. Len(p.items) :
            /\ SecAt(p, i) = Sec[n]
            /\ \A j \in 1 .. i : res[NodeAt(p, j)] = t \/ SecAt(p, j) \in twice[t]
      BY <1>3, <2>1 DEF Fits
    <3>2. Len(p.items) \in Nat
      BY <1>3, ItemsFacts
    <3>3. \A j \in 1 .. i : j \in 1 .. Len(p.items)
      BY <3>2
    <3>4. \A j \in 1 .. Len(p.items) : NodeAt(q, j) = NodeAt(p, j) /\ SecAt(q, j) = SecAt(p, j)
      BY <1>4 DEF NodeAt, SecAt
    <3> QED BY <1>4, <1>6, <3>1, <3>3, <3>4
  <2> QED BY <1>4, <1>5, <1>6, <2>1, FitsUnheld
<1>9. PcFits(t, q, res, pc[t], at[t])
  BY <1>1 DEF PcFits
<1>10. SetFits(q, curved, twice'[t], pc[t], at[t])
  BY <1>4, <1>5, SetUnheld
<1>11. ResOK(res') /\ Untouched(t, res, res')
  BY <1>1 DEF Good, Untouched
<1> QED BY <1>1, <1>6, <1>7, <1>8, <1>9, <1>10, <1>11, OneTrain

\* One item before the sensor is given back.
LEMMA PassedGood == ASSUME Good, NEW t \in Train, Passed(t) PROVE Good'
<1>1. pc[t] = "release" /\ UNCHANGED <<curved, stopped, plans, turns, left>>
  BY DEF Passed
<1>2. PICK p, a : p = path[t] /\ a = at[t]
  OBVIOUS
<1>3. /\ p \in Path /\ Linked(p) /\ Fits(t, p, res, twice[t], left[t])
      /\ SetFits(p, curved, twice[t], pc[t], a)
      /\ a \in 1 .. Len(p.items) /\ p.items[a].has /\ Len(p.items) \in Nat /\ Len(p.items) > 0
      /\ p.items # <<>>
  <2>1. PcFits(t, p, res, pc[t], a)
    BY <1>2, TrainFacts
  <2>2. a \in 1 .. Len(p.items) /\ p.items[a].has
    BY <1>1, <2>1 DEF PcFits
  <2>3. p \in Path /\ Linked(p) /\ Fits(t, p, res, twice[t], left[t]) /\ SetFits(p, curved, twice[t], pc[t], a)
    BY <1>2, TrainFacts
  <2>4. Len(p.items) \in Nat /\ (p.items = <<>> <=> Len(p.items) = 0)
    BY <2>3, ItemsFacts
  <2> QED BY <2>2, <2>3, <2>4
<1>4. CASE a = 1
  <2>1. /\ pc' = [pc EXCEPT ![t] = "reserve"] /\ at' = [at EXCEPT ![t] = 0]
        /\ UNCHANGED <<res, path, twice>>
    BY <1>2, <1>4 DEF Passed, Go
  <2>2. /\ at'[t] = 0 /\ pc'[t] = "reserve"
        /\ \A u \in Train \ {t} : pc'[u] = pc[u] /\ at'[u] = at[u]
    BY <2>1 DEF Good, TypeOK
  <2>3. TypeOK'
    BY <1>1, <2>1 DEF Good, TypeOK
  <2>4. PcFits(t, p, res, "reserve", 0)
    BY <1>3 DEF PcFits
  <2>5. SetFits(p, curved, twice[t], "reserve", 0)
    BY <1>1, <1>3, SetMono
  <2>6. ResOK(res') /\ Untouched(t, res, res')
    BY <2>1 DEF Good, Untouched
  <2> QED BY <1>1, <1>2, <1>3, <2>1, <2>2, <2>3, <2>4, <2>5, <2>6, OneTrain
<1>5. CASE a # 1
  <2>1. /\ IF First(p).has THEN HandleRelease(t, First(p).node) ELSE UNCHANGED res
        /\ Has(t, Pop(p)) /\ at' = [at EXCEPT ![t] = @ - 1] /\ pc' = pc
    BY <1>2, <1>5 DEF Passed
  <2>2. First(p) = p.items[1] /\ 1 \in 1 .. Len(p.items)
    BY <1>3 DEF First
  <2>3. p.items[1].has
    <3>1. ~p.items[1].has => a < 1
      BY <1>3, <2>2 DEF Fits
    <3> QED BY <1>3, <3>1
  <2>4. HandleRelease(t, NodeAt(p, 1)) /\ NodeAt(p, 1) \in Nodes(T)
    BY <1>3, <2>1, <2>2, <2>3, NodeAtFacts DEF NodeAt
  <2>5. ResOK(res) /\ TypeOK
    BY DEF Good
  <2>6. ResOK(res') /\ Gives(t, res, res', NodeAt(p, 1)) /\ Untouched(t, res, res')
    BY <2>4, <2>5, ReleaseTouches
  <2>7. PICK q : q = Pop(p)
    OBVIOUS
  <2>8. /\ q \in Path /\ Linked(q) /\ Len(q.items) = Len(p.items) - 1
        /\ \A i \in 1 .. (Len(p.items) - 1) : q.items[i] = p.items[i + 1]
    BY <1>3, <2>7, PopFacts
  <2>9. /\ path' \in [Train -> Path] /\ path'[t] = q
        /\ twice' \in [Train -> SUBSET SUBSET Nodes(T)] /\ Known(q, twice'[t]) /\ twice[t] \subseteq twice'[t]
        /\ \A u \in Train \ {t} : path'[u] = path[u] /\ twice'[u] = twice[u]
    <3>1. Has(t, q)
      BY <2>1, <2>7
    <3> QED BY <2>5, <2>8, <3>1, HasFacts
  <2>10. /\ a - 1 \in Nat /\ at'[t] = a - 1 /\ at' \in [Train -> Nat]
         /\ \A u \in Train \ {t} : at'[u] = at[u]
    <3>1. a - 1 \in Nat
      BY <1>3
    <3>2. at' = [at EXCEPT ![t] = a - 1] /\ at \in [Train -> Nat]
      BY <1>2, <2>1, <2>5 DEF TypeOK
    <3> QED BY <3>1, <3>2
  <2>11. TypeOK'
    <3>1. res' \in [Nodes(T) -> Train \cup {UNRESERVED}]
      BY <2>6 DEF ResOK
    <3> QED BY <1>1, <2>1, <2>5, <2>9, <2>10, <3>1 DEF TypeOK
  <2>12. Fits(t, q, res', twice'[t], left[t])
    BY <1>3, <2>5, <2>6, <2>7, <2>9, FitsPop
  <2>13. PcFits(t, q, res', "release", a - 1)
    <3>1. a - 1 \in 1 .. (Len(p.items) - 1) /\ (a - 1) + 1 = a
      BY <1>3, <1>5
    <3>2. q.items[a - 1].has
      BY <1>3, <2>8, <3>1
    <3> QED BY <2>8, <3>1, <3>2 DEF PcFits
  <2>14. SetFits(q, curved, twice'[t], "release", a - 1)
    BY <1>1, <1>3, <2>7, <2>9, SetPop
  <2> QED BY <1>1, <2>1, <2>6, <2>9, <2>10, <2>11, <2>12, <2>13, <2>14, OneTrain
<1> QED BY <1>4, <1>5

\* The first item is given back when the train has left it.
LEMMA DropGood == ASSUME Good, NEW t \in Train, Drop(t) PROVE Good'
<1>1. /\ pc[t] = "drop" /\ UNCHANGED <<curved, stopped, at, plans, turns, left>>
      /\ pc' = [pc EXCEPT ![t] = "idle"]
  BY DEF Drop, Go
<1>2. PICK p : p = path[t]
  OBVIOUS
<1>3. /\ p \in Path /\ Linked(p) /\ Fits(t, p, res, twice[t], left[t])
      /\ SetFits(p, curved, twice[t], pc[t], at[t]) /\ PcFits(t, p, res, pc[t], at[t])
  BY <1>2, TrainFacts
<1>4. Len(p.items) > 0 /\ Len(p.items) \in Nat /\ p.items # <<>>
  <2>1. Len(p.items) > 0
    BY <1>1, <1>3 DEF PcFits
  <2> QED BY <1>3, <2>1, ItemsFacts
<1>5. /\ HandleRelease(t, First(p).node) /\ Has(t, Pop(p))
  BY <1>2 DEF Drop
<1>6. HandleRelease(t, NodeAt(p, 1)) /\ NodeAt(p, 1) \in Nodes(T)
  <2>1. First(p) = p.items[1] /\ 1 \in 1 .. Len(p.items)
    BY <1>4 DEF First
  <2> QED BY <1>3, <1>5, <2>1, NodeAtFacts DEF NodeAt
<1>7. ResOK(res) /\ TypeOK
  BY DEF Good
<1>8. ResOK(res') /\ Gives(t, res, res', NodeAt(p, 1)) /\ Untouched(t, res, res')
  BY <1>6, <1>7, ReleaseTouches
<1>9. PICK q : q = Pop(p)
  OBVIOUS
<1>10. q \in Path
  BY <1>3, <1>4, <1>9, PopFacts
<1>11. /\ path' \in [Train -> Path] /\ path'[t] = q
       /\ twice' \in [Train -> SUBSET SUBSET Nodes(T)] /\ Known(q, twice'[t]) /\ twice[t] \subseteq twice'[t]
       /\ \A u \in Train \ {t} : path'[u] = path[u] /\ twice'[u] = twice[u]
  <2>1. Has(t, q)
    BY <1>5, <1>9
  <2> QED BY <1>7, <1>10, <2>1, HasFacts
<1>12. TypeOK'
  <2>1. res' \in [Nodes(T) -> Train \cup {UNRESERVED}]
    BY <1>8 DEF ResOK
  <2> QED BY <1>1, <1>7, <1>11, <2>1 DEF TypeOK
<1>13. Fits(t, q, res', twice'[t], left[t])
  BY <1>3, <1>4, <1>7, <1>8, <1>9, <1>11, FitsPop
<1>14. PcFits(t, q, res', "idle", at[t])
  BY DEF PcFits
<1>15. SetFits(q, curved, twice'[t], "idle", at[t])
  BY <1>1, <1>3, <1>4, <1>9, <1>11, SetPop
<1>16. pc'[t] = "idle" /\ \A u \in Train \ {t} : pc'[u] = pc[u]
  BY <1>1, <1>7 DEF TypeOK
<1> QED BY <1>1, <1>8, <1>11, <1>12, <1>13, <1>14, <1>15, <1>16, OneTrain

\* The next item is reserved.
LEMMA ReserveNextGood == ASSUME Good, NEW t \in Train, ReserveNext(t) PROVE Good'
<1>1. PICK p, k : p = path[t] /\ k = Next1(t)
  OBVIOUS
<1>2. /\ pc[t] = "reserve" /\ Free(t) # {}
      /\ MayReserve(t, NodeAt(p, k)) /\ HandleReserve(t, NodeAt(p, k))
      /\ path' = [path EXCEPT ![t].items[k].has = TRUE]
      /\ UNCHANGED <<curved, stopped, plans, turns, twice, left>>
  BY <1>1 DEF ReserveNext, Items, NodeAt
<1>3. /\ p \in Path /\ Linked(p) /\ Fits(t, p, res, twice[t], left[t])
      /\ SetFits(p, curved, twice[t], pc[t], at[t])
  BY <1>1, TrainFacts
<1>4. /\ k \in 1 .. Len(p.items) /\ ~p.items[k].has
      /\ \A j \in 1 .. (k - 1) : p.items[j].has
  BY <1>1, <1>2, NextFacts
<1>5. ResOK(res) /\ TypeOK
  BY DEF Good
<1>6. PICK s : s = Reserve(Sec, res, NodeAt(p, k), t)
  OBVIOUS
<1>7. res' = s /\ ResOK(res') /\ Untouched(t, res, res')
  BY <1>2, <1>5, <1>6, ReserveTouches
<1>8. PICK q : q = Mark(p, k)
  OBVIOUS
<1>9. /\ Fits(t, q, s, twice[t], left[t]) /\ s[NodeAt(q, k)] = t
      /\ \A i \in 1 .. Len(q.items) : q.items[i].has <=> i <= k
  <2>1. FirstFree(p, k)
    BY <1>4 DEF FirstFree
  <2>2. /\ Fits(t, q, s, twice[t], left[t]) /\ s[NodeAt(q, k)] = t /\ HeldTo(q, k)
    BY <1>3, <1>5, <1>6, <1>8, <2>1, FitsReserve
  <2> QED BY <2>2 DEF HeldTo
<1>10. /\ q \in Path /\ Len(q.items) = Len(p.items)
       /\ \A i \in 1 .. Len(p.items) :
            /\ NodeAt(q, i) = NodeAt(p, i) /\ (q.items[i].curved <=> p.items[i].curved)
  BY <1>3, <1>4, <1>8, MarkFacts
<1>11. path' = [path EXCEPT ![t] = q]
  BY <1>1, <1>2, <1>8 DEF Mark
<1>12. /\ path' \in [Train -> Path] /\ path'[t] = q
       /\ \A u \in Train \ {t} : path'[u] = path[u]
  BY <1>5, <1>10, <1>11 DEF TypeOK
<1>13. Len(p.items) \in Nat
  BY <1>3, ItemsFacts
<1>14. CASE Wants(p, k) = {}
  <2>1. pc' = pc /\ at' = at
    BY <1>1, <1>14 DEF ReserveNext
  <2>2. TypeOK'
    <3>1. res' \in [Nodes(T) -> Train \cup {UNRESERVED}]
      BY <1>7 DEF ResOK
    <3> QED BY <1>2, <1>5, <1>12, <2>1, <3>1 DEF TypeOK
  <2>3. PcFits(t, q, res', "reserve", at[t])
    BY <1>4, <1>10, <1>13 DEF PcFits
  <2>4. SetFits(q, curved, twice[t], "reserve", at[t])
    <3>1. pc[t] # "switch"
      BY <1>2
    <3> QED BY <1>3, <1>4, <1>8, <1>14, <3>1, SetReserve
  <2>5. pc'[t] = "reserve" /\ at'[t] = at[t] /\ left'[t] = left[t] /\ twice'[t] = twice[t]
    BY <1>2, <2>1
  <2>6. /\ Fits(t, path'[t], res', twice'[t], left'[t])
        /\ PcFits(t, path'[t], res', pc'[t], at'[t])
        /\ SetFits(path'[t], curved, twice'[t], pc'[t], at'[t])
    BY <1>7, <1>9, <1>12, <2>3, <2>4, <2>5, Zenon
  <2>7. \A u \in Train \ {t} : /\ path'[u] = path[u] /\ twice'[u] = twice[u] /\ left'[u] = left[u]
                                /\ pc'[u] = pc[u] /\ at'[u] = at[u]
    BY <1>2, <1>12, <2>1
  <2>8. curved' = curved
    BY <1>2
  <2> QED BY <1>7, <2>2, <2>6, <2>7, <2>8, OneTrain
<1>15. CASE Wants(p, k) # {}
  <2>1. pc' = [pc EXCEPT ![t] = "switch"] /\ at' = [at EXCEPT ![t] = k]
    BY <1>1, <1>15 DEF ReserveNext, Go
  <2>2. /\ at'[t] = k /\ pc'[t] = "switch"
        /\ \A u \in Train \ {t} : pc'[u] = pc[u] /\ at'[u] = at[u]
    BY <1>5, <2>1 DEF TypeOK
  <2>3. TypeOK'
    <3>1. res' \in [Nodes(T) -> Train \cup {UNRESERVED}]
      BY <1>7 DEF ResOK
    <3>2. k \in Nat
      BY <1>4
    <3> QED BY <1>2, <1>5, <1>12, <2>1, <3>1, <3>2 DEF TypeOK
  <2>4. Wants(q, k) # {}
    <3>1. k # 1 => NodeAt(q, k - 1) = NodeAt(p, k - 1)
      <4>1. ASSUME k # 1 PROVE k - 1 \in 1 .. Len(p.items)
        BY <1>4, <1>13, <4>1
      <4> QED BY <1>10, <4>1
    <3>2. NodeAt(q, k) = NodeAt(p, k) /\ (q.items[k].curved <=> p.items[k].curved)
          /\ k \in 1 .. Len(q.items)
      BY <1>4, <1>10
    <3>3. Wants(p, k) = Wants(q, k)
      BY <1>3, <1>4, <1>10, <3>1, <3>2, WantsSame
    <3> QED BY <1>15, <3>3
  <2>5. PcFits(t, q, res', "switch", k)
    <3>1. k \in 1 .. Len(q.items) /\ q.items[k].has /\ Len(q.items) > 0
      BY <1>4, <1>9, <1>10, <1>13
    <3> QED BY <1>7, <1>9, <2>4, <3>1 DEF PcFits
  <2>6. SetFits(q, curved, twice[t], "switch", k)
    BY <1>2, <1>3, <1>4, <1>8, SetReserve
  <2> QED BY <1>2, <1>7, <1>9, <1>12, <2>2, <2>3, <2>5, <2>6, OneTrain
<1> QED BY <1>14, <1>15
-----------------------------------------------------------------------------
\* The nodes ahead.
LEMMA ImproveFacts ==
  ASSUME NEW n \in Nodes(T)
  PROVE  Improve(n) \subseteq Nodes(T)
<1>1. \A m \in Nodes(T) : Ahead1(m) \subseteq Nodes(T)
  <2>1. ASSUME NEW m \in Nodes(T), NEW e \in Outgoing(T, m) PROVE e.dest \in Nodes(T)
    BY TrackFacts DEF Outgoing, WellFormed
  <2> QED BY <2>1 DEF Ahead1
<1> QED BY <1>1 DEF Improve

\* The way to a goal.
LEMMA ToGoalFacts ==
  ASSUME NEW n \in Nodes(T), NEW g, NEW p \in ToGoal(n, g)
  PROVE  p \in Path /\ Linked(p) /\ Unheld(p.items) /\ Len(p.items) > 0
<1>1. p \in FindPath(n, g) \/ p \in FindPath(n, Rev(T, g))
  BY DEF ToGoal, OrElse
<1> QED BY <1>1, FindPathFacts

\* Two paths of which nothing is held.
LEMMA ConcatUnheld ==
  ASSUME NEW p \in Path, NEW q \in Path, Linked(p), Linked(q), Unheld(p.items), Unheld(q.items)
  PROVE  /\ Concat(T, p, q) \in Path /\ Linked(Concat(T, p, q))
         /\ Unheld(Concat(T, p, q).items)
<1>1. PICK n, k, c : n = Len(p.items) /\ k = Len(q.items) /\ c = Concat(T, p, q)
  OBVIOUS
<1>2. /\ n \in Nat /\ k \in Nat
      /\ \A i \in 1 .. n : ~p.items[i].has
      /\ \A i \in 1 .. k : ~q.items[i].has
  BY <1>1, ItemsFacts DEF Unheld
<1>3. c \in Path /\ Linked(c) /\ (c = p \/ c = q \/ (n > 0 /\ Joined(c, p, q)))
  <2>1. /\ Concat(T, p, q) \in Path /\ Linked(Concat(T, p, q))
        /\ \/ Concat(T, p, q) = p
           \/ Len(p.items) = 0 /\ Concat(T, p, q) = q
           \/ /\ Len(p.items) > 0 /\ Len(q.items) > 0
              /\ Joined(Concat(T, p, q), p, q)
    BY ConcatFacts
  <2> QED BY <1>1, <2>1, Zenon
<1>4. CASE n > 0 /\ Joined(c, p, q)
  <2>1. /\ Len(c.items) = n + k - 1
        /\ \A i \in 1 .. (n - 1) : c.items[i].has = p.items[i].has
        /\ \A j \in 1 .. k : c.items[n - 1 + j].has = q.items[j].has
    BY <1>1, <1>4 DEF Joined
  <2>2. ASSUME NEW i \in 1 .. (n + k - 1) PROVE ~c.items[i].has
    <3>1. CASE i \in 1 .. (n - 1)
      <4>1. i \in 1 .. n
        BY <1>2, <3>1
      <4> QED BY <1>2, <2>1, <3>1, <4>1, Zenon
    <3>2. CASE i \notin 1 .. (n - 1)
      <4>1. i - (n - 1) \in 1 .. k /\ n - 1 + (i - (n - 1)) = i
        BY <1>2, <1>4, <3>2
      <4>2. ~q.items[i - (n - 1)].has
        BY <1>2, <4>1
      <4> QED BY <2>1, <4>1, <4>2
    <3> QED BY <3>1, <3>2
  <2>3. DOMAIN c.items = 1 .. (n + k - 1)
    BY <1>3, <2>1, ItemsFacts
  <2> QED BY <1>1, <1>3, <2>2, <2>3 DEF Unheld
<1>5. CASE c = p \/ c = q
  BY <1>1, <1>3, <1>5
<1> QED BY <1>3, <1>4, <1>5

\* The last and the first item of a path.
LEMMA FinalFacts ==
  ASSUME NEW p \in Path, Len(p.items) > 0
  PROVE  /\ Final(p) = p.items[Len(p.items)] /\ Final(p).node \in Nodes(T)
         /\ First(p) = p.items[1] /\ First(p).node = NodeAt(p, 1) /\ First(p).node \in Nodes(T)
<1>1. Len(p.items) \in Nat /\ Len(p.items) \in 1 .. Len(p.items) /\ 1 \in 1 .. Len(p.items)
  BY ItemsFacts
<1>2. Final(p) = p.items[Len(p.items)] /\ First(p) = p.items[1]
  BY <1>1, ItemsFacts DEF Final, Last, First
<1>3. p.items[Len(p.items)] \in Item /\ p.items[1] \in Item
  BY <1>1, ItemsFacts
<1> QED BY <1>2, <1>3 DEF Item, NodeAt

\* A new way is put behind the path.
LEMMA ExtendGood == ASSUME Good, NEW t \in Train, Extend(t) PROVE Good'
<1>1. /\ pc[t] = "plan" /\ pc' = [pc EXCEPT ![t] = "idle"] /\ plans' \in Nat
      /\ UNCHANGED <<res, curved, stopped, at, turns, left>>
  BY DEF Extend, Go, Good, TypeOK
<1>2. PICK p : p = path[t]
  OBVIOUS
<1>3. /\ p \in Path /\ Linked(p) /\ Fits(t, p, res, twice[t], left[t])
      /\ SetFits(p, curved, twice[t], pc[t], at[t]) /\ PcFits(t, p, res, pc[t], at[t])
  BY <1>2, TrainFacts
<1>4. Len(p.items) > 0
  BY <1>1, <1>3 DEF PcFits
<1>5. PICK l : l = Final(p).node
  OBVIOUS
<1>6. l \in Nodes(T)
  BY <1>3, <1>4, <1>5, FinalFacts
<1>7. PICK g \in Goals, n \in Improve(l) :
        \E x \in FindPath(l, n), y \in ToGoal(n, g) : Has(t, Concat(T, p, Concat(T, x, y)))
  BY <1>2, <1>5 DEF Extend
<1>8. PICK x \in FindPath(l, n), y \in ToGoal(n, g) : Has(t, Concat(T, p, Concat(T, x, y)))
  BY <1>7
<1>9. PICK q : q = Concat(T, x, y)
  OBVIOUS
<1>10. q \in Path /\ Linked(q) /\ Unheld(q.items)
  <2>1. n \in Nodes(T)
    BY <1>6, <1>7, ImproveFacts
  <2>2. x \in Path /\ Linked(x) /\ Unheld(x.items)
    BY <1>6, <1>8, FindPathFacts
  <2>3. y \in Path /\ Linked(y) /\ Unheld(y.items)
    BY <1>8, <2>1, ToGoalFacts
  <2> QED BY <1>9, <2>2, <2>3, ConcatUnheld
<1>11. PICK c : c = Concat(T, p, q)
  OBVIOUS
<1>12. c \in Path /\ Linked(c) /\ Continues(c, p)
  BY <1>3, <1>4, <1>10, <1>11, ConcatContinues
<1>13. ResOK(res) /\ TypeOK
  BY DEF Good
<1>14. /\ path' \in [Train -> Path] /\ path'[t] = c
       /\ twice' \in [Train -> SUBSET SUBSET Nodes(T)] /\ Known(c, twice'[t]) /\ twice[t] \subseteq twice'[t]
       /\ \A u \in Train \ {t} : path'[u] = path[u] /\ twice'[u] = twice[u]
  <2>1. Has(t, c)
    BY <1>8, <1>9, <1>11
  <2> QED BY <1>12, <1>13, <2>1, HasFacts
<1>15. TypeOK'
  BY <1>1, <1>13, <1>14 DEF TypeOK
<1>16. Fits(t, c, res, twice'[t], left[t])
  BY <1>3, <1>12, <1>14, FitsContinues
<1>17. PcFits(t, c, res, "idle", at[t])
  BY DEF PcFits
<1>18. SetFits(c, curved, twice'[t], "idle", at[t])
  BY <1>1, <1>3, <1>12, <1>14, SetContinues
<1>19. pc'[t] = "idle" /\ \A u \in Train \ {t} : pc'[u] = pc[u]
  BY <1>1, <1>13 DEF TypeOK
<1>20. ResOK(res') /\ Untouched(t, res, res')
  BY <1>1, <1>13 DEF Untouched
<1> QED BY <1>1, <1>14, <1>15, <1>16, <1>17, <1>18, <1>19, <1>20, OneTrain

\* The train turns and forgets what it held.
LEMMA TurnGood == ASSUME Good, NEW t \in Train, Turn(t) PROVE Good'
<1>1. PICK p, l, new : /\ p = path[t] /\ l = Final(path[t])
                       /\ new = {SecOf(t, i) : i \in DOMAIN Items(t)}
  OBVIOUS
<1>2. /\ pc[t] = "plan" /\ pc' = [pc EXCEPT ![t] = "idle"] /\ plans' \in Nat
      /\ IF l.has THEN HandleRelease(t, l.node) ELSE UNCHANGED res
      /\ left' = [left EXCEPT ![t] = @ \cup new]
      /\ UNCHANGED <<curved, stopped, at, turns>>
  BY <1>1 DEF Turn, Go, Good, TypeOK
<1>3. /\ p \in Path /\ Linked(p) /\ Fits(t, p, res, twice[t], left[t])
      /\ PcFits(t, p, res, pc[t], at[t])
  BY <1>1, TrainFacts
<1>4. Len(p.items) > 0
  BY <1>2, <1>3 DEF PcFits
<1>5. l.node \in Nodes(T)
  BY <1>1, <1>3, <1>4, FinalFacts
<1>6. PICK g \in Goals, n \in Improve(l.node) :
        \E m \in Improve(Rev(T, n)) :
          \E x \in FindPath(Rev(T, n), m), y \in ToGoal(m, g) : Has(t, Concat(T, x, y))
  BY <1>1 DEF Turn
<1>7. PICK m \in Improve(Rev(T, n)) :
        \E x \in FindPath(Rev(T, n), m), y \in ToGoal(m, g) : Has(t, Concat(T, x, y))
  BY <1>6
<1>21. PICK x \in FindPath(Rev(T, n), m), y \in ToGoal(m, g) : Has(t, Concat(T, x, y))
  BY <1>7
<1>8. PICK q : q = Concat(T, x, y)
  OBVIOUS
<1>9. q \in Path /\ Linked(q) /\ Unheld(q.items)
  <2>0. Rev(T, n) \in Nodes(T)
    <3>1. n \in Nodes(T)
      BY <1>5, <1>6, ImproveFacts
    <3> QED BY <3>1, TrackFacts DEF WellFormed
  <2>1. m \in Nodes(T)
    BY <1>7, <2>0, ImproveFacts
  <2>2. x \in Path /\ Linked(x) /\ Unheld(x.items)
    BY <1>21, <2>0, FindPathFacts
  <2>3. y \in Path /\ Linked(y) /\ Unheld(y.items)
    BY <1>21, <2>1, ToGoalFacts
  <2> QED BY <1>8, <2>2, <2>3, ConcatUnheld
<1>10. ResOK(res) /\ TypeOK
  BY DEF Good
<1>11. /\ path' \in [Train -> Path] /\ path'[t] = q
       /\ twice' \in [Train -> SUBSET SUBSET Nodes(T)] /\ Known(q, twice'[t])
       /\ \A u \in Train \ {t} : path'[u] = path[u] /\ twice'[u] = twice[u]
  <2>1. Has(t, q)
    BY <1>21, <1>8
  <2> QED BY <1>9, <1>10, <2>1, HasFacts
<1>12. /\ ResOK(res') /\ Untouched(t, res, res')
       /\ \A v \in Nodes(T) : res'[v] = t => res[v] = t
  <2>1. CASE HandleRelease(t, l.node)
    BY <1>5, <1>10, <2>1, ReleaseTouches DEF Gives
  <2>2. CASE UNCHANGED res
    BY <1>10, <2>2 DEF Untouched
  <2> QED BY <1>2, <2>1, <2>2
<1>13. \A i \in 1 .. Len(p.items) : SecAt(p, i) \in new
  BY <1>1, TrainFacts
<1>14. new \in SUBSET SUBSET Nodes(T)
  <2>1. \A i \in DOMAIN Items(t) : SecOf(t, i) \in SUBSET Nodes(T)
    BY <1>1, <1>3, TrainFacts, NodeAtFacts
  <2> QED BY <1>1, <2>1
<1>15. /\ left' \in [Train -> SUBSET SUBSET Nodes(T)] /\ left'[t] = left[t] \cup new
       /\ \A u \in Train \ {t} : left'[u] = left[u]
  BY <1>2, <1>10, <1>14 DEF TypeOK
<1>16. TypeOK'
  <2>1. res' \in [Nodes(T) -> Train \cup {UNRESERVED}]
    BY <1>12 DEF ResOK
  <2> QED BY <1>2, <1>10, <1>11, <1>15, <2>1 DEF TypeOK
<1>17. Fits(t, q, res', twice'[t], left'[t])
  <2>1. ASSUME NEW v \in Nodes(T), res'[v] = t PROVE Sec[v] \in left'[t]
    <3>1. res[v] = t
      BY <1>12, <2>1
    <3>2. Sec[v] \in left[t] \/ \E i \in 1 .. Len(p.items) : SecAt(p, i) = Sec[v]
      BY <1>3, <3>1 DEF Fits
    <3> QED BY <1>13, <1>15, <3>2
  <2> QED BY <1>9, <1>11, <2>1, FitsUnheld
<1>18. PcFits(t, q, res', "idle", at[t])
  BY DEF PcFits
<1>19. SetFits(q, curved, twice'[t], "idle", at[t])
  BY <1>9, SetUnheld
<1>20. pc'[t] = "idle" /\ \A u \in Train \ {t} : pc'[u] = pc[u]
  BY <1>2, <1>10 DEF TypeOK
<1> QED BY <1>2, <1>11, <1>12, <1>15, <1>16, <1>17, <1>18, <1>19, <1>20, OneTrain

\* Behind a section that the path has twice, all is forgotten.
Forgotten(p, k, tw, lf) ==
  SecAt(p, k) \in tw => \A j \in (k + 1) .. Len(p.items) : SecAt(p, j) \in lf

\* A train that turns back, over what it holds, to a way that is not held.
LEMMA BackFits ==
  ASSUME NEW t \in Train, NEW p, NEW r, NEW tw, NEW lf, Fits(t, p, r, tw, lf), ResOK(r),
         NEW k, FirstFree(p, k), r[NodeAt(p, k)] # t,
         NEW cv, NEW a, SetFits(p, cv, tw, "lost", a),
         NEW q \in Path, Linked(q), Unheld(q.items), Len(q.items) > 0,
         NEW c, c = Concat(T, HeldPart(Reversed(T, p)), q),
         NEW tw2, tw \subseteq tw2, Known(c, tw2), NEW lf2, lf \subseteq lf2,
         Forgotten(p, k, tw, lf2)
  PROVE  /\ c \in Path /\ Len(c.items) > 0 /\ Fits(t, c, r, tw2, lf2)
         /\ \A x, b : SetFits(c, cv, tw2, x, b)
<1>1. PICK n, h, d : n = Len(p.items) /\ h = k - 1 /\ d = HeldPart(Reversed(T, p))
  OBVIOUS
<1>2. /\ p \in Path /\ Linked(p) /\ n \in Nat /\ k \in 1 .. n /\ n > 0
      /\ h \in 0 .. (n - 1) /\ h + 1 = k /\ h + 2 = k + 1
  <2>1. p \in Path /\ Linked(p)
    BY DEF Fits
  <2>2. n \in Nat /\ k \in 1 .. n
    BY <1>1, <2>1, ItemsFacts DEF FirstFree
  <2> QED BY <1>1, <2>1, <2>2
<1>3. \A i \in 1 .. n : p.items[i].has <=> i <= h
  <2>1. ASSUME NEW i \in 1 .. n, p.items[i].has PROVE i <= h
    <3>1. i < k
      BY <1>1, <1>2, <2>1 DEF Fits, FirstFree
    <3> QED BY <1>1, <1>2, <3>1
  <2>2. ASSUME NEW i \in 1 .. n, i <= h PROVE p.items[i].has
    <3>1. i \in 1 .. (k - 1)
      BY <1>1, <1>2, <2>2
    <3> QED BY <3>1 DEF FirstFree
  <2> QED BY <2>1, <2>2
<1>4. /\ d \in Path /\ Linked(d)
      /\ h = 0 => Len(d.items) = 0
      /\ h > 0 =>
           /\ Len(d.items) = h + 1
           /\ \A j \in 1 .. (h + 1) : d.items[j].node = Rev(T, p.items[h + 2 - j].node)
           /\ \A j \in 1 .. h : d.items[j].has
           /\ ~d.items[h + 1].has
  <2>1. /\ h \in 0 .. (Len(p.items) - 1) /\ Len(p.items) > 0
        /\ \A i \in 1 .. Len(p.items) : p.items[i].has <=> i <= h
    BY <1>1, <1>2, <1>3
  <2>2. d = HeldPart(Reversed(T, p)) /\ p \in Path /\ Linked(p)
    BY <1>1, <1>2
  <2> HIDE <1>1, <1>2, <1>3
  <2> QED BY <2>1, <2>2, TurnedFacts
<1>5. c = Concat(T, d, q)
  BY <1>1
<1>6. SecAt(p, h + 1) \in tw => \A j \in (h + 2) .. Len(p.items) : SecAt(p, j) \in lf2
  BY <1>2 DEF Forgotten
<1>7. CASE h = 0
  <2>1. c = q
    BY <1>4, <1>5, <1>7, ConcatFacts
  <2>2. ASSUME NEW m \in Nodes(T), r[m] = t PROVE Sec[m] \in lf2
    <3>1. SUFFICES ASSUME Sec[m] \notin lf PROVE Sec[m] \in lf2
      OBVIOUS
    <3>2. PICK i \in 1 .. n :
            /\ SecAt(p, i) = Sec[m]
            /\ \A j \in 1 .. i : r[NodeAt(p, j)] = t \/ SecAt(p, j) \in tw
      BY <1>1, <2>2, <3>1 DEF Fits
    <3>3. k = 1 /\ 1 \in 1 .. i
      BY <1>1, <1>2, <1>7
    <3>4. SecAt(p, 1) \in tw
      BY <3>2, <3>3
    <3>5. i # 1
      <4>1. ASSUME i = 1 PROVE FALSE
        <5>1. NodeAt(p, 1) \in Nodes(T) /\ NodeAt(p, 1) \in Sec[m]
          BY <1>1, <1>2, <3>2, <4>1, NodeAtFacts, Sections DEF SecAt
        <5>2. r[NodeAt(p, 1)] = t
          BY <2>2, <5>1 DEF ResOK
        <5> QED BY <3>3, <5>2
      <4> QED BY <4>1
    <3>6. i \in (k + 1) .. Len(p.items)
      BY <1>1, <1>2, <3>3, <3>5
    <3> QED BY <3>2, <3>3, <3>4, <3>6 DEF Forgotten
  <2>3. Fits(t, c, r, tw2, lf2)
    BY <2>1, <2>2, FitsUnheld
  <2>4. \A x, b : SetFits(c, cv, tw2, x, b)
    BY <2>1, SetUnheld
  <2> QED BY <2>1, <2>3, <2>4
<1>8. CASE h > 0
  <2>1. Turned(d, p, h)
    <3>1. h \in 1 .. (Len(p.items) - 1) /\ Len(d.items) = h + 1
      BY <1>1, <1>2, <1>4, <1>8
    <3>2. \A j \in 1 .. (h + 1) : NodeAt(d, j) = Rev(T, NodeAt(p, h + 2 - j))
      BY <1>4, <1>8 DEF NodeAt
    <3>3. \A j \in 1 .. (h + 1) : d.items[j].has <=> j <= h
      <4>1. ASSUME NEW j \in 1 .. (h + 1) PROVE d.items[j].has <=> j <= h
        <5>1. CASE j \in 1 .. h
          BY <1>2, <1>4, <1>8, <5>1
        <5>2. CASE j \notin 1 .. h
          <6>1. j = h + 1 /\ ~(j <= h)
            BY <1>2, <5>2
          <6> QED BY <1>4, <1>8, <6>1
        <5> QED BY <5>1, <5>2
      <4> QED BY <4>1
    <3> QED BY <1>1, <1>3, <3>1, <3>2, <3>3 DEF Turned
  <2>2. Known(d, tw2) /\ Continues(c, d) /\ c \in Path /\ Linked(c) /\ Fits(t, d, r, tw2, lf2)
    <3>1. Len(d.items) > 0 /\ Len(d.items) \in Nat
      BY <1>2, <1>4, <1>8
    <3>2. /\ c \in Path /\ Linked(c)
          /\ c = d \/ (Len(q.items) > 0 /\ Joined(c, d, q))
      <4>1. /\ Concat(T, d, q) \in Path /\ Linked(Concat(T, d, q))
            /\ \/ Concat(T, d, q) = d
               \/ Len(d.items) = 0 /\ Concat(T, d, q) = q
               \/ /\ Len(d.items) > 0 /\ Len(q.items) > 0
                  /\ Joined(Concat(T, d, q), d, q)
        BY <1>4, ConcatFacts
      <4> QED BY <1>5, <3>1, <4>1
    <3>3. Known(d, tw2)
      <4>1. CASE c = d
        BY <4>1
      <4>2. CASE Joined(c, d, q)
        <5>1. Len(d.items) <= Len(c.items)
          BY <3>1, <4>2, ItemsFacts DEF Joined
        <5>2. ASSUME NEW i \in 1 .. Len(d.items) PROVE NodeAt(c, i) = NodeAt(d, i)
          <6>1. CASE i = Len(d.items)
            <7>1. 1 \in 1 .. Len(q.items) /\ Len(d.items) - 1 + 1 = i
              BY <3>1, <6>1, ItemsFacts
            <7>2. /\ c.items[Len(d.items) - 1 + 1].node = q.items[1].node
                  /\ q.items[1].node = d.items[Len(d.items)].node
              BY <4>2, <7>1 DEF Joined
            <7> QED BY <6>1, <7>1, <7>2 DEF NodeAt
          <6>2. CASE i # Len(d.items)
            <7>1. i \in 1 .. (Len(d.items) - 1)
              BY <3>1, <6>2
            <7> QED BY <4>2, <7>1 DEF Joined, NodeAt
          <6> QED BY <6>1, <6>2
        <5>3. Len(c.items) \in Nat
          BY <3>2, ItemsFacts
        <5>4. \A i \in 1 .. Len(d.items) : i \in 1 .. Len(c.items)
          BY <3>1, <5>1, <5>3
        <5> QED BY <5>2, <5>4 DEF Known, SecAt
      <4> QED BY <3>2, <4>1, <4>2
    <3>4. Fits(t, d, r, tw2, lf2)
      BY <1>2, <1>4, <1>6, <2>1, <3>3, FitsTurned
    <3>5. Continues(c, d)
      BY <1>5, <3>1, <3>4, ConcatContinues
    <3> QED BY <3>2, <3>3, <3>4, <3>5
  <2>3. Fits(t, c, r, tw2, lf2)
    BY <2>2, FitsContinues
  <2>4. SetFits(d, cv, tw2, "idle", a)
    BY <1>2, <1>4, <2>1, SetTurned
  <2>5. \A x, b : SetFits(c, cv, tw2, x, b)
    BY <1>4, <2>2, <2>4, SetContinues
  <2>6. Len(c.items) > 0
    <3>1. Len(d.items) > 0 /\ Len(d.items) <= Len(c.items) /\ Len(d.items) \in Nat
      BY <1>2, <1>4, <1>8, <2>2 DEF Continues
    <3>2. Len(c.items) \in Nat
      BY <2>2, ItemsFacts
    <3> QED BY <3>1, <3>2
  <2> QED BY <2>2, <2>3, <2>5, <2>6
<1> QED BY <1>2, <1>7, <1>8

\* A train that has waited too long turns back.
LEMMA DeadlockGood == ASSUME Good, NEW t \in Train, Deadlock(t) PROVE Good'
<1>1. PICK p, over : p = path[t] /\ over = Overrun(t)
  OBVIOUS
<1>2. /\ pc[t] = "lost" /\ turns' \in Nat
      /\ left' = [left EXCEPT ![t] = @ \cup over]
      /\ UNCHANGED <<res, curved, stopped, at, plans>>
  BY <1>1 DEF Deadlock, Good, TypeOK
<1>3. PICK where \in {"idle", "drop"} : pc' = [pc EXCEPT ![t] = where]
  BY DEF Deadlock, Go
<1>4. /\ p \in Path /\ Linked(p) /\ Fits(t, p, res, twice[t], left[t])
      /\ SetFits(p, curved, twice[t], pc[t], at[t]) /\ PcFits(t, p, res, pc[t], at[t])
      /\ Items(t) = p.items /\ DOMAIN Items(t) = 1 .. Len(p.items) /\ Len(p.items) \in Nat
      /\ \A i : SecOf(t, i) = SecAt(p, i)
  BY <1>1, TrainFacts
<1>5. PICK k : FirstFree(p, k) /\ res[NodeAt(p, k)] # t /\ k = Next1(t)
  <2>1. PICK j \in 1 .. Len(p.items) :
          /\ ~p.items[j].has /\ \A i \in 1 .. (j - 1) : p.items[i].has
          /\ res[NodeAt(p, j)] # t
    BY <1>2, <1>4 DEF PcFits
  <2>2. Free(t) # {}
    BY <1>4, <2>1 DEF Free, Held
  <2>3. /\ Next1(t) \in 1 .. Len(p.items) /\ ~p.items[Next1(t)].has
        /\ \A i \in 1 .. (Next1(t) - 1) : p.items[i].has
    BY <1>1, <2>2, NextFacts
  <2>4. j = Next1(t)
    <3>1. ASSUME j < Next1(t) PROVE FALSE
      <4>1. j \in 1 .. (Next1(t) - 1)
        BY <1>4, <2>3, <3>1
      <4> QED BY <2>1, <2>3, <4>1
    <3>2. ASSUME Next1(t) < j PROVE FALSE
      <4>1. Next1(t) \in 1 .. (j - 1)
        BY <1>4, <2>3, <3>2
      <4> QED BY <2>1, <2>3, <4>1
    <3> QED BY <1>4, <2>3, <3>1, <3>2
  <2> QED BY <2>1, <2>3, <2>4 DEF FirstFree
<1>6. ResOK(res) /\ TypeOK
  BY DEF Good
<1>7. Len(p.items) > 0
  BY <1>2, <1>4 DEF PcFits
<1>8. over \in SUBSET SUBSET Nodes(T)
  <2>1. \A i \in DOMAIN Items(t) : SecOf(t, i) \in SUBSET Nodes(T)
    BY <1>4, NodeAtFacts
  <2> QED BY <1>1, <2>1 DEF Overrun
<1>9. SecAt(p, k) \in twice[t] => \A j \in (k + 1) .. Len(p.items) : SecAt(p, j) \in over
  <2>1. ASSUME SecAt(p, k) \in twice[t], NEW j \in (k + 1) .. Len(p.items) PROVE SecAt(p, j) \in over
    <3>1. over = {SecOf(t, i) : i \in {l \in DOMAIN Items(t) : l > Next1(t)}}
      BY <1>1, <1>4, <1>5, <2>1 DEF Overrun
    <3>2. j \in DOMAIN Items(t) /\ j > Next1(t)
      BY <1>4, <1>5 DEF FirstFree
    <3> QED BY <1>4, <3>1, <3>2
  <2> QED BY <2>1
<1>10. /\ left' \in [Train -> SUBSET SUBSET Nodes(T)] /\ left'[t] = left[t] \cup over
       /\ \A u \in Train \ {t} : left'[u] = left[u]
  BY <1>2, <1>6, <1>8 DEF TypeOK
<1>11. /\ pc'[t] = where /\ \A u \in Train \ {t} : pc'[u] = pc[u]
       /\ pc' \in [Train -> {"idle", "release", "reserve", "switch", "plan", "lost", "drop"}]
  BY <1>3, <1>6 DEF TypeOK
<1>12. ResOK(res') /\ Untouched(t, res, res')
  BY <1>2, <1>6 DEF Untouched
<1>13. CASE UNCHANGED <<path, twice>>
  <2>1. TypeOK'
    BY <1>2, <1>6, <1>10, <1>11, <1>13 DEF TypeOK
  <2>2. Fits(t, p, res, twice[t], left'[t])
    BY <1>4, <1>10, FitsMono
  <2>3. SetFits(p, curved, twice[t], where, at[t])
    BY <1>2, <1>4, SetMono
  <2>4. PcFits(t, p, res, where, at[t])
    BY <1>7 DEF PcFits
  <2> QED BY <1>1, <1>2, <1>10, <1>11, <1>12, <1>13, <2>1, <2>2, <2>3, <2>4, OneTrain
<1>14. CASE \E q \in FindPath(Rev(T, First(p).node), Final(p).node) :
              Has(t, Concat(T, HeldPart(Reversed(T, p)), q))
  <2>1. PICK q \in FindPath(Rev(T, First(p).node), Final(p).node) :
          Has(t, Concat(T, HeldPart(Reversed(T, p)), q))
    BY <1>14
  <2>2. q \in Path /\ Linked(q) /\ Unheld(q.items) /\ Len(q.items) > 0
    <3>1. First(p).node \in Nodes(T)
      BY <1>4, <1>7, FinalFacts
    <3>2. Rev(T, First(p).node) \in Nodes(T)
      BY <3>1, TrackFacts DEF WellFormed
    <3> QED BY <2>1, <3>2, FindPathFacts
  <2>3. PICK c : c = Concat(T, HeldPart(Reversed(T, p)), q)
    OBVIOUS
  <2>4. c \in Path
    <3>1. Reversed(T, p) \in Path /\ Linked(Reversed(T, p))
      BY <1>4, <1>7, ReversedFacts
    <3>2. \E h \in 0 .. (Len(p.items) - 1) : \A i \in 1 .. Len(p.items) : p.items[i].has <=> i <= h
      <4>1. ASSUME NEW i \in 1 .. Len(p.items) PROVE p.items[i].has <=> i <= k - 1
        <5>1. CASE p.items[i].has
          <6>1. i < k
            BY <1>4, <1>5, <5>1 DEF Fits, FirstFree
          <6> QED BY <1>4, <1>5, <5>1, <6>1 DEF FirstFree
        <5>2. CASE ~p.items[i].has
          <6>1. i \notin 1 .. (k - 1)
            BY <1>5, <5>2 DEF FirstFree
          <6>2. ~(i <= k - 1)
            BY <1>4, <1>5, <6>1 DEF FirstFree
          <6> QED BY <5>2, <6>2
        <5> QED BY <5>1, <5>2
      <4>2. k - 1 \in 0 .. (Len(p.items) - 1)
        BY <1>4, <1>5 DEF FirstFree
      <4> QED BY <4>1, <4>2
    <3>3. HeldPart(Reversed(T, p)) \in Path /\ Linked(HeldPart(Reversed(T, p)))
      BY <1>4, <1>7, <3>2, TurnedFacts
    <3> QED BY <2>2, <2>3, <3>3, ConcatFacts
  <2>5. /\ path' \in [Train -> Path] /\ path'[t] = c
        /\ twice' \in [Train -> SUBSET SUBSET Nodes(T)] /\ Known(c, twice'[t]) /\ twice[t] \subseteq twice'[t]
        /\ \A u \in Train \ {t} : path'[u] = path[u] /\ twice'[u] = twice[u]
    <3>1. Has(t, c)
      BY <2>1, <2>3
    <3> QED BY <1>6, <2>4, <3>1, HasFacts
  <2>6. TypeOK'
    BY <1>2, <1>6, <1>10, <1>11, <2>5 DEF TypeOK
  <2>7. /\ Len(c.items) > 0 /\ Fits(t, c, res, twice'[t], left'[t])
        /\ \A x, b : SetFits(c, curved, twice'[t], x, b)
    <3>1. SetFits(p, curved, twice[t], "lost", at[t])
      BY <1>2, <1>4
    <3>2. Forgotten(p, k, twice[t], left'[t])
      BY <1>9, <1>10 DEF Forgotten
    <3>3. left[t] \subseteq left'[t]
      BY <1>10
    <3>4. FirstFree(p, k) /\ res[NodeAt(p, k)] # t /\ Fits(t, p, res, twice[t], left[t])
      BY <1>4, <1>5
    <3>5. ResOK(res) /\ twice[t] \subseteq twice'[t] /\ Known(c, twice'[t])
      BY <1>6, <2>5
    <3> QED BY <2>2, <2>3, <3>1, <3>2, <3>3, <3>4, <3>5, BackFits
  <2>8. PcFits(t, c, res, where, at[t])
    BY <2>7 DEF PcFits
  <2> QED BY <1>2, <1>10, <1>11, <1>12, <2>5, <2>6, <2>7, <2>8, OneTrain
<1> QED BY <1>1, <1>13, <1>14 DEF Deadlock
-----------------------------------------------------------------------------
\* Nothing is reserved at the start.
LEMMA InitGood == ASSUME Init PROVE Good
<1>1. ASSUME NEW t \in Train
      PROVE  /\ path[t] \in Path /\ Linked(path[t]) /\ Unheld(path[t].items)
             /\ Known(path[t], {})
  <2>1. path[t] = PathOf(Start[t])
    BY DEF Init
  <2>2. PICK w : w = Start[t]
    OBVIOUS
  <2>3. w \in Seq(Nodes(T)) /\ Len(w) <= 1
    <3>1. w = <<>> \/ \E n \in Nodes(T) : w = <<n>>
      BY <2>2, ReservationAssumption
    <3>2. CASE w = <<>>
      BY <3>2
    <3>3. ASSUME NEW n \in Nodes(T), w = <<n>> PROVE w \in Seq(Nodes(T)) /\ Len(w) <= 1
      BY <3>3
    <3> QED BY <3>1, <3>2, <3>3
  <2>4. PathOf(w) \in Path /\ Linked(PathOf(w)) /\ Unheld(PathOf(w).items)
    BY <2>3, PathOfFacts
  <2>5. Len(PathOf(w).items) <= 1
    <3>1. PICK xs : xs = [i \in DOMAIN w |-> PathNode(w[i])]
      OBVIOUS
    <3>2. Len(w) \in Nat /\ DOMAIN w = 1 .. Len(w) /\ \A i \in 1 .. Len(w) : w[i] \in Nodes(T)
      BY <2>3, LenProperties, ElementOfSeq
    <3>3. xs \in [1 .. Len(w) -> Item]
      BY <3>1, <3>2, NodeFacts
    <3>4. xs \in Seq(Item) /\ Len(xs) = Len(w)
      BY <3>2, <3>3, FunctionSeq
    <3>5. Len(xs) <= TRACK_MAX /\ \A i \in 1 .. (Len(xs) - 1) : FALSE
      BY <2>3, <3>2, <3>4, TrackMax
    <3>6. Len(PushAll(T, EmptyPath, xs).items) = Len(xs)
      BY <3>4, <3>5, PushFromEmpty
    <3> QED BY <2>3, <3>1, <3>4, <3>6 DEF PathOf
  <2>6. Known(PathOf(w), {})
    <3>1. Len(PathOf(w).items) \in Nat
      BY <2>4, ItemsFacts
    <3>2. \A i, j \in 1 .. Len(PathOf(w).items) : i = j
      BY <2>5, <3>1
    <3> QED BY <3>2 DEF Known
  <2> QED BY <2>1, <2>2, <2>4, <2>6
<1>2. /\ res \in [Nodes(T) -> Train \cup {UNRESERVED}] /\ ResOK(res)
      /\ \A t \in Train : \A n \in Nodes(T) : res[n] # t
  <2>1. \A n \in Nodes(T) : res[n] = UNRESERVED
    BY DEF Init
  <2>2. UNRESERVED \notin Train
    BY ReservationAssumption
  <2> QED BY <2>1, <2>2, Sections DEF Init, ResOK
<1>3. curved \in SUBSET Nat
  <2>1. \A m \in Nodes(T) : IsBranch(T, m) => At(T, m).num \in Nat
    BY TrackFacts DEF WellFormed
  <2> QED BY <2>1 DEF Init
<1>4. TypeOK
  <2>1. path \in [Train -> Path]
    BY <1>1 DEF Init
  <2> QED BY <1>2, <1>3, <2>1 DEF Init, TypeOK
<1>5. ASSUME NEW t \in Train
      PROVE  /\ Fits(t, path[t], res, twice[t], left[t])
             /\ PcFits(t, path[t], res, pc[t], at[t])
             /\ SetFits(path[t], curved, twice[t], pc[t], at[t])
  <2>1. pc[t] = "idle" /\ twice[t] = {}
    BY DEF Init
  <2>2. Fits(t, path[t], res, twice[t], left[t])
    BY <1>1, <1>2, <2>1, FitsUnheld
  <2>3. PcFits(t, path[t], res, pc[t], at[t])
    BY <2>1 DEF PcFits
  <2> QED BY <1>1, <2>2, <2>3, SetUnheld
<1> QED BY <1>2, <1>4, <1>5 DEF Good

\* A step that changes nothing.
LEMMA StutterGood == ASSUME Good, UNCHANGED vars PROVE Good'
<1>1. UNCHANGED <<res, curved, path, stopped, pc, at, plans, turns, twice, left>>
  BY DEF vars, trains
<1>2. TypeOK'
  BY <1>1 DEF Good, TypeOK
<1>3. \A t \in Train : /\ Fits(t, path[t], res, twice[t], left[t])
                       /\ PcFits(t, path[t], res, pc[t], at[t])
                       /\ SetFits(path[t], curved, twice[t], pc[t], at[t])
  BY DEF Good
<1>4. ResOK(res)
  BY DEF Good
<1> QED BY <1>1, <1>2, <1>3, <1>4 DEF Good

\* Every step of every train keeps Good.
LEMMA NextGood == ASSUME Good, [Next]_vars PROVE Good'
<1>1. CASE UNCHANGED vars
  BY <1>1, StutterGood
<1>2. ASSUME NEW t \in Train, Step(t) PROVE Good'
  BY <1>2, TickGood, SensorHitGood, LocalizeGood, PassedGood, ReserveNextGood, SetSwitchGood,
     FullGood, ImprovedGood, RefusedGood, DeadlockGood, DropGood, ArrivedGood, ExtendGood,
     TurnGood, RestartGood DEF Step
<1> QED BY <1>1, <1>2 DEF Next

\* The inductive invariant of the reservations, for every track, any number of
\* trains, goals, plans and turns.
THEOREM ReservationInvariant == Spec => []IInv
<1>1. Init => Good
  BY InitGood
<1>2. Good /\ [Next]_vars => Good'
  BY NextGood
<1>3. Good <=> IInv
  BY GoodIsIInv
<1> QED BY <1>1, <1>2, <1>3, PTL DEF Spec

\* What a train believes to hold it does hold, and the nodes it holds are the
\* first of its path: sensors, releases and requests of all trains in between.
THEOREM HeldIsReserved == Spec => []HeldIsOwned
<1>1. IInv => HeldIsOwned
  BY DEF IInv
<1> QED BY <1>1, ReservationInvariant, PTL

\* No train keeps a section that its path does not lead over, unless it forgot
\* it in one of the two turns.
THEOREM ReservedIsAhead == Spec => []OwnedIsWanted
<1>1. IInv => OwnedIsWanted
  BY DEF IInv, OwnedAhead, OwnedIsWanted
<1> QED BY <1>1, ReservationInvariant, PTL

\* The switches on what a train holds are as its path wants them, whatever the
\* other trains have set in the meantime.
THEOREM SwitchesAreSet == Spec => []SwitchesSet
<1>1. IInv => SwitchesSet
  BY DEF IInv
<1> QED BY <1>1, ReservationInvariant, PTL

\* get_reservation never meets two owners.
THEOREM NeverAConflict == Spec => []NoConflict
<1>1. IInv => NoConflict
  BY DEF IInv
<1> QED BY <1>1, ReservationInvariant, PTL
-----------------------------------------------------------------------------
(* The locks. *)
\* What any step of any train does to the reservations.
RequestStep ==
  \/ res' = res
  \/ \E t \in Train, n \in Nodes(T) :
       /\ MayReserve(t, n)
       /\ res' \in {Reserve(Sec, res, n, t), Release(Sec, res, n, t)}

\* Every step makes one request at most.
LEMMA NextRequests == ASSUME ResOK(res), [Next]_vars PROVE RequestStep
<1> USE DEF HandleReserve, HandleRelease
<1>0. \A t, n : MayReserve(t, n) => n \in Nodes(T)
  BY DEF MayReserve, ResOK
<1>1. CASE UNCHANGED vars
  BY <1>1 DEF vars, RequestStep
<1>2. CASE Next
  <2>1. PICK t \in Train : Step(t)
    BY <1>2 DEF Next
  <2>2. CASE Tick(t) \/ SensorHit(t) \/ Localize(t)
    BY <2>2 DEF Tick, SensorHit, Localize, RequestStep
  <2>3. CASE Passed(t)
    BY <1>0, <2>3 DEF Passed, RequestStep
  <2>4. CASE ReserveNext(t)
    BY <1>0, <2>4 DEF ReserveNext, RequestStep
  <2>5. CASE SetSwitch(t) \/ Full(t) \/ FarEnough(t) \/ Improved(t) \/ Refused(t)
    BY <2>5 DEF SetSwitch, Full, FarEnough, Improved, Refused, RequestStep
  <2>6. CASE Deadlock(t) \/ Arrived(t) \/ Extend(t) \/ Restart(t)
    BY <2>6 DEF Deadlock, Arrived, Extend, Restart, RequestStep
  <2>7. CASE Drop(t)
    BY <1>0, <2>7 DEF Drop, RequestStep
  <2>8. CASE Turn(t)
    BY <1>0, <2>8 DEF Turn, RequestStep
  <2> QED BY <2>1, <2>2, <2>3, <2>4, <2>5, <2>6, <2>7, <2>8 DEF Step
<1> QED BY <1>1, <1>2

\* A request keeps the sections whole.
LEMMA ResInductive == ASSUME ResOK(res), RequestStep PROVE ResOK(res')
  BY ReserveOK, ReleaseOK DEF RequestStep

\* At the start no section is reserved.
LEMMA InitOK == Init => ResOK(res)
  BY Sections DEF Init, ResOK

\* Every node of the track is free or reserved by a train, together with its
\* whole section.
THEOREM ReservationsSound == Spec => []ResOK(res)
<1>1. ResOK(res) /\ [Next]_vars => ResOK(res)'
  BY NextRequests, ResInductive
<1> QED BY InitOK, <1>1, PTL DEF Spec

Lock  == {Sec[n] : n \in Nodes(T)}
owner == [S \in Lock |-> OwnerOf(S)]

\* The owner of a lock is that of every node of the section.
LEMMA LockOwner ==
  ASSUME ResOK(res), NEW n \in Nodes(T)
  PROVE  /\ (CHOOSE m \in Sec[n] : TRUE) \in Sec[n]
         /\ OwnerOf(Sec[n]) = res[n]
  BY Representative DEF OwnerOf

\* At the start every lock is free.
LEMMA InitLocks == Init => Locks!Init
<1> SUFFICES ASSUME Init PROVE owner = [S \in Lock |-> UNRESERVED]
  BY DEF Locks!Init, Lock, owner
<1>1. ASSUME NEW n \in Nodes(T) PROVE OwnerOf(Sec[n]) = UNRESERVED
  BY InitOK, LockOwner DEF Init
<1> QED BY <1>1 DEF Lock, owner

\* A request for node n is one for the lock of its section.
LEMMA RequestLocks == ASSUME ResOK(res), RequestStep PROVE [Locks!Next]_owner
<1>1. CASE res' = res
  BY <1>1 DEF owner, OwnerOf
<1>2. ASSUME NEW t \in Train, NEW n \in Nodes(T), MayReserve(t, n),
             res' = Reserve(Sec, res, n, t)
      PROVE  Locks!Take(t, Sec[n])
  <2>1. owner[Sec[n]] \in {UNRESERVED, t}
    BY <1>2, OwnerOfNode, LockOwner DEF MayReserve, owner, Lock
  <2>2. ASSUME NEW k \in Nodes(T)
        PROVE  OwnerOf(Sec[k])' = IF Sec[k] = Sec[n] THEN t ELSE OwnerOf(Sec[k])
    <3> DEFINE m == CHOOSE x \in Sec[k] : TRUE
    <3>1. m \in Sec[k] /\ m \in Nodes(T)
      BY LockOwner, Sections
    <3>2. m \in Sec[n] <=> Sec[k] = Sec[n]
      BY <3>1, Sections
    <3>3. m \in DOMAIN res
      BY <3>1 DEF ResOK
    <3> QED BY <1>2, <3>2, <3>3 DEF OwnerOf, Reserve
  <2>3. owner' = [owner EXCEPT ![Sec[n]] = t]
    BY <2>2 DEF owner, Lock
  <2> QED BY <2>1, <2>3 DEF Locks!Take, owner, Lock
<1>3. ASSUME NEW t \in Train, NEW n \in Nodes(T), MayReserve(t, n), res[n] = t,
             res' = Release(Sec, res, n, t)
      PROVE  Locks!Give(t, Sec[n])
  <2>1. owner[Sec[n]] = t
    BY <1>3, LockOwner DEF owner, Lock
  <2>2. ASSUME NEW k \in Nodes(T)
        PROVE  OwnerOf(Sec[k])' = IF Sec[k] = Sec[n] THEN UNRESERVED ELSE OwnerOf(Sec[k])
    <3> DEFINE m == CHOOSE x \in Sec[k] : TRUE
    <3>1. m \in Sec[k] /\ m \in Nodes(T)
      BY LockOwner, Sections
    <3>2. m \in Sec[n] <=> Sec[k] = Sec[n]
      BY <3>1, Sections
    <3>3. m \in DOMAIN res
      BY <3>1 DEF ResOK
    <3>4. m \in Sec[n] => res[m] = t
      BY <1>3, Sections DEF ResOK
    <3> QED BY <1>3, <3>2, <3>3, <3>4 DEF OwnerOf, Release
  <2>3. owner' = [owner EXCEPT ![Sec[n]] = UNRESERVED]
    BY <2>2 DEF owner, Lock
  <2> QED BY <2>1, <2>3 DEF Locks!Give, owner, Lock
<1>4. ASSUME NEW t \in Train, NEW n \in Nodes(T), MayReserve(t, n), res[n] # t,
             res' = Release(Sec, res, n, t)
      PROVE  res' = res
  <2>1. \A m \in Sec[n] : res[m] # t
    BY <1>4 DEF ResOK
  <2>2. res = [m \in DOMAIN res |-> res[m]]
    BY DEF ResOK
  <2> QED BY <1>4, <2>1, <2>2 DEF Release
<1>5. \A n \in Nodes(T) : Sec[n] \in Lock
  BY DEF Lock
<1> QED
  <2>1. CASE res' # res
    <3>1. PICK t \in Train, n \in Nodes(T) :
            /\ MayReserve(t, n)
            /\ res' \in {Reserve(Sec, res, n, t), Release(Sec, res, n, t)}
      BY <2>1 DEF RequestStep
    <3>2. Locks!Take(t, Sec[n]) \/ Locks!Give(t, Sec[n])
      BY <2>1, <3>1, <1>2, <1>3, <1>4
    <3> QED BY <3>2, <1>5 DEF Locks!Next, Lock
  <2> QED BY <1>1, <2>1

\* The server's table and the trains' requests, with whatever the trains do
\* in between, are an implementation of the locks.
THEOREM ReservationsAreLocks == Spec => ImplementsLocks
<1>1. ResOK(res) /\ [Next]_vars => [Locks!Next]_owner
  BY NextRequests, RequestLocks
<1> QED BY InitLocks, <1>1, ReservationsSound, PTL DEF ImplementsLocks, Locks!Spec, Spec, owner, Lock
-----------------------------------------------------------------------------
(* The search of find_path.                                                *)
SearchTypeOK ==
  /\ Query
  /\ best \in [Node -> 0 .. INF]
  /\ expanded \in SUBSET Node
  /\ phase \in {"idle", "search", "done"}

\* The start costs nothing, and the goal is never expanded.
Anchored == phase # "idle" => best[start] = 0 /\ goal \notin expanded

\* No edge from an expanded node leads to a node that could still be cheaper.
EdgesFollowed ==
  \A e \in Edge : e[1] \in expanded => best[e[2]] <= best[e[1]] + Cost(e)

\* Nodes are expanded in the order of their costs.
InOrder == \A u \in expanded : \A v \in Node \ expanded : best[u] <= best[v]

\* What was found for a node is no less than its distance.
Above ==
  \A f \in [Node -> Nat] : Bound(f) =>
    \A n \in Node : best[n] < INF => f[n] <= best[n]

\* The loop breaks at the goal when it is a nearest node.
Reached == phase = "done" /\ best[goal] < INF => goal \in Nearest

SearchInv == SearchTypeOK /\ Anchored /\ EdgesFollowed /\ InOrder /\ Above /\ Reached

LEMMA CostType ==
  ASSUME GraphAssumption, SearchTypeOK PROVE \A e \in Edge : Cost(e) \in Nat
<1>1. SUFFICES ASSUME NEW e \in Edge PROVE Cost(e) \in Nat
  OBVIOUS
<1>2. Dist[e] \in Nat /\ Penalty \in Nat
  BY DEF GraphAssumption
<1>3. Penalty * Dist[e] \in Nat
  <2>1. \A a, b \in Nat : a * b \in Nat
    OBVIOUS
  <2> QED BY <1>2, <2>1
<1> QED BY <1>2, <1>3 DEF Cost

LEMMA EdgeType ==
  ASSUME GraphAssumption
  PROVE  \A e \in Edge : e[1] \in Node /\ e[2] \in Node /\ e = <<e[1], e[2]>>
  BY DEF GraphAssumption

LEMMA InitInv == ASSUME GraphAssumption, SearchInit PROVE SearchInv
<1>1. SearchTypeOK
  BY DEF GraphAssumption, SearchInit, SearchTypeOK
<1>2. Above
  BY DEF GraphAssumption, SearchInit, Above
<1> QED BY <1>1, <1>2 DEF SearchInit, SearchInv, Anchored, EdgesFollowed, InOrder, Reached

LEMMA BeginInv == ASSUME GraphAssumption, SearchInv, Begin PROVE SearchInv'
<1>1. SearchTypeOK'
  BY DEF GraphAssumption, Begin, SearchTypeOK, Query
<1>2. start' \in Node
  BY <1>1 DEF SearchTypeOK, Query
<1>3. Above'
  <2> SUFFICES ASSUME NEW f \in [Node -> Nat], Bound(f)',
                      NEW n \in Node, best'[n] < INF
               PROVE  f[n] <= best'[n]
    BY DEF Above
  <2>1. n = start'
    BY DEF GraphAssumption, Begin
  <2>2. f[n] = 0
    BY <2>1 DEF Bound
  <2> QED BY <2>1, <2>2 DEF Begin
<1> QED BY <1>1, <1>2, <1>3 DEF Begin, SearchInv, Anchored, EdgesFollowed, InOrder, Reached

\* A step that expands u lowers the cost of no node that was expanded before,
\* nor of u, and lowers the others to no less than the cost of u.
LEMMA ExpandCosts ==
  ASSUME GraphAssumption, SearchInv, NEW u \in Nearest, Expand(u)
  PROVE  /\ best[u] \in Nat /\ best[u] < INF /\ u \in Node \ expanded
         /\ \A m \in Node : Better(u, m) => best'[m] = best[u] + Cost(<<u, m>>)
         /\ \A m \in Node : ~Better(u, m) => best'[m] = best[m]
         /\ \A m \in expanded \cup {u} : ~Better(u, m)
         /\ \A m \in Node : best'[m] <= best[m]
         /\ \A m \in Node \ expanded : best[u] <= best'[m]
         /\ best' \in [Node -> 0 .. INF]
<1>1. u \in Node \ expanded /\ best[u] < INF
  BY DEF Nearest, Frontier
<1>2. best \in [Node -> 0 .. INF] /\ INF \in Nat /\ expanded \subseteq Node
  BY DEF GraphAssumption, SearchInv, SearchTypeOK
<1>3. best[u] \in Nat
  BY <1>1, <1>2
<1>4. \A m \in Node : <<u, m>> \in Edge => Cost(<<u, m>>) \in Nat
  BY CostType DEF SearchInv
<1>5. \A m \in Node : best'[m] = IF Better(u, m) THEN best[u] + Cost(<<u, m>>) ELSE best[m]
  BY DEF Expand
<1>6. \A m \in expanded \cup {u} : ~Better(u, m)
  <2> SUFFICES ASSUME NEW m \in expanded \cup {u}, Better(u, m) PROVE FALSE
    OBVIOUS
  <2>1. best[m] <= best[u] /\ best[m] \in Nat
    BY <1>1, <1>2, <1>3 DEF SearchInv, InOrder
  <2>2. Cost(<<u, m>>) \in Nat
    BY <1>2, <1>4, <1>1 DEF Better
  <2> QED BY <2>1, <2>2, <1>3 DEF Better
<1>7. \A m \in Node : best'[m] \in 0 .. INF /\ best'[m] <= best[m]
  <2> SUFFICES ASSUME NEW m \in Node PROVE best'[m] \in 0 .. INF /\ best'[m] <= best[m]
    OBVIOUS
  <2>1. CASE Better(u, m)
    <3>1. Cost(<<u, m>>) \in Nat /\ best[u] + Cost(<<u, m>>) < best[m]
      BY <2>1, <1>4 DEF Better
    <3>2. best'[m] = best[u] + Cost(<<u, m>>)
      BY <2>1, <1>5
    <3>3. best[m] \in 0 .. INF
      BY <1>2
    <3> QED BY <3>1, <3>2, <3>3, <1>2, <1>3
  <2>2. CASE ~Better(u, m)
    <3>1. best'[m] = best[m]
      BY <2>2, <1>5
    <3>2. best[m] \in 0 .. INF
      BY <1>2
    <3> QED BY <3>1, <3>2, <1>2
  <2> QED BY <2>1, <2>2
<1>8. \A m \in Node \ expanded : best[u] <= best'[m]
  <2> SUFFICES ASSUME NEW m \in Node \ expanded PROVE best[u] <= best'[m]
    OBVIOUS
  <2>1. CASE Better(u, m)
    <3>1. Cost(<<u, m>>) \in Nat
      BY <2>1, <1>4 DEF Better
    <3>2. best'[m] = best[u] + Cost(<<u, m>>)
      BY <2>1, <1>5
    <3> QED BY <3>1, <3>2, <1>3
  <2>2. CASE ~Better(u, m)
    <3>1. best'[m] = best[m] /\ best[m] \in 0 .. INF
      BY <2>2, <1>2, <1>5
    <3>2. CASE best[m] < INF
      BY <3>1, <3>2 DEF Nearest, Frontier
    <3>3. CASE ~(best[m] < INF)
      BY <3>1, <3>3, <1>1, <1>2, <1>3
    <3> QED BY <3>2, <3>3
  <2> QED BY <2>1, <2>2
<1>9. best' \in [Node -> 0 .. INF]
  <2>1. best' = [m \in Node |-> best'[m]]
    BY DEF Expand
  <2> QED BY <2>1, <1>7
<1> QED BY <1>1, <1>3, <1>5, <1>6, <1>7, <1>8, <1>9

LEMMA ExpandInv == ASSUME GraphAssumption, SearchInv, NEW u \in Nearest, Expand(u) PROVE SearchInv'
<1> USE ExpandCosts
<1>1. SearchTypeOK'
  BY DEF SearchInv, SearchTypeOK, Expand, Query
<1>2. \A e \in Edge : Cost(e)' = Cost(e) /\ Cost(e) \in Nat
  BY CostType DEF Expand, Cost, SearchInv
<1>3. Anchored'
  <2>1. phase # "idle" /\ best[start] = 0 /\ goal \notin expanded /\ u # goal
    BY DEF SearchInv, Anchored, Expand
  <2>2. best'[start] \in Nat /\ best'[start] <= 0
    BY <2>1, <1>1 DEF SearchInv, SearchTypeOK, Query
  <2> QED BY <2>1, <2>2 DEF Anchored, Expand
<1>4. EdgesFollowed'
  <2> SUFFICES ASSUME NEW e \in Edge, e[1] \in expanded \cup {u}
               PROVE  best'[e[2]] <= best'[e[1]] + Cost(e)
    BY <1>2 DEF EdgesFollowed, Expand
  <2>1. e[1] \in Node /\ e[2] \in Node /\ e = <<e[1], e[2]>>
    BY EdgeType
  <2>2. best'[e[1]] = best[e[1]] /\ best'[e[2]] <= best[e[2]]
    BY <2>1
  <2>3. best[e[1]] \in Nat /\ best[e[2]] \in Nat /\ best'[e[2]] \in Nat /\ Cost(e) \in Nat
    BY <2>1, <1>1, <1>2 DEF GraphAssumption, SearchInv, SearchTypeOK
  <2>4. CASE e[1] \in expanded
    <3>1. best[e[2]] <= best[e[1]] + Cost(e)
      BY <2>4 DEF SearchInv, EdgesFollowed
    <3> QED BY <3>1, <2>2, <2>3
  <2>5. CASE e[1] = u
    <3>1. CASE Better(u, e[2])
      BY <3>1, <2>1, <2>2, <2>3, <2>5
    <3>2. CASE ~Better(u, e[2])
      BY <3>2, <2>1, <2>2, <2>3, <2>5 DEF Better
    <3> QED BY <3>1, <3>2
  <2> QED BY <2>4, <2>5
<1>5. InOrder'
  <2> SUFFICES ASSUME NEW w \in expanded \cup {u}, NEW v \in Node \ (expanded \cup {u})
               PROVE  best'[w] <= best'[v]
    BY DEF InOrder, Expand
  <2>1. w \in Node /\ best'[w] = best[w] /\ best[w] \in Nat /\ best'[v] \in Nat
    BY <1>1 DEF GraphAssumption, SearchInv, SearchTypeOK
  <2>2. best[w] <= best[u]
    BY <2>1 DEF SearchInv, InOrder
  <2> QED BY <2>1, <2>2
<1>6. Above'
  <2> SUFFICES ASSUME NEW f \in [Node -> Nat], Bound(f),
                      NEW n \in Node, best'[n] < INF
               PROVE  f[n] <= best'[n]
    <3>1. \A f \in [Node -> Nat] : Bound(f)' <=> Bound(f)
      BY <1>2 DEF Bound, Expand
    <3> QED BY <3>1 DEF Above
  <2>1. CASE Better(u, n)
    <3>1. best'[n] = best[u] + Cost(<<u, n>>) /\ <<u, n>> \in Edge
      BY <2>1 DEF Better
    <3>2. f[u] <= best[u]
      BY DEF SearchInv, Above
    <3>3. f[n] <= f[u] + Cost(<<u, n>>)
      BY <3>1 DEF Bound
    <3>4. Cost(<<u, n>>) \in Nat /\ f[n] \in Nat /\ f[u] \in Nat
      BY <3>1, <1>2
    <3> QED BY <3>1, <3>2, <3>3, <3>4
  <2>2. CASE ~Better(u, n)
    BY <2>2 DEF SearchInv, Above
  <2> QED BY <2>1, <2>2
<1>7. Reached'
  BY DEF Reached, Expand
<1> QED BY <1>1, <1>3, <1>4, <1>5, <1>6, <1>7 DEF SearchInv

LEMMA FinishInv == ASSUME GraphAssumption, SearchInv, Finish PROVE SearchInv'
<1>1. \A e \in Edge : Cost(e)' = Cost(e)
  BY DEF Finish, Cost
<1>2. \A f \in [Node -> Nat] : Bound(f)' <=> Bound(f)
  BY <1>1 DEF Finish, Bound
<1>3. Reached'
  BY DEF Finish, Reached, Nearest, Frontier, SearchInv, SearchTypeOK, Query, Anchored
<1> QED BY <1>1, <1>2, <1>3 DEF Finish, SearchInv, SearchTypeOK, Query, Anchored, EdgesFollowed, InOrder, Above

LEMMA StutterInv == SearchInv /\ UNCHANGED searchVars => SearchInv'
<1> SUFFICES ASSUME SearchInv, UNCHANGED searchVars PROVE SearchInv'
  OBVIOUS
<1>1. \A e \in Edge : Cost(e)' = Cost(e)
  BY DEF searchVars, Cost
<1>2. \A f \in [Node -> Nat] : Bound(f)' <=> Bound(f)
  BY <1>1 DEF searchVars, Bound
<1> QED BY <1>1, <1>2 DEF searchVars, SearchInv, SearchTypeOK, Query, Anchored, EdgesFollowed, InOrder, Above, Reached, Nearest, Frontier

\* What has been found so far is, cut off at the cost of the goal, a bound.
LEMMA CutOff ==
  ASSUME GraphAssumption, SearchInv, Found
  PROVE  Bound([n \in Node |-> IF best[n] < best[goal] THEN best[n] ELSE best[goal]])
<1> DEFINE g == [n \in Node |-> IF best[n] < best[goal] THEN best[n] ELSE best[goal]]
<1>1. best \in [Node -> 0 .. INF] /\ INF \in Nat /\ start \in Node /\ goal \in Node
  BY DEF GraphAssumption, SearchInv, SearchTypeOK, Query
<1>2. best[start] = 0 /\ goal \in Nearest /\ goal \notin expanded
  BY DEF SearchInv, Anchored, Reached, Found
<1>3. \A n \in Node : best[n] \in Nat
  BY <1>1
<1>4. g \in [Node -> Nat] /\ g[start] = 0
  BY <1>1, <1>2, <1>3
<1>5. ASSUME NEW e \in Edge PROVE g[e[2]] <= g[e[1]] + Cost(e)
  <2>1. e[1] \in Node /\ e[2] \in Node /\ Cost(e) \in Nat
    BY EdgeType, CostType DEF SearchInv
  <2>2. g[e[2]] <= best[e[2]] /\ g[e[2]] <= best[goal]
    BY <1>1, <1>3, <2>1
  <2>3. CASE e[1] \in expanded
    <3>1. best[e[2]] <= best[e[1]] + Cost(e) /\ best[e[1]] <= best[goal]
      BY <2>3, <1>1, <1>2 DEF SearchInv, EdgesFollowed, InOrder
    <3>2. g[e[1]] = best[e[1]]
      BY <3>1, <1>1, <1>3, <2>1
    <3> QED BY <3>1, <3>2, <2>1, <2>2, <1>3, <1>4
  <2>4. CASE e[1] \notin expanded
    <3>1. best[goal] <= best[e[1]]
      <4>1. CASE best[e[1]] < INF
        BY <4>1, <2>1, <2>4, <1>2 DEF Nearest, Frontier
      <4>2. CASE ~(best[e[1]] < INF)
        BY <4>2, <1>1, <1>3, <2>1 DEF Found
      <4> QED BY <4>1, <4>2
    <3>2. g[e[1]] = best[goal]
      BY <3>1, <1>1, <1>3, <2>1
    <3> QED BY <3>2, <2>1, <2>2, <1>1, <1>3, <1>4
  <2> QED BY <2>3, <2>4
<1> QED BY <1>4, <1>5 DEF Bound

LEMMA NothingCheaper == SearchInv => ReachesBound
  BY DEF SearchInv, Above, SearchTypeOK, Query, ReachesBound, Found

\* The state of the search at every turn of the loop.
THEOREM SearchInvariant == ASSUME GraphAssumption PROVE SearchSpec => []SearchInv
<1>1. SearchInv /\ [SearchNext]_searchVars => SearchInv'
  BY BeginInv, ExpandInv, FinishInv, StutterInv DEF SearchNext
<1> QED BY InitInv, <1>1, PTL DEF SearchSpec

\* find_path returns a cheapest way: what it found for the goal is a bound ...
THEOREM FoundIsBound == ASSUME GraphAssumption PROVE SearchSpec => []EndsAtABound
<1>1. SearchInv => EndsAtABound
  BY CutOff DEF EndsAtABound
<1> QED BY <1>1, SearchInvariant, PTL

\* ... and no bound is above it.
THEOREM FoundIsLeast == ASSUME GraphAssumption PROVE SearchSpec => []ReachesBound
  BY NothingCheaper, SearchInvariant, PTL
=============================================================================
