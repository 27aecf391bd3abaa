-------------------------- MODULE LineEditorProofs --------------------------
(***************************************************************************)
(* Proofs about LineEditor, for every set of widths, limits, completions   *)
(* and every bound: whatever keys come, the line has whole characters, the *)
(* cursor is at the border of one, the history index is one of the         *)
(* history's, and only a recalled line is longer than its limit.           *)
(***************************************************************************)
EXTENDS LineEditor, SequenceTheorems, WellFoundedInduction, TLAPS

\* The bytes of a line: a width begins a character, a 0 continues one.
Line == Seq(0..4)

LineInv ==
  /\ line \in Line
  /\ CursorOnBoundary

HistoryInv ==
  /\ history \in Seq(Line)
  /\ \A k \in 1..Len(history) : WellFormed(history[k])
  /\ historyIndex \in Nat
  /\ IndexInHistory

CallInv ==
  /\ reading \in BOOLEAN /\ recalled \in BOOLEAN
  /\ reading => options.limit \in Nat
  /\ ~reading => line = <<>>
  /\ LongOnlyIfRecalled

EditorInv == LineInv /\ HistoryInv /\ CallInv
-----------------------------------------------------------------------------
(* The offsets a loop of the code ends at.                                 *)

LEMMA LeastNatural ==
  ASSUME NEW T \in SUBSET Nat, T # {}
  PROVE  \E m \in T : \A n \in T : m <= n
<1>1. PICK m \in T : \A n \in T : <<n, m>> \notin OpToRel(<, Nat)
  BY NatLessThanWellFounded, WFMin
<1>2. \A n \in T : n \in Nat /\ m \in Nat /\ ~(n < m)
  BY <1>1 DEF OpToRel
<1>3. \A n \in T : m <= n
  BY <1>2
<1>. QED
  BY <1>3

LEMMA PreviousBoundaryProperties ==
  ASSUME NEW s \in Line, NEW p \in 1..Len(s)
  PROVE  /\ PreviousBoundary(s, p) \in 0..(p - 1)
         /\ PreviousBoundary(s, p) = 0 \/ Boundary(s, PreviousBoundary(s, p))
<1>0. Len(s) \in Nat /\ p \in Nat \ {0}
  BY LenProperties DEF Line
<1> DEFINE Stop(q) == q = 0 \/ Boundary(s, q)
           T == {d \in 1..p : Stop(p - d)}
<1>1. T \in SUBSET Nat /\ p \in T
  BY <1>0
<1>2. PICK d \in T : \A n \in T : d <= n
  <2>1. T # {}
    BY <1>1
  <2>. HIDE DEF T
  <2>. QED
    BY <1>1, <2>1, LeastNatural
<1>3. p - d \in 0..(p - 1) /\ Stop(p - d)
  BY <1>0, <1>2
<1>4. ASSUME NEW r \in (p - d + 1)..(p - 1) PROVE ~Boundary(s, r)
  <2>1. p - r \in 1..p /\ p - (p - r) = r /\ ~(d <= p - r)
    BY <1>0, <1>3
  <2>2. p - r \notin T
    BY <1>2, <2>1
  <2>. QED
    BY <2>1, <2>2
<1>5. \E q \in 0..(p - 1) :
        /\ q = 0 \/ Boundary(s, q)
        /\ \A r \in (q + 1)..(p - 1) : ~Boundary(s, r)
  BY <1>3, <1>4
<1>6. p # 0
  BY <1>0
<1>. QED
  BY <1>5, <1>6 DEF PreviousBoundary

LEMMA NextBoundaryProperties ==
  ASSUME NEW s \in Line, NEW p \in 0..Len(s)
  PROVE  /\ NextBoundary(s, p) \in p..Len(s)
         /\ Boundary(s, NextBoundary(s, p))
         /\ p < Len(s) => NextBoundary(s, p) > p
<1>0. Len(s) \in Nat /\ p \in Nat
  BY LenProperties DEF Line
<1>1. CASE p >= Len(s)
  BY <1>0, <1>1 DEF NextBoundary, Boundary
<1>2. CASE p < Len(s)
  <2> DEFINE T == {q \in (p + 1)..Len(s) : Boundary(s, q)}
  <2>1. T \in SUBSET Nat /\ Len(s) \in T
    BY <1>0, <1>2 DEF Boundary
  <2>2. PICK q \in T : \A n \in T : q <= n
    <3>1. T # {}
      BY <2>1
    <3>. HIDE DEF T
    <3>. QED
      BY <2>1, <3>1, LeastNatural
  <2>3. \A r \in (p + 1)..(q - 1) : ~Boundary(s, r)
    BY <1>0, <2>2
  <2>4. \E z \in (p + 1)..Len(s) :
          /\ Boundary(s, z)
          /\ \A r \in (p + 1)..(z - 1) : ~Boundary(s, r)
    BY <2>2, <2>3
  <2>5. ~(p >= Len(s))
    BY <1>0, <1>2
  <2>6. /\ NextBoundary(s, p) \in (p + 1)..Len(s)
        /\ Boundary(s, NextBoundary(s, p))
    BY <2>4, <2>5 DEF NextBoundary
  <2>. QED
    BY <1>0, <2>6
<1>. QED
  BY <1>0, <1>1, <1>2
-----------------------------------------------------------------------------
(* Whole characters.                                                       *)

LEMMA NoneIsWellFormed == <<>> \in Line /\ WellFormed(<<>>) /\ Boundary(<<>>, 0) /\ Len(<<>>) = 0
  BY DEF Line, WellFormed, Boundary

LEMMA EncodedProperties ==
  ASSUME NEW w \in 1..4
  PROVE  Encoded(w) \in Line /\ Len(Encoded(w)) = w /\ WellFormed(Encoded(w))
<1>1. /\ Encoded(w) \in Line /\ Len(Encoded(w)) = w
      /\ Encoded(w)[1] = w /\ \A k \in 2..w : Encoded(w)[k] = 0
  BY DEF Encoded, Line
<1>2. ASSUME NEW k \in 1..w
      PROVE  IF Encoded(w)[k] = 0 THEN \E j \in 1..(k - 1) : Encoded(w)[j] > k - j
             ELSE /\ k + Encoded(w)[k] - 1 <= w
                  /\ \A j \in 1..(Encoded(w)[k] - 1) : Encoded(w)[k + j] = 0
  <2>1. CASE k = 1
    BY <1>1, <2>1
  <2>2. CASE k # 1
    <3>1. k \in 2..w /\ 1 \in 1..(k - 1) /\ w > k - 1
      BY <2>2
    <3>. QED
      BY <1>1, <3>1
  <2>. QED
    BY <2>1, <2>2
<1>. QED
  BY <1>1, <1>2 DEF WellFormed

\* A text that begins with whole characters begins with one.
LEMMA StartsOnBoundary ==
  ASSUME NEW s \in Line, WellFormed(s)
  PROVE  Boundary(s, 0)
<1>1. Len(s) \in Nat
  BY LenProperties DEF Line
<1>2. CASE Len(s) > 0
  BY <1>1, <1>2 DEF WellFormed, Boundary
<1>. QED
  BY <1>1, <1>2 DEF Boundary

LEMMA ConcatWellFormed ==
  ASSUME NEW a \in Line, NEW b \in Line, WellFormed(a), WellFormed(b)
  PROVE  /\ a \o b \in Line /\ Len(a \o b) = Len(a) + Len(b)
         /\ WellFormed(a \o b) /\ Boundary(a \o b, Len(a))
<1> DEFINE c == a \o b
<1>1. /\ c \in Line /\ Len(c) = Len(a) + Len(b)
      /\ Len(a) \in Nat /\ Len(b) \in Nat
  BY ConcatProperties, LenProperties DEF Line
<1>2. /\ \A i \in 1..Len(a) : c[i] = a[i] /\ a[i] \in 0..4
      /\ \A i \in 1..Len(b) : c[Len(a) + i] = b[i] /\ b[i] \in 0..4
  <2>1. \A i \in 1..(Len(a) + Len(b)) : c[i] = IF i <= Len(a) THEN a[i] ELSE b[i - Len(a)]
    BY ConcatProperties DEF Line
  <2>2. /\ \A i \in 1..Len(a) : a[i] \in 0..4
        /\ \A i \in 1..Len(b) : b[i] \in 0..4
    BY ElementOfSeq DEF Line
  <2>. HIDE DEF c
  <2>3. ASSUME NEW i \in 1..Len(b) PROVE c[Len(a) + i] = b[i]
    <3>1. /\ Len(a) + i \in 1..(Len(a) + Len(b)) /\ ~(Len(a) + i <= Len(a))
          /\ (Len(a) + i) - Len(a) = i
      BY <1>1
    <3>. QED
      BY <2>1, <3>1
  <2>. QED
    BY <1>1, <2>1, <2>2, <2>3
<1> HIDE DEF c
<1>3. ASSUME NEW k \in 1..Len(c)
      PROVE  IF c[k] = 0 THEN \E j \in 1..(k - 1) : c[j] > k - j
             ELSE /\ k + c[k] - 1 <= Len(c)
                  /\ \A j \in 1..(c[k] - 1) : c[k + j] = 0
  <2>1. CASE k <= Len(a)
    <3>1. k \in 1..Len(a) /\ c[k] = a[k]
      BY <1>1, <1>2, <2>1
    <3>2. CASE a[k] = 0
      <4>1. PICK j \in 1..(k - 1) : a[j] > k - j
        BY <3>1, <3>2 DEF WellFormed
      <4>2. j \in 1..Len(a)
        BY <1>1, <3>1
      <4>. QED
        BY <1>2, <3>1, <3>2, <4>1, <4>2
    <3>3. CASE a[k] # 0
      <4>1. /\ k + a[k] - 1 <= Len(a)
            /\ \A j \in 1..(a[k] - 1) : a[k + j] = 0
        BY <3>1, <3>3 DEF WellFormed
      <4>2. a[k] \in 0..4 /\ k + a[k] - 1 <= Len(c)
        BY <1>1, <1>2, <3>1, <4>1
      <4>3. ASSUME NEW j \in 1..(a[k] - 1) PROVE c[k + j] = 0
        <5>1. k + j \in 1..Len(a)
          BY <1>1, <4>1, <4>2
        <5>. QED
          BY <1>2, <4>1, <5>1
      <4>. QED
        BY <3>1, <3>3, <4>2, <4>3
    <3>. QED
      BY <3>2, <3>3
  <2>2. CASE k > Len(a)
    <3>1. PICK m \in 1..Len(b) : k = Len(a) + m
      <4>1. k - Len(a) \in 1..Len(b) /\ k = Len(a) + (k - Len(a))
        BY <1>1, <2>2
      <4>. QED
        BY <4>1
    <3>2. c[k] = b[m]
      BY <1>2, <3>1
    <3>3. CASE b[m] = 0
      <4>1. PICK j \in 1..(m - 1) : b[j] > m - j
        BY <3>1, <3>3 DEF WellFormed
      <4>2. j \in 1..Len(b) /\ Len(a) + j \in 1..(k - 1) /\ k - (Len(a) + j) = m - j
        BY <1>1, <3>1
      <4>3. c[Len(a) + j] > k - (Len(a) + j)
        BY <1>2, <4>1, <4>2
      <4>. QED
        BY <3>2, <3>3, <4>2, <4>3
    <3>4. CASE b[m] # 0
      <4>1. /\ m + b[m] - 1 <= Len(b)
            /\ \A j \in 1..(b[m] - 1) : b[m + j] = 0
        BY <3>1, <3>4 DEF WellFormed
      <4>2. b[m] \in 0..4 /\ k + b[m] - 1 <= Len(c)
        BY <1>1, <1>2, <3>1, <4>1
      <4>3. ASSUME NEW j \in 1..(b[m] - 1) PROVE c[k + j] = 0
        <5>1. m + j \in 1..Len(b) /\ k + j = Len(a) + (m + j)
          BY <1>1, <3>1, <4>1, <4>2
        <5>. QED
          BY <1>2, <4>1, <5>1
      <4>. QED
        BY <3>2, <3>4, <4>2, <4>3
    <3>. QED
      BY <3>2, <3>3, <3>4
  <2>. QED
    BY <1>1, <2>1, <2>2
<1>4. Boundary(c, Len(a))
  <2>1. CASE Len(b) = 0
    BY <1>1, <2>1 DEF Boundary
  <2>2. CASE Len(b) # 0
    <3>1. 1 \in 1..Len(b) /\ Boundary(b, 0)
      BY <1>1, <2>2, StartsOnBoundary
    <3>. QED
      BY <1>1, <1>2, <2>2, <3>1 DEF Boundary
  <2>. QED
    BY <2>1, <2>2
<1>5. WellFormed(c)
  BY <1>3 DEF WellFormed
<1>. QED
  BY <1>1, <1>4, <1>5 DEF c

LEMMA SplitWellFormed ==
  ASSUME NEW s \in Line, WellFormed(s), NEW p \in 0..Len(s), Boundary(s, p)
  PROVE  /\ SubSeq(s, 1, p) \in Line /\ Len(SubSeq(s, 1, p)) = p
         /\ WellFormed(SubSeq(s, 1, p))
         /\ SubSeq(s, p + 1, Len(s)) \in Line
         /\ Len(SubSeq(s, p + 1, Len(s))) = Len(s) - p
         /\ WellFormed(SubSeq(s, p + 1, Len(s)))
<1> DEFINE a == SubSeq(s, 1, p)
           b == SubSeq(s, p + 1, Len(s))
<1>0. Len(s) \in Nat /\ p \in Nat /\ \A i \in 1..Len(s) : s[i] \in 0..4
  BY LenProperties, ElementOfSeq DEF Line
<1>1. /\ a \in Line /\ Len(a) = p
      /\ \A i \in 1..p : a[i] = s[i]
  <2>1. \A i \in 1..p : s[i] \in 0..4
    BY <1>0
  <2>2. /\ SubSeq(s, 1, p) \in Seq(0..4)
        /\ Len(SubSeq(s, 1, p)) = IF 1 <= p THEN p - 1 + 1 ELSE 0
        /\ \A i \in 1..(p - 1 + 1) : SubSeq(s, 1, p)[i] = s[1 + i - 1]
    BY <1>0, <2>1, SubSeqProperties
  <2>. QED
    BY <1>0, <2>2 DEF Line
<1>2. /\ b \in Line /\ Len(b) = Len(s) - p
      /\ \A i \in 1..(Len(s) - p) : b[i] = s[p + i]
  <2>1. \A i \in (p + 1)..Len(s) : s[i] \in 0..4
    BY <1>0
  <2>2. /\ SubSeq(s, p + 1, Len(s)) \in Seq(0..4)
        /\ Len(SubSeq(s, p + 1, Len(s)))
             = IF p + 1 <= Len(s) THEN Len(s) - (p + 1) + 1 ELSE 0
        /\ \A i \in 1..(Len(s) - (p + 1) + 1) :
             SubSeq(s, p + 1, Len(s))[i] = s[(p + 1) + i - 1]
    BY <1>0, <2>1, SubSeqProperties
  <2>3. \A i \in 1..(Len(s) - p) : i \in 1..(Len(s) - (p + 1) + 1) /\ (p + 1) + i - 1 = p + i
    BY <1>0
  <2>4. \A i \in 1..(Len(s) - p) : b[i] = s[p + i]
    BY <2>2, <2>3
  <2>. QED
    BY <1>0, <2>2, <2>4 DEF Line
<1> HIDE DEF a, b
\* No character lies across the boundary.
<1>3. ASSUME NEW k \in 1..p, s[k] # 0 PROVE k + s[k] - 1 <= p
  <2> SUFFICES ASSUME k + s[k] - 1 > p PROVE FALSE
    BY <1>0
  <2>1. k \in 1..Len(s) /\ s[k] \in 1..4
    BY <1>0, <1>3
  <2>2. /\ k + s[k] - 1 <= Len(s)
        /\ \A j \in 1..(s[k] - 1) : s[k + j] = 0
    BY <1>3, <2>1 DEF WellFormed
  <2>3. p + 1 - k \in 1..(s[k] - 1) /\ k + (p + 1 - k) = p + 1 /\ p < Len(s)
    BY <1>0, <2>1, <2>2
  <2>. QED
    BY <1>0, <2>2, <2>3 DEF Boundary
<1>4. WellFormed(a)
  <2> SUFFICES ASSUME NEW k \in 1..p
               PROVE  IF a[k] = 0 THEN \E j \in 1..(k - 1) : a[j] > k - j
                      ELSE /\ k + a[k] - 1 <= p
                           /\ \A j \in 1..(a[k] - 1) : a[k + j] = 0
    BY <1>1 DEF WellFormed
  <2>1. k \in 1..Len(s) /\ a[k] = s[k] /\ s[k] \in 0..4
    BY <1>0, <1>1
  <2>2. CASE s[k] = 0
    <3>1. PICK j \in 1..(k - 1) : s[j] > k - j
      BY <2>1, <2>2 DEF WellFormed
    <3>2. a[j] = s[j]
      BY <1>0, <1>1
    <3>. QED
      BY <2>1, <2>2, <3>1, <3>2
  <2>3. CASE s[k] # 0
    <3>1. k + s[k] - 1 <= p /\ \A j \in 1..(s[k] - 1) : s[k + j] = 0
      BY <1>3, <2>1, <2>3 DEF WellFormed
    <3>2. \A j \in 1..(s[k] - 1) : k + j \in 1..p
      BY <1>0, <2>1, <3>1
    <3>. QED
      BY <1>1, <2>1, <2>3, <3>1, <3>2
  <2>. QED
    BY <2>2, <2>3
<1>5. WellFormed(b)
  <2> SUFFICES ASSUME NEW k \in 1..(Len(s) - p)
               PROVE  IF b[k] = 0 THEN \E j \in 1..(k - 1) : b[j] > k - j
                      ELSE /\ k + b[k] - 1 <= Len(s) - p
                           /\ \A j \in 1..(b[k] - 1) : b[k + j] = 0
    BY <1>2 DEF WellFormed
  <2>1. p + k \in 1..Len(s) /\ b[k] = s[p + k] /\ s[p + k] \in 0..4
    BY <1>0, <1>2
  <2>2. CASE s[p + k] = 0
    <3>1. PICK j \in 1..(p + k - 1) : s[j] > p + k - j
      BY <2>1, <2>2 DEF WellFormed
    <3>2. j > p
      <4> SUFFICES ASSUME j <= p PROVE FALSE
        BY <1>0
      <4>1. j \in 1..p /\ s[j] \in 0..4 /\ s[j] # 0
        BY <1>0, <3>1
      <4>2. j + s[j] - 1 <= p
        BY <1>3, <4>1
      <4>. QED
        BY <1>0, <3>1, <4>1, <4>2
    <3>3. /\ j - p \in 1..(k - 1) /\ j - p \in 1..(Len(s) - p)
          /\ p + (j - p) = j /\ k - (j - p) = p + k - j
      BY <1>0, <3>2
    <3>4. b[j - p] > k - (j - p)
      BY <1>2, <3>1, <3>3
    <3>. QED
      BY <2>1, <2>2, <3>3, <3>4
  <2>3. CASE s[p + k] # 0
    <3>1. /\ p + k + s[p + k] - 1 <= Len(s)
          /\ \A j \in 1..(s[p + k] - 1) : s[p + k + j] = 0
      BY <2>1, <2>3 DEF WellFormed
    <3>2. \A j \in 1..(s[p + k] - 1) : k + j \in 1..(Len(s) - p) /\ p + (k + j) = p + k + j
      BY <1>0, <2>1, <3>1
    <3>3. k + s[p + k] - 1 <= Len(s) - p
      BY <1>0, <2>1, <3>1
    <3>. QED
      BY <1>2, <2>1, <2>3, <3>1, <3>2, <3>3
  <2>. QED
    BY <2>2, <2>3
<1>. QED
  BY <1>1, <1>2, <1>4, <1>5 DEF a, b

LEMMA InsertedProperties ==
  ASSUME NEW s \in Line, WellFormed(s), NEW p \in 0..Len(s), Boundary(s, p),
         NEW w \in 1..4
  PROVE  /\ Inserted(s, p, Encoded(w)) \in Line
         /\ Len(Inserted(s, p, Encoded(w))) = Len(s) + w
         /\ WellFormed(Inserted(s, p, Encoded(w)))
         /\ Boundary(Inserted(s, p, Encoded(w)), p + w)
<1> DEFINE a == SubSeq(s, 1, p)
           b == SubSeq(s, p + 1, Len(s))
           e == Encoded(w)
<1>1. /\ a \in Line /\ b \in Line /\ e \in Line
      /\ WellFormed(a) /\ WellFormed(b) /\ WellFormed(e)
      /\ Len(a) = p /\ Len(b) = Len(s) - p /\ Len(e) = w
  BY SplitWellFormed, EncodedProperties
<1>2. Inserted(s, p, e) = (a \o e) \o b
  BY DEF Inserted
<1> HIDE DEF a, b, e
<1>3. /\ a \o e \in Line /\ WellFormed(a \o e) /\ Len(a \o e) = p + w
  BY <1>1, ConcatWellFormed
<1>4. /\ (a \o e) \o b \in Line /\ WellFormed((a \o e) \o b)
      /\ Len((a \o e) \o b) = (p + w) + (Len(s) - p)
      /\ Boundary((a \o e) \o b, p + w)
  <2>1. PICK t \in Line : t = a \o e /\ WellFormed(t) /\ Len(t) = p + w
    BY <1>3
  <2>2. /\ t \o b \in Line /\ WellFormed(t \o b) /\ Len(t \o b) = Len(t) + Len(b)
        /\ Boundary(t \o b, Len(t))
    BY <1>1, <2>1, ConcatWellFormed
  <2>. QED
    BY <1>1, <2>1, <2>2
<1>5. (p + w) + (Len(s) - p) = Len(s) + w
  BY LenProperties DEF Line
<1>. QED
  BY <1>2, <1>4, <1>5 DEF e

LEMMA ErasedProperties ==
  ASSUME NEW s \in Line, WellFormed(s), NEW p \in 0..Len(s), Boundary(s, p),
         NEW q \in p..Len(s), Boundary(s, q)
  PROVE  /\ Erased(s, p, q) \in Line
         /\ Len(Erased(s, p, q)) = Len(s) - (q - p)
         /\ WellFormed(Erased(s, p, q))
         /\ Boundary(Erased(s, p, q), p)
<1> DEFINE a == SubSeq(s, 1, p)
           b == SubSeq(s, q + 1, Len(s))
<1>0. Len(s) \in Nat /\ q \in 0..Len(s)
  BY LenProperties DEF Line
<1>1. /\ a \in Line /\ b \in Line
      /\ WellFormed(a) /\ WellFormed(b)
      /\ Len(a) = p /\ Len(b) = Len(s) - q
  BY <1>0, SplitWellFormed
<1>2. Erased(s, p, q) = a \o b
  BY DEF Erased
<1> HIDE DEF a, b
<1>3. /\ a \o b \in Line /\ WellFormed(a \o b) /\ Boundary(a \o b, p)
      /\ Len(a \o b) = p + (Len(s) - q)
  BY <1>1, ConcatWellFormed
<1>4. p + (Len(s) - q) = Len(s) - (q - p)
  BY <1>0
<1>. QED
  BY <1>2, <1>3, <1>4
-----------------------------------------------------------------------------
(* The keys.                                                               *)

LEMMA LeaveKeeps ==
  ASSUME EditorInv, Leave, UNCHANGED history
  PROVE  EditorInv'
<1>1. LineInv'
  BY NoneIsWellFormed DEF Leave, LineInv, CursorOnBoundary
<1>2. HistoryInv'
  <2>1. Len(history) \in Nat
    BY LenProperties DEF EditorInv, HistoryInv
  <2>. QED
    BY <2>1 DEF Leave, EditorInv, HistoryInv, IndexInHistory
<1>3. CallInv'
  BY DEF Leave, CallInv, LongOnlyIfRecalled
<1>. QED
  BY <1>1, <1>2, <1>3 DEF EditorInv

\* A key that changes the line: it need only keep its characters whole and
\* its length within the limit.
LEMMA ChangedKeeps ==
  ASSUME EditorInv, reading, NEW s \in Line, WellFormed(s),
         NEW p \in 0..Len(s), Boundary(s, p), Changed(s, p),
         Len(line) <= options.limit => Len(s) <= options.limit
  PROVE  EditorInv'
<1>1. CASE Leave
  BY <1>1, LeaveKeeps DEF Changed
<1>2. CASE /\ line' = s /\ cursor' = p
           /\ UNCHANGED <<reading, options, historyIndex, recalled, history>>
  BY <1>2
  DEF EditorInv, LineInv, HistoryInv, CallInv, CursorOnBoundary, IndexInHistory,
      LongOnlyIfRecalled
<1>. QED
  BY <1>1, <1>2 DEF Changed

LEMMA RecallKeeps ==
  ASSUME EditorInv, reading, NEW index \in 0..Len(history), Recall(index)
  PROVE  EditorInv'
<1>0. Len(history) \in Nat
  BY LenProperties DEF EditorInv, HistoryInv
<1>1. CASE Leave
  BY <1>1, LeaveKeeps DEF Recall
<1>2. CASE /\ historyIndex' = index
           /\ line' = IF index < Len(history) THEN history[index + 1] ELSE <<>>
           /\ cursor' = Len(line')
           /\ recalled' = (index < Len(history))
           /\ UNCHANGED <<reading, options, history>>
  <2>1. line' \in Line /\ WellFormed(line') /\ (~(index < Len(history)) => line' = <<>>)
    <3>1. CASE index < Len(history)
      <4>1. index + 1 \in 1..Len(history)
        BY <1>0, <3>1
      <4>2. history[index + 1] \in Line /\ WellFormed(history[index + 1])
        BY <4>1, ElementOfSeq DEF EditorInv, HistoryInv
      <4>. QED
        BY <1>2, <3>1, <4>2
    <3>2. CASE ~(index < Len(history))
      BY <1>2, <3>2, NoneIsWellFormed
    <3>. QED
      BY <3>1, <3>2
  <2>2. LineInv'
    <3>1. Len(line') \in Nat
      BY <2>1, LenProperties DEF Line
    <3>. QED
      BY <1>2, <2>1, <3>1 DEF LineInv, CursorOnBoundary, Boundary
  <2>3. HistoryInv'
    BY <1>0, <1>2 DEF EditorInv, HistoryInv, IndexInHistory
  <2>4. CallInv'
    <3>1. recalled' \in BOOLEAN /\ (~recalled' => line' = <<>>)
      <4>1. CASE index < Len(history)
        <5>1. recalled' = TRUE
          BY <1>2, <4>1
        <5>. QED
          BY <5>1
      <4>2. CASE ~(index < Len(history))
        <5>1. recalled' = (index < Len(history))
          BY <1>2
        <5>2. (index < Len(history)) = FALSE
          BY <4>2
        <5>3. recalled' = FALSE
          BY <5>1, <5>2, Zenon
        <5>. QED
          BY <2>1, <4>2, <5>3
      <4>. QED
        BY <4>1, <4>2
    <3>. QED
      BY <1>2, <3>1, NoneIsWellFormed DEF EditorInv, CallInv, LongOnlyIfRecalled
  <2>. QED
    BY <2>2, <2>3, <2>4 DEF EditorInv
<1>. QED
  BY <1>1, <1>2 DEF Recall

LEMMA EditorStep ==
  ASSUME EditorInv, [Next]_vars
  PROVE  EditorInv'
<1>0. /\ line \in Line /\ WellFormed(line) /\ Len(line) \in Nat
      /\ cursor \in 0..Len(line) /\ Boundary(line, cursor)
      /\ Len(history) \in Nat
      /\ reading => options.limit \in Nat
  BY LenProperties DEF EditorInv, LineInv, HistoryInv, CallInv, CursorOnBoundary, Line
<1>1. CASE ReadLine
  <2>1. options' \in OptionSet /\ reading' = TRUE /\ line = <<>>
    BY <1>1 DEF ReadLine, EditorInv, CallInv
  <2>2. options'.limit \in Nat
    BY <2>1, LineEditorAssumption DEF OptionSet
  <2>. QED
    BY <1>0, <1>1, <2>1, <2>2, NoneIsWellFormed
    DEF ReadLine, EditorInv, LineInv, HistoryInv, CallInv, CursorOnBoundary,
        IndexInHistory, LongOnlyIfRecalled
<1>2. CASE ReadFails
  BY <1>2, LeaveKeeps DEF ReadFails
<1>3. CASE Move
  <2>1. PICK p \in {PreviousBoundary(line, cursor), NextBoundary(line, cursor), 0, Len(line)} :
          Changed(line, p)
    BY <1>3 DEF Move
  <2>2. p \in 0..Len(line) /\ Boundary(line, p)
    <3>1. Boundary(line, 0) /\ Boundary(line, Len(line))
      BY <1>0, StartsOnBoundary DEF Boundary
    <3>2. CASE p = PreviousBoundary(line, cursor)
      <4>1. CASE cursor = 0
        BY <1>0, <3>1, <3>2, <4>1 DEF PreviousBoundary
      <4>2. CASE cursor # 0
        BY <1>0, <3>1, <3>2, <4>2, PreviousBoundaryProperties
      <4>. QED
        BY <4>1, <4>2
    <3>3. CASE p = NextBoundary(line, cursor)
      BY <1>0, <3>3, NextBoundaryProperties
    <3>. QED
      BY <1>0, <2>1, <3>1, <3>2, <3>3
  <2>. QED
    BY <1>0, <1>3, <2>1, <2>2, ChangedKeeps DEF Move
<1>4. CASE Delete
  <2>1. /\ NextBoundary(line, cursor) \in cursor..Len(line)
        /\ Boundary(line, NextBoundary(line, cursor))
    BY <1>0, NextBoundaryProperties
  <2>2. PICK q \in cursor..Len(line) : q = NextBoundary(line, cursor)
    BY <2>1
  <2>3. /\ Erased(line, cursor, q) \in Line /\ WellFormed(Erased(line, cursor, q))
        /\ Len(Erased(line, cursor, q)) = Len(line) - (q - cursor)
        /\ Boundary(Erased(line, cursor, q), cursor)
    BY <1>0, <2>1, <2>2, ErasedProperties
  <2>4. /\ cursor \in 0..(Len(line) - (q - cursor))
        /\ Len(line) <= options.limit => Len(line) - (q - cursor) <= options.limit
    BY <1>0, <1>4 DEF Delete
  <2>5. reading /\ Changed(Erased(line, cursor, q), cursor)
    BY <1>4, <2>2 DEF Delete
  <2>. QED
    BY <2>3, <2>4, <2>5, ChangedKeeps
<1>5. CASE Backspace
  <2>1. cursor \in 1..Len(line) /\ reading
    BY <1>0, <1>5 DEF Backspace
  <2>2. PICK p \in 0..(cursor - 1) : p = PreviousBoundary(line, cursor)
    BY <1>0, <2>1, PreviousBoundaryProperties
  <2>3. p \in 0..Len(line) /\ cursor \in p..Len(line) /\ Boundary(line, p)
    BY <1>0, <2>1, <2>2, PreviousBoundaryProperties, StartsOnBoundary
  <2>4. /\ Erased(line, p, cursor) \in Line /\ WellFormed(Erased(line, p, cursor))
        /\ Len(Erased(line, p, cursor)) = Len(line) - (cursor - p)
        /\ Boundary(Erased(line, p, cursor), p)
    BY <1>0, <2>3, ErasedProperties
  <2>5. /\ p \in 0..(Len(line) - (cursor - p))
        /\ Len(line) <= options.limit => Len(line) - (cursor - p) <= options.limit
    BY <1>0, <2>1, <2>3
  <2>6. Changed(Erased(line, p, cursor), p)
    BY <1>5, <2>2 DEF Backspace
  <2>. QED
    BY <2>1, <2>4, <2>5, <2>6, ChangedKeeps
<1>6. CASE Up
  <2>1. historyIndex \in 0..Len(history) /\ reading
    BY <1>0, <1>6 DEF Up, EditorInv, HistoryInv, IndexInHistory
  <2>2. PICK index \in 0..Len(history) : Recall(index)
    <3>1. (IF historyIndex > 0 THEN historyIndex - 1 ELSE 0) \in 0..Len(history)
      BY <1>0, <2>1
    <3>. QED
      BY <1>6, <3>1 DEF Up
  <2>. QED
    BY <2>1, <2>2, RecallKeeps
<1>7. CASE Down
  <2>1. historyIndex \in 0..Len(history) /\ reading
    BY <1>0, <1>7 DEF Down, EditorInv, HistoryInv, IndexInHistory
  <2>2. PICK index \in 0..Len(history) : Recall(index)
    <3>1. (IF historyIndex + 1 < Len(history) THEN historyIndex + 1 ELSE Len(history))
            \in 0..Len(history)
      BY <1>0, <2>1
    <3>. QED
      BY <1>7, <3>1 DEF Down
  <2>. QED
    BY <2>1, <2>2, RecallKeeps
<1>8. ASSUME NEW w \in 1..4, reading, Len(line) <= options.limit => Len(line) + w <= options.limit,
             Changed(Inserted(line, cursor, Encoded(w)), cursor + w)
      PROVE  EditorInv'
  <2>1. /\ Inserted(line, cursor, Encoded(w)) \in Line
        /\ Len(Inserted(line, cursor, Encoded(w))) = Len(line) + w
        /\ WellFormed(Inserted(line, cursor, Encoded(w)))
        /\ Boundary(Inserted(line, cursor, Encoded(w)), cursor + w)
    BY <1>0, InsertedProperties
  <2>2. cursor + w \in 0..(Len(line) + w)
    BY <1>0
  <2>. QED
    BY <1>8, <2>1, <2>2, ChangedKeeps
<1>9. CASE Type
  <2>1. PICK w \in Widths : Fits(w) /\ Changed(Inserted(line, cursor, Encoded(w)), cursor + w)
    BY <1>9 DEF Type
  <2>2. w \in 1..4 /\ reading /\ options.limit \in Nat
    BY <1>0, <1>9, LineEditorAssumption DEF Type
  <2>3. Len(line) + w <= options.limit
    BY <1>0, <2>1, <2>2 DEF Fits
  <2>. QED
    BY <1>8, <2>1, <2>2, <2>3
<1>10. CASE Newline
  <2>1. /\ reading /\ options.limit \in Nat /\ Len(line) # options.limit
        /\ Changed(Inserted(line, cursor, Encoded(1)), cursor + 1)
    BY <1>0, <1>10 DEF Newline
  <2>2. Len(line) <= options.limit => Len(line) + 1 <= options.limit
    BY <1>0, <2>1
  <2>. QED
    BY <1>8, <2>1, <2>2
<1>11. CASE Complete
  <2>1. PICK text \in Completions : Len(text) <= options.limit /\ Changed(text, Len(text))
    BY <1>11 DEF Complete
  <2>2. text \in Line /\ WellFormed(text) /\ Len(text) \in Nat
    BY LineEditorAssumption, LenProperties DEF Line
  <2>3. Len(text) \in 0..Len(text) /\ Boundary(text, Len(text)) /\ reading
    BY <1>11, <2>2 DEF Boundary, Complete
  <2>. QED
    BY <2>1, <2>2, <2>3, ChangedKeeps
<1>12. CASE Enter
  <2>1. /\ history' \in Seq(Line)
        /\ \A k \in 1..Len(history') : WellFormed(history'[k])
    <3>1. CASE history' = history
      BY <3>1 DEF EditorInv, HistoryInv
    <3>2. CASE history' = Append(history, line)
      <4>1. /\ history' \in Seq(Line) /\ Len(history') = Len(history) + 1
            /\ \A k \in 1..Len(history) : history'[k] = history[k]
            /\ history'[Len(history) + 1] = line
        BY <1>0, <3>2, AppendProperties DEF EditorInv, HistoryInv
      <4>2. \A k \in 1..Len(history') : k \in 1..Len(history) \/ k = Len(history) + 1
        BY <1>0, <4>1
      <4>. QED
        BY <1>0, <4>1, <4>2 DEF EditorInv, HistoryInv
    <3>. QED
      BY <1>12, <3>1, <3>2 DEF Enter
  <2>2. Len(history') \in Nat
    BY <2>1, LenProperties
  <2>3. LineInv'
    BY <1>12, NoneIsWellFormed DEF Enter, Leave, LineInv, CursorOnBoundary
  <2>5. CallInv'
    BY <1>12 DEF Enter, Leave, CallInv, LongOnlyIfRecalled
  <2>4. HistoryInv'
    BY <1>12, <2>1, <2>2 DEF Enter, Leave, HistoryInv, IndexInHistory
  <2>. QED
    BY <2>3, <2>4, <2>5 DEF EditorInv
<1>13. CASE ClearHistory
  BY <1>13, EmptySeq
  DEF ClearHistory, EditorInv, LineInv, HistoryInv, CallInv, CursorOnBoundary,
      IndexInHistory, LongOnlyIfRecalled
<1>14. CASE UNCHANGED vars
  BY <1>14 DEF vars, EditorInv, LineInv, HistoryInv, CallInv, CursorOnBoundary,
     IndexInHistory, LongOnlyIfRecalled
<1>. QED
  BY <1>1, <1>2, <1>3, <1>4, <1>5, <1>6, <1>7, <1>9, <1>10, <1>11, <1>12, <1>13, <1>14
  DEF Next

LEMMA EditorInitially == Init => EditorInv
<1> SUFFICES ASSUME Init PROVE EditorInv
  OBVIOUS
<1>1. LineInv
  BY NoneIsWellFormed DEF Init, LineInv, CursorOnBoundary
<1>2. HistoryInv
  BY EmptySeq DEF Init, HistoryInv, IndexInHistory
<1>3. CallInv
  BY DEF Init, CallInv, LongOnlyIfRecalled
<1>. QED
  BY <1>1, <1>2, <1>3 DEF EditorInv

\* The invariant of the editor.
THEOREM EditorInvariance == Spec => []EditorInv
<1>1. EditorInv /\ [Next]_vars => EditorInv'
  BY EditorStep
<1>. QED
  BY <1>1, EditorInitially, PTL DEF Spec

\* Whatever is typed, deleted, recalled and completed, and whenever the
\* history is cleared: whole characters, the cursor at the border of one, and
\* a history index within the history.
THEOREM PlacesAreValidCorrect == Spec => []PlacesAreValid
<1>1. EditorInv => PlacesAreValid
  BY DEF EditorInv, LineInv, HistoryInv, PlacesAreValid
<1>. QED
  BY <1>1, EditorInvariance, PTL

\* Typing, line feeds and completions keep to the limit of the call.
THEOREM LongOnlyIfRecalledCorrect == Spec => []LongOnlyIfRecalled
<1>1. EditorInv => LongOnlyIfRecalled
  BY DEF EditorInv, CallInv
<1>. QED
  BY <1>1, EditorInvariance, PTL
=============================================================================
