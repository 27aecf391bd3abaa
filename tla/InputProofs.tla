---------------------------- MODULE InputProofs ----------------------------
(***************************************************************************)
(* Proofs about BufferedSource and about TextReader over it, for every     *)
(* capacity, source and set of limits: the source's type invariant, that   *)
(* what is buffered lies between the reader and the source, that it is a   *)
(* ByteReader; that the reader uses it so that all this holds under the    *)
(* reader too, that failed requests go back, and that what a request       *)
(* returns is a whole line or token.                                       *)
(***************************************************************************)
EXTENDS TextReader, SequenceTheorems, WellFoundedInduction, TLAPS

(* BufferedSource.                                                         *)

\* A closed adapter has nothing and finds the end, which makes the
\* invariants inductive.
Emptied ==
  closed => buffer = <<>> /\ position = 0 /\ end = TRUE /\ Place <= Size

SourceInv ==
  SourceTypeOK /\ Aligned /\ Emptied /\ (call = "Consume" => left # 0)
\* What lies in the buffer are the bytes before the source.
Buffered ==
  /\ sourcePosition \in 0..Size
  /\ buffer \in Seq(1..Size)
  /\ Len(buffer) <= Capacity
  /\ end \in BOOLEAN
  /\ end => sourcePosition = Size
  /\ \A k \in 1..Len(buffer) : buffer[k] = sourcePosition - Len(buffer) + k
-----------------------------------------------------------------------------
LEMMA FunctionIsSeq ==
  ASSUME NEW S, NEW n \in Nat, NEW f \in [1..n -> S]
  PROVE  f \in Seq(S) /\ Len(f) = n
<1>1. f \in Seq(S)
  BY SeqDef
<1>2. Len(f) \in Nat /\ DOMAIN f = 1..Len(f)
  BY <1>1, LenProperties
<1>3. DOMAIN f = 1..n
  OBVIOUS
<1> QED
  BY <1>1, <1>2, <1>3, SMT

LEMMA Nothing == \A S : <<>> \in Seq(S) /\ Len(<<>>) = 0
BY EmptySeq

LEMMA PairIsSeq ==
  ASSUME NEW a \in Nat, NEW b \in Nat
  PROVE  <<a, b>> \in Seq(Nat) /\ Len(<<a, b>>) = 2
         /\ <<a, b>>[1] = a /\ <<a, b>>[2] = b
OBVIOUS

\* n elements behind the first p.
LEMMA SliceProperties ==
  ASSUME NEW S, NEW s, NEW p \in Nat, NEW n \in Nat,
         \A i \in 1..n : s[p + i] \in S
  PROVE  /\ SubSeq(s, p + 1, p + n) \in Seq(S)
         /\ Len(SubSeq(s, p + 1, p + n)) = n
         /\ \A i \in 1..n : SubSeq(s, p + 1, p + n)[i] = s[p + i]
<1> DEFINE a == p + 1
           b == p + n
<1>1. a \in Int /\ b \in Int
  OBVIOUS
<1>2. \A i \in a..b : s[i] \in S
  <2> SUFFICES ASSUME NEW i \in a..b PROVE s[i] \in S
    OBVIOUS
  <2>1. i - p \in 1..n /\ p + (i - p) = i
    OBVIOUS
  <2> QED
    BY <2>1
<1> HIDE DEF a, b
<1>3. /\ SubSeq(s, a, b) \in Seq(S)
      /\ Len(SubSeq(s, a, b)) = IF a <= b THEN b - a + 1 ELSE 0
      /\ \A i \in 1..(b - a + 1) : SubSeq(s, a, b)[i] = s[a + i - 1]
  BY <1>1, <1>2, SubSeqProperties
<1>4. Len(SubSeq(s, a, b)) = n
  BY <1>3 DEF a, b
<1>5. \A i \in 1..n : SubSeq(s, a, b)[i] = s[p + i]
  <2> SUFFICES ASSUME NEW i \in 1..n PROVE SubSeq(s, a, b)[i] = s[p + i]
    OBVIOUS
  <2>1. i \in 1..(b - a + 1) /\ a + i - 1 = p + i
    BY DEF a, b
  <2> QED
    BY <1>3, <2>1
<1> QED
  BY <1>3, <1>4, <1>5 DEF a, b

\* The n elements of s behind the first p are in S, and are what SubSeq has.
SliceOf(S, s, p, n) == \A i \in 1..n : s[p + i] \in S
IsSlice(S, s, p, n) ==
  /\ SubSeq(s, p + 1, p + n) \in Seq(S)
  /\ Len(SubSeq(s, p + 1, p + n)) = n
  /\ \A i \in 1..n : SubSeq(s, p + 1, p + n)[i] = s[p + i]

LEMMA Slices ==
  ASSUME NEW S, NEW s, NEW p \in Nat, NEW n \in Nat, SliceOf(S, s, p, n)
  PROVE  IsSlice(S, s, p, n)
<1>1. \A i \in 1..n : s[p + i] \in S
  BY DEF SliceOf
<1>. QED
  BY <1>1, SliceProperties DEF IsSlice

\* Where the reader and the source stand.
LEMMA Standing ==
  ASSUME SourceInv
  PROVE  /\ Len(buffer) \in Nat
         /\ Place \in 0..Size
         /\ ~closed => Place = sourcePosition - (Len(buffer) - position)
         /\ closed => Len(buffer) = 0
<1>1. Len(buffer) \in Nat
  BY LenProperties DEF SourceInv, SourceTypeOK
<1>2. base \in Nat /\ logicalPosition \in Nat /\ Size \in Nat /\ sourcePosition \in 0..Size
  BY BufferedSourceAssumption DEF SourceInv, SourceTypeOK
<1>3. CASE closed
  BY <1>1, <1>2, <1>3, Nothing DEF SourceInv, Emptied, Place
<1>4. CASE ~closed
  <2>1. Place + (Len(buffer) - position) = sourcePosition
    BY <1>4 DEF SourceInv, Aligned
  <2>2. position \in 0..Len(buffer)
    BY DEF SourceInv, SourceTypeOK
  <2> QED
    BY <1>1, <1>2, <1>4, <2>1, <2>2 DEF Place
<1> QED
  BY <1>3, <1>4

\* What is left when the bytes that were handed out are dropped.
LEMMA RestProperties ==
  ASSUME SourceInv
  PROVE  /\ Rest \in Seq(1..Size)
         /\ Len(Rest) = Len(buffer) - position
         /\ \A k \in 1..Len(Rest) : Rest[k] = buffer[position + k]
<1>1. Len(buffer) \in Nat /\ position \in 0..Len(buffer)
      /\ \A k \in 1..Len(buffer) : buffer[k] \in 1..Size
  BY LenProperties, ElementOfSeq DEF SourceInv, SourceTypeOK
<1> DEFINE n == Len(buffer) - position
<1>2. n \in Nat /\ position \in Nat /\ position + n = Len(buffer)
  BY <1>1
<1>3. \A i \in 1..n : buffer[position + i] \in 1..Size
  BY <1>1
<1> HIDE DEF n
<1>4. /\ SubSeq(buffer, position + 1, position + n) \in Seq(1..Size)
      /\ Len(SubSeq(buffer, position + 1, position + n)) = n
      /\ \A i \in 1..n :
           SubSeq(buffer, position + 1, position + n)[i] = buffer[position + i]
  BY <1>2, <1>3, SliceProperties
<1> QED
  BY <1>2, <1>4 DEF Rest, n

\* A read of the source extends what is kept with the bytes that follow.
LEMMA ReadsProperties ==
  ASSUME SourceInv,
         NEW kept \in Seq(1..Size), NEW space \in Nat,
         Len(kept) + space <= Capacity,
         \A k \in 1..Len(kept) : kept[k] = sourcePosition - Len(kept) + k,
         NEW n \in Nat, NEW atEnd \in BOOLEAN,
         SourceReads(kept, space, n, atEnd)
  PROVE  /\ Buffered'
         /\ sourcePosition' = sourcePosition + n
         /\ Len(buffer') = Len(kept) + n
         /\ end' = atEnd
<1>1. /\ Len(kept) \in Nat /\ sourcePosition \in 0..Size
      /\ Size \in Nat /\ Capacity \in Nat
      /\ \A k \in 1..Len(kept) : kept[k] \in 1..Size
  BY BufferedSourceAssumption, LenProperties, ElementOfSeq DEF SourceInv, SourceTypeOK
<1>2. /\ n <= space /\ sourcePosition' = sourcePosition + n /\ sourcePosition + n <= Size
      /\ end' = atEnd /\ (atEnd => sourcePosition + n = Size)
  BY DEF SourceReads
<1>3. buffer' = [k \in 1..(Len(kept) + n) |->
                   IF k <= Len(kept) THEN kept[k] ELSE sourcePosition + (k - Len(kept))]
  BY DEF SourceReads
<1>4. buffer' \in [1..(Len(kept) + n) -> 1..Size]
  BY <1>1, <1>2, <1>3, SMT
<1>5. buffer' \in Seq(1..Size) /\ Len(buffer') = Len(kept) + n
  <2>1. Len(kept) + n \in Nat
    BY <1>1
  <2>. QED
    BY <1>4, <2>1, FunctionIsSeq, Zenon
<1>6. \A k \in 1..(Len(kept) + n) : buffer'[k] = sourcePosition - Len(kept) + k
  BY <1>1, <1>3, SMT
<1>7. \A k \in 1..Len(buffer') : buffer'[k] = sourcePosition' - Len(buffer') + k
  BY <1>1, <1>2, <1>5, <1>6
<1>8. /\ sourcePosition' \in 0..Size /\ Len(buffer') <= Capacity
      /\ end' \in BOOLEAN /\ (end' => sourcePosition' = Size)
  BY <1>1, <1>2, <1>5
<1> QED
  BY <1>2, <1>5, <1>7, <1>8 DEF Buffered
-----------------------------------------------------------------------------
\* What a step of a running call leaves of the buffer: it may be compacted,
\* grow from the source, or lose its first byte.
LEMMA FetchInv ==
  ASSUME SourceInv, NEW k \in Nat, Fetch(k)
  PROVE  /\ ~closed
         /\ Buffered'
         /\ position' = 0
         /\ UNCHANGED <<logicalPosition, base>>
         /\ Place' = Place
         /\ Place + Len(buffer') = sourcePosition'
<1>1. ~closed
  BY DEF Fetch, SourceInv, Emptied
<1>2. PICK n \in 0..Capacity, atEnd \in BOOLEAN :
        SourceReads(Rest, Capacity - Len(Rest), n, atEnd)
  BY DEF Fetch
<1>3. /\ Capacity \in Nat /\ Len(Rest) \in Nat /\ Len(Rest) < Capacity
      /\ sourcePosition \in Nat /\ position \in Nat
  BY BufferedSourceAssumption, RestProperties, LenProperties
  DEF Fetch, SourceInv, SourceTypeOK
<1>4. \A i \in 1..Len(Rest) : Rest[i] = sourcePosition - Len(Rest) + i
  <2>1. \A i \in 1..Len(buffer) : buffer[i] = sourcePosition - Len(buffer) + i
    BY <1>1 DEF SourceInv, Aligned
  <2>2. Len(buffer) \in Nat /\ position \in 0..Len(buffer)
    BY Standing DEF SourceInv, SourceTypeOK
  <2>3. Len(Rest) = Len(buffer) - position
        /\ \A i \in 1..Len(Rest) : Rest[i] = buffer[position + i]
    BY RestProperties
  <2> SUFFICES ASSUME NEW i \in 1..Len(Rest)
               PROVE  Rest[i] = sourcePosition - Len(Rest) + i
    OBVIOUS
  <2>4. position + i \in 1..Len(buffer)
    BY <1>3, <2>2, <2>3
  <2>5. buffer[position + i] = sourcePosition - Len(buffer) + (position + i)
    BY <2>1, <2>4
  <2> QED
    BY <1>3, <2>2, <2>3, <2>5
<1>5. /\ Buffered'
      /\ sourcePosition' = sourcePosition + n
      /\ Len(buffer') = Len(Rest) + n
  BY <1>2, <1>3, <1>4, RestProperties, ReadsProperties
<1>6. position' = 0 /\ Place' = Place /\ UNCHANGED <<logicalPosition, base>>
  BY DEF Fetch, Place
<1>7. Place + Len(buffer') = sourcePosition'
  <2>1. Len(Rest) = Len(buffer) - position
    BY RestProperties
  <2>2. Place = sourcePosition - (Len(buffer) - position)
    BY <1>1, Standing
  <2>3. Len(buffer) \in Nat /\ n \in Nat
    BY <1>3, Standing
  <2> QED
    BY <1>3, <1>5, <2>1, <2>2, <2>3
<1> QED
  BY <1>1, <1>5, <1>6, <1>7

LEMMA CompactedInv ==
  ASSUME SourceInv, Compacted
  PROVE  /\ buffer' \in Seq(1..Size) /\ Len(buffer') = Len(buffer) - position
         /\ position' = 0
         /\ UNCHANGED <<sourcePosition, logicalPosition, end, base>> /\ Place' = Place
         /\ \A i \in 1..Len(buffer') : buffer'[i] = buffer[position + i]
         /\ closed => buffer' = <<>>
<1>1. buffer' = Rest /\ position' = 0 /\ UNCHANGED <<sourcePosition, logicalPosition, end, base>>
  BY DEF Compacted
<1>2. Place' = Place
  BY <1>1 DEF Place
<1>3. closed => Rest = <<>>
  <2>1. closed => Len(Rest) = 0
    BY RestProperties, Standing DEF SourceInv, Emptied
  <2> QED
    BY <2>1, RestProperties, EmptySeq
<1> QED
  BY <1>1, <1>2, <1>3, RestProperties
-----------------------------------------------------------------------------
LEMMA InitInv == SourceInit => SourceInv
<1> SUFFICES ASSUME SourceInit PROVE SourceInv
  OBVIOUS
<1>1. /\ Size \in Nat /\ Capacity \in Nat /\ sourcePosition \in 0..Size
      /\ buffer = <<>> /\ position = 0 /\ logicalPosition = 0 /\ end = FALSE
      /\ call = "None" /\ ahead = 0 /\ left = 0 /\ base = sourcePosition
      /\ got = <<>> /\ closed = FALSE
  BY BufferedSourceAssumption DEF SourceInit
<1>2. buffer \in Seq(1..Size) /\ got \in Seq(Nat) /\ Len(buffer) = 0
  BY <1>1, Nothing
<1>3. SourceTypeOK
  <2>1. /\ Len(buffer) <= Capacity /\ position \in 0..Len(buffer)
        /\ logicalPosition \in 0..Size /\ base \in 0..Size
        /\ ahead \in 0..Capacity /\ left \in 0..(Capacity + 1)
    BY <1>1, <1>2
  <2> QED
    BY <1>1, <1>2, <2>1 DEF SourceTypeOK
<1>4. Aligned
  BY <1>1, <1>2 DEF Aligned, Place
<1> QED
  BY <1>1, <1>3, <1>4 DEF SourceInv, Emptied

\* An adapter that is not closed, put together from its parts.
LEMMA Assembled ==
  ASSUME Buffered', position' \in 0..Len(buffer'),
         base' \in 0..Size, logicalPosition' \in Nat,
         got' \in Seq(Nat), closed' = FALSE,
         call' \in {"None", "Peek", "Consume"}, ahead' \in 0..Capacity,
         left' \in 0..(Capacity + 1), call' = "Consume" => left' # 0,
         Place' + (Len(buffer') - position') = sourcePosition'
  PROVE  SourceInv'
<1>1. logicalPosition' \in 0..Size
  <2>1. Len(buffer') \in Nat /\ Size \in Nat /\ sourcePosition' \in 0..Size
    BY BufferedSourceAssumption, LenProperties DEF Buffered
  <2>2. base' + logicalPosition' + (Len(buffer') - position') = sourcePosition'
    BY DEF Place
  <2>3. \A a, b, c, d \in Nat : a + b + c = d /\ d <= Size => b \in 0..Size
    BY <2>1, Z3
  <2>4. base' \in Nat /\ Len(buffer') - position' \in Nat /\ sourcePosition' \in Nat
        /\ sourcePosition' <= Size
    BY <2>1
  <2> QED
    BY <2>2, <2>3, <2>4
<1>2. SourceTypeOK'
  BY <1>1 DEF SourceTypeOK, Buffered
<1>3. Aligned'
  BY DEF Aligned, Buffered
<1> QED
  BY <1>2, <1>3 DEF SourceInv, Emptied

\* What ReadSome hands out are the bytes from the reader on.
LEMMA HandOutProperties ==
  ASSUME SourceInv, buffer' \in Seq(1..Size), end' \in BOOLEAN,
         NEW p \in Nat, NEW n \in Nat, p + n <= Len(buffer'),
         \A i \in 1..Len(buffer') : buffer'[i] = Place - p + i,
         HandOut(p, n)
  PROVE  /\ position' = p + n
         /\ logicalPosition' = logicalPosition + n
         /\ got' \in Seq(Nat)
         /\ n = 0 => got' = <<0, Place + 1>>
         /\ n > 0 => \/ got' = Reader!Bytes(n)
                     \/ /\ got' = Append(Reader!Bytes(n), 0)
                        /\ end' /\ p + n = Len(buffer')
<1> DEFINE handed == SubSeq(buffer', p + 1, p + n)
<1>1. /\ Len(buffer') \in Nat /\ Place \in Nat /\ Size \in Nat
      /\ \A i \in 1..Len(buffer') : buffer'[i] \in 1..Size
  BY BufferedSourceAssumption, Standing, LenProperties, ElementOfSeq
<1>2. \A i \in 1..n : buffer'[p + i] \in Nat
  BY <1>1
<1>3. /\ handed \in Seq(Nat)
      /\ Len(handed) = n
      /\ \A i \in 1..n : handed[i] = buffer'[p + i]
  <2>1. PICK b : b = buffer'
    OBVIOUS
  <2>2. SliceOf(Nat, b, p, n)
    BY <1>2, <2>1 DEF SliceOf
  <2>3. IsSlice(Nat, b, p, n)
    BY <2>2, Slices
  <2> QED
    BY <2>1, <2>3 DEF IsSlice
<1>4. Len(handed) = n
  BY <1>3
<1>5. Reader!Bytes(n) \in [1..n -> Nat]
  BY <1>1 DEF Reader!Bytes
<1>6. Reader!Bytes(n) \in Seq(Nat) /\ Len(Reader!Bytes(n)) = n
  BY <1>5, FunctionIsSeq
<1>7. \A i \in 1..n : handed[i] = Reader!Bytes(n)[i]
  <2> SUFFICES ASSUME NEW i \in 1..n PROVE handed[i] = Reader!Bytes(n)[i]
    OBVIOUS
  <2>1. handed[i] = buffer'[p + i]
    BY <1>3
  <2>2. p + i \in 1..Len(buffer')
    BY <1>1
  <2>3. buffer'[p + i] = Place + i
    BY <1>1, <2>2
  <2> QED
    BY <2>1, <2>3 DEF Reader!Bytes
<1>8. handed = Reader!Bytes(n)
  BY <1>3, <1>4, <1>6, <1>7, SeqEqual
<1>9. /\ position' = p + n
      /\ logicalPosition' = logicalPosition + n
      /\ got' = IF n = 0 THEN <<0, Place + 1>>
                ELSE IF end' /\ p + n = Len(buffer') THEN Append(handed, 0) ELSE handed
  BY DEF HandOut
<1>10. Append(handed, 0) \in Seq(Nat) /\ <<0, Place + 1>> \in Seq(Nat)
  BY <1>1, <1>3, AppendProperties, PairIsSeq
<1> HIDE DEF handed
<1> QED
  BY <1>3, <1>8, <1>9, <1>10
-----------------------------------------------------------------------------
ReaderStep == [Reader!Next]_(Reader!vars)

\* ReadSome that hands out n bytes of what is buffered then.
LEMMA HandingOutStep ==
  ASSUME SourceInv, ~closed, closed' = closed, base' = base,
         UNCHANGED <<call, ahead, left>>,
         Buffered', NEW p \in Nat, NEW n \in Nat, p + n <= Len(buffer'),
         Place = sourcePosition' - (Len(buffer') - p),
         n = 0 => Len(buffer') = p /\ end',
         HandOut(p, n)
  PROVE  SourceInv' /\ ReaderStep
<1>1. /\ Len(buffer') \in Nat /\ Place \in 0..Size /\ Size \in Nat
      /\ sourcePosition' \in 0..Size /\ end' \in BOOLEAN
      /\ (end' => sourcePosition' = Size)
  BY BufferedSourceAssumption, Standing, LenProperties DEF Buffered
<1>2. buffer' \in Seq(1..Size)
      /\ \A k \in 1..Len(buffer') : buffer'[k] = Place - p + k
  BY <1>1 DEF Buffered
<1>3. /\ position' = p + n
      /\ logicalPosition' = logicalPosition + n
      /\ got' \in Seq(Nat)
      /\ n = 0 => got' = <<0, Place + 1>>
      /\ n > 0 => \/ got' = Reader!Bytes(n)
                  \/ /\ got' = Append(Reader!Bytes(n), 0)
                     /\ end' /\ p + n = Len(buffer')
  BY <1>1, <1>2, HandOutProperties
<1>4. logicalPosition \in Nat /\ base \in Nat /\ Place' = Place + n
  BY <1>3, BufferedSourceAssumption DEF SourceInv, SourceTypeOK, Place
<1>5. SourceInv'
  <2>1. /\ position' \in 0..Len(buffer') /\ logicalPosition' \in Nat
        /\ base' \in 0..Size /\ closed' = FALSE
        /\ call' \in {"None", "Peek", "Consume"} /\ ahead' \in 0..Capacity
        /\ left' \in 0..(Capacity + 1) /\ (call' = "Consume" => left' # 0)
    BY <1>1, <1>3, <1>4 DEF SourceInv, SourceTypeOK
  <2>2. Place' + (Len(buffer') - position') = sourcePosition'
    BY <1>1, <1>3, <1>4
  <2> QED
    BY <1>3, <2>1, <2>2, Assembled
<1>6. CASE n = 0
  <2>1. Place = Size /\ got' = <<0, Place + 1>> /\ Place' = Place
    BY <1>1, <1>3, <1>4, <1>6
  <2>2. Len(got') = 2 /\ got'[1] = 0 /\ got'[2] = Place + 1
    BY <1>1, <2>1, PairIsSeq
  <2>3. got'[2] > Place /\ got'[2] > Size
    BY <1>1, <2>1, <2>2
  <2>4. Reader!ReportEnd
    BY <2>1, <2>2, <2>3 DEF Reader!ReportEnd
  <2> QED
    BY <1>5, <2>4 DEF ReaderStep, Reader!Next
<1>7. CASE n > 0
  <2>1. n \in 1..(Size - Place)
    BY <1>1, <1>7
  <2>2. end' /\ p + n = Len(buffer') => Place + n = Size
    BY <1>1
  <2>3. Reader!Read
    BY <1>3, <1>4, <1>7, <2>1, <2>2 DEF Reader!Read
  <2> QED
    BY <1>5, <2>3 DEF ReaderStep, Reader!Next
<1> QED
  BY <1>6, <1>7

LEMMA ReadSomeStep ==
  ASSUME SourceInv, ReadSome
  PROVE  SourceInv' /\ ReaderStep
<1>1. UNCHANGED <<call, ahead, left, base, closed>>
  BY DEF ReadSome
<1>2. /\ Len(buffer) \in Nat /\ Capacity \in Nat /\ Size \in Nat
      /\ position \in 0..Len(buffer) /\ sourcePosition \in 0..Size
      /\ Place \in 0..Size
  BY BufferedSourceAssumption, Standing DEF SourceInv, SourceTypeOK
<1>3. CASE /\ Available(0)
           /\ \E n \in 1..(Capacity + 1) :
                position + n <= Len(buffer) /\ HandOut(position, n)
           /\ UNCHANGED <<sourcePosition, buffer, end>>
  <2>1. PICK n \in 1..(Capacity + 1) :
          position + n <= Len(buffer) /\ HandOut(position, n)
    BY <1>3
  <2>2. ~closed
    BY <1>2, <1>3, Standing DEF Available
  <2>3. /\ HandOut(position, n) /\ position + n <= Len(buffer')
        /\ n \in Nat /\ n # 0 /\ position \in Nat
    BY <1>2, <1>3, <2>1
  <2>4. Place = sourcePosition' - (Len(buffer') - position)
    BY <1>3, <2>2, Standing
  <2>5. Buffered'
    BY <1>3, <2>2 DEF Buffered, SourceInv, SourceTypeOK, Aligned
  <2> QED
    BY <1>1, <2>2, <2>3, <2>4, <2>5, HandingOutStep
<1>4. CASE /\ Fill /\ end
           /\ \E n \in Nat : n <= Len(buffer') /\ HandOut(0, n)
  <2>1. buffer' = <<>> /\ UNCHANGED <<sourcePosition, end>> /\ position = Len(buffer)
    BY <1>4 DEF Fill
  <2>2. Len(buffer') = 0 /\ buffer' \in Seq(1..Size)
    BY <2>1, Nothing
  <2>3. HandOut(0, 0)
    BY <1>4, <2>2
  <2>4. CASE ~closed
    <3>1. sourcePosition = Size /\ Place = sourcePosition
      BY <1>2, <1>4, <2>1, <2>4, Standing DEF SourceInv, Aligned
    <3>2. Buffered'
      BY <1>2, <1>4, <2>1, <2>2, <3>1 DEF Buffered
    <3>3. Place = sourcePosition' - (Len(buffer') - 0) /\ end' /\ 0 + 0 <= Len(buffer')
      BY <1>2, <1>4, <2>1, <2>2, <3>1
    <3> QED
      BY <1>1, <2>2, <2>3, <2>4, <3>2, <3>3, HandingOutStep
  <2>5. CASE closed
    <3>1. /\ position' = 0 /\ logicalPosition' = logicalPosition
          /\ got' \in Seq(Nat) /\ got' = <<0, Place + 1>>
      <4>1. \A i \in 1..Len(buffer') : buffer'[i] = Place - 0 + i
        BY <2>2
      <4>2. end' \in BOOLEAN /\ 0 + 0 <= Len(buffer') /\ logicalPosition \in Nat
        BY <2>1, <2>2, <1>2 DEF SourceInv, SourceTypeOK
      <4> QED
        BY <2>2, <2>3, <4>1, <4>2, HandOutProperties
    <3>2. Place' = Place /\ Place + 1 > Place
      BY <1>1, <1>2, <3>1 DEF Place
    <3>3. Len(got') = 2 /\ got'[1] = 0 /\ got'[2] = Place + 1
      BY <1>2, <3>1, PairIsSeq
    <3>4. Reader!ReportEnd
      BY <1>1, <2>5, <3>2, <3>3 DEF Reader!ReportEnd
    <3>5. SourceInv'
      <4>1. SourceTypeOK'
        BY <1>1, <1>2, <2>1, <2>2, <3>1 DEF SourceInv, SourceTypeOK
      <4> QED
        BY <1>1, <1>2, <1>4, <2>1, <2>5, <3>1, <3>2, <4>1
        DEF SourceInv, Aligned, Emptied
    <3> QED
      BY <3>4, <3>5 DEF ReaderStep, Reader!Next
  <2> QED
    BY <2>4, <2>5
<1>5. CASE /\ Fill /\ ~end
           /\ \E n \in Nat : /\ n <= Len(buffer')
                             /\ n = 0 => Len(buffer') = 0
                             /\ HandOut(0, n)
  <2>1. ~closed /\ position = Len(buffer)
    BY <1>5 DEF Fill, SourceInv, Emptied
  <2>2. PICK m \in 0..Capacity, atEnd \in BOOLEAN :
          (m > 0 \/ atEnd) /\ SourceReads(<<>>, Capacity, m, atEnd)
    BY <1>5 DEF Fill
  <2>3. PICK kept \in Seq(1..Size) : kept = <<>> /\ Len(kept) = 0
    BY Nothing
  <2>4. /\ m \in Nat /\ Len(kept) + Capacity <= Capacity
        /\ \A k \in 1..Len(kept) : kept[k] = sourcePosition - Len(kept) + k
    BY <1>2, <2>3
  <2>5. SourceReads(kept, Capacity, m, atEnd)
    BY <2>2, <2>3, Zenon
  <2>6. /\ Buffered'
        /\ sourcePosition' = sourcePosition + m
        /\ Len(buffer') = m
        /\ end' = atEnd
    <3>1. /\ Buffered'
          /\ sourcePosition' = sourcePosition + m
          /\ Len(buffer') = Len(kept) + m
          /\ end' = atEnd
      BY <1>2, <2>4, <2>5, ReadsProperties
    <3> QED
      BY <2>3, <2>4, <3>1
  <2>7. PICK n \in Nat : /\ n <= Len(buffer')
                         /\ n = 0 => Len(buffer') = 0
                         /\ HandOut(0, n)
    BY <1>5
  <2>8. n = 0 => Len(buffer') = 0 /\ end'
    BY <2>2, <2>4, <2>6, <2>7
  <2>9. Place = sourcePosition
    BY <1>2, <2>1, Standing
  <2>10. Place = sourcePosition' - (Len(buffer') - 0) /\ 0 + n <= Len(buffer')
    BY <1>2, <2>4, <2>6, <2>7, <2>9
  <2> QED
    BY <1>1, <2>1, <2>6, <2>7, <2>8, <2>10, HandingOutStep
<1>6. \/ /\ Available(0)
         /\ \E n \in 1..(Capacity + 1) :
              position + n <= Len(buffer) /\ HandOut(position, n)
         /\ UNCHANGED <<sourcePosition, buffer, end>>
      \/ /\ Fill
         /\ \E n \in Nat : /\ n <= Len(buffer')
                           /\ n = 0 => Len(buffer') = 0
                           /\ HandOut(0, n)
  <2>1. PICK size \in 1..(Capacity + 1) :
          \/ /\ Available(0)
             /\ \E n \in 1..size :
                  /\ position + n <= Len(buffer)
                  /\ n = size \/ position + n = Len(buffer)
                  /\ HandOut(position, n)
             /\ UNCHANGED <<sourcePosition, buffer, end>>
          \/ /\ Fill
             /\ \E n \in 0..size :
                  /\ n <= Len(buffer')
                  /\ n = size \/ n = Len(buffer')
                  /\ HandOut(0, n)
    BY DEF ReadSome
  <2>2. 1..size \subseteq 1..(Capacity + 1) /\ 0..size \subseteq Nat
        /\ \A n \in 0..size : n = 0 => n # size
    BY <1>2
  <2> QED
    BY <2>1, <2>2
<1> QED
  BY <1>3, <1>4, <1>5, <1>6
-----------------------------------------------------------------------------
\* Rounds of a running call.  A call that goes on or returns has call, ahead
\* and left in their ranges.
Running ==
  /\ call \in {"None", "Peek", "Consume"}
  /\ ahead \in 0..Capacity
  /\ left \in 0..(Capacity + 1)
  /\ call = "Consume" => left # 0

LEMMA FetchStep ==
  ASSUME SourceInv, NEW k \in Nat, Fetch(k), got' = got, closed' = closed, Running'
  PROVE  SourceInv' /\ ReaderStep
<1>1. /\ ~closed /\ Buffered' /\ position' = 0 /\ Place' = Place
      /\ UNCHANGED <<logicalPosition, base>>
      /\ Place + Len(buffer') = sourcePosition'
  BY FetchInv
<1>2. Len(buffer') \in Nat /\ Place \in Nat
  BY <1>1, Standing, LenProperties DEF Buffered
<1>3. position' \in 0..Len(buffer') /\ Place' + (Len(buffer') - position') = sourcePosition'
  BY <1>1, <1>2
<1>4. base' \in 0..Size /\ logicalPosition' \in Nat /\ got' \in Seq(Nat) /\ closed' = FALSE
  BY <1>1 DEF SourceInv, SourceTypeOK
<1>5. SourceInv'
  BY <1>1, <1>3, <1>4, Assembled DEF Running
<1> QED
  BY <1>1, <1>5 DEF ReaderStep, Reader!vars

\* A buffer that is compacted is as good as it was.
LEMMA CompactedKeeps ==
  ASSUME SourceInv, Compacted, closed' = closed, got' \in Seq(Nat), Running'
  PROVE  SourceInv' /\ Place' = Place
<1>1. /\ buffer' \in Seq(1..Size) /\ Len(buffer') = Len(buffer) - position
      /\ position' = 0
      /\ UNCHANGED <<sourcePosition, logicalPosition, end, base>> /\ Place' = Place
      /\ \A i \in 1..Len(buffer') : buffer'[i] = buffer[position + i]
      /\ closed => buffer' = <<>>
  BY CompactedInv
<1>2. /\ Len(buffer) \in Nat /\ Len(buffer) <= Capacity /\ position \in 0..Len(buffer)
      /\ Capacity \in Nat /\ Size \in Nat /\ sourcePosition \in 0..Size
      /\ Place \in 0..Size /\ logicalPosition \in 0..Size /\ base \in 0..Size
  BY BufferedSourceAssumption, Standing DEF SourceInv, SourceTypeOK
<1>3. CASE closed
  <2>1. SourceTypeOK'
    BY <1>1, <1>2 DEF SourceInv, SourceTypeOK, Running
  <2> QED
    BY <1>1, <1>3, <2>1 DEF SourceInv, Aligned, Emptied, Running
<1>4. CASE ~closed
  <2>1. \A i \in 1..Len(buffer') : buffer'[i] = sourcePosition' - Len(buffer') + i
    <3> SUFFICES ASSUME NEW i \in 1..Len(buffer')
                 PROVE  buffer'[i] = sourcePosition' - Len(buffer') + i
      OBVIOUS
    <3>1. position + i \in 1..Len(buffer)
      BY <1>1, <1>2
    <3>2. buffer[position + i] = sourcePosition - Len(buffer) + (position + i)
      BY <1>4, <3>1 DEF SourceInv, Aligned
    <3> QED
      BY <1>1, <1>2, <3>2
  <2>2. Buffered'
    BY <1>1, <1>2, <1>4, <2>1 DEF Buffered, SourceInv, SourceTypeOK, Aligned
  <2>3. /\ position' \in 0..Len(buffer')
        /\ Place' + (Len(buffer') - position') = sourcePosition'
    BY <1>1, <1>2, <1>4, Standing
  <2>4. logicalPosition' \in Nat /\ base' \in 0..Size /\ closed' = FALSE
    BY <1>1, <1>2, <1>4 DEF SourceInv, SourceTypeOK
  <2>5. SourceInv'
    BY <2>2, <2>3, <2>4, Assembled DEF Running
  <2> QED
    BY <1>1, <2>5
<1> QED
  BY <1>3, <1>4

LEMMA FindsEndStep ==
  ASSUME SourceInv, NEW k \in Nat, FindsEnd(k), closed' = closed, Running'
  PROVE  SourceInv' /\ ReaderStep
<1>1. ~Available(k) /\ end /\ Compacted /\ got' = <<0, Place + k + 1>>
  BY DEF FindsEnd
<1>2. /\ Len(buffer) \in Nat /\ position \in 0..Len(buffer)
      /\ Size \in Nat /\ Place \in 0..Size
  BY BufferedSourceAssumption, Standing DEF SourceInv, SourceTypeOK
<1>3. Place + k + 1 \in Nat
  BY <1>2
<1>4. got' \in Seq(Nat) /\ Len(got') = 2 /\ got'[1] = 0 /\ got'[2] = Place + k + 1
  BY <1>1, <1>3, PairIsSeq
<1>5. SourceInv' /\ Place' = Place
  BY <1>1, <1>4, CompactedKeeps
<1>6. ~closed => Place + k + 1 > Size
  <2>1. ~(position + k < Len(buffer))
    BY <1>1 DEF Available
  <2>2. ~closed => sourcePosition = Size
    BY <1>1 DEF SourceInv, Aligned
  <2>3. ~closed => Place = sourcePosition - (Len(buffer) - position)
    BY Standing
  <2> QED
    BY <1>2, <2>1, <2>2, <2>3
<1>7. got'[2] > Place
  BY <1>2, <1>4
<1>8. Reader!ReportEnd
  BY <1>4, <1>5, <1>6, <1>7 DEF Reader!ReportEnd
<1> QED
  BY <1>5, <1>8 DEF ReaderStep, Reader!Next

LEMMA PeekFailsStep ==
  ASSUME SourceInv, NEW k \in Nat, PeekFails(k), closed' = closed, Running'
  PROVE  SourceInv' /\ ReaderStep
<1>1. Compacted /\ got' = got /\ got' \in Seq(Nat)
  BY DEF PeekFails, SourceInv, SourceTypeOK
<1>2. SourceInv' /\ Place' = Place
  BY <1>1, CompactedKeeps
<1> QED
  BY <1>1, <1>2 DEF ReaderStep, Reader!vars

LEMMA TakeStep ==
  ASSUME SourceInv, Available(0), Take, got' = got, closed' = closed, Running'
  PROVE  SourceInv' /\ ReaderStep
<1>1. /\ position' = position + 1 /\ logicalPosition' = logicalPosition + 1
      /\ UNCHANGED <<sourcePosition, buffer, end, base>>
  BY DEF Take
<1>2. /\ Len(buffer) \in Nat /\ position \in 0..Len(buffer) /\ position < Len(buffer)
      /\ Size \in Nat /\ Place \in 0..Size /\ sourcePosition \in 0..Size
      /\ logicalPosition \in 0..Size /\ base \in 0..Size
  BY BufferedSourceAssumption, Standing DEF SourceInv, SourceTypeOK, Available
<1>3. ~closed /\ Place = sourcePosition - (Len(buffer) - position)
  BY <1>2, Standing
<1>4. Place' = Place + 1
  BY <1>1, <1>2 DEF Place
<1>5. Buffered'
  BY <1>1, <1>3 DEF Buffered, SourceInv, SourceTypeOK, Aligned
<1>6. /\ position' \in 0..Len(buffer') /\ logicalPosition' \in Nat /\ base' \in 0..Size
      /\ Place' + (Len(buffer') - position') = sourcePosition'
  BY <1>1, <1>2, <1>3, <1>4
<1>7. got' \in Seq(Nat) /\ closed' = FALSE
  BY <1>3 DEF SourceInv, SourceTypeOK
<1>8. SourceInv'
  BY <1>5, <1>6, <1>7, Assembled DEF Running
<1>9. Reader!Skip
  BY <1>2, <1>3, <1>4 DEF Reader!Skip
<1> QED
  BY <1>8, <1>9 DEF ReaderStep, Reader!Next

LEMMA PeekedStep ==
  ASSUME SourceInv, NEW k \in Nat, Available(k), got' = <<Ahead(k)>>,
         UNCHANGED <<sourcePosition, buffer, position, logicalPosition, end,
                     base, closed>>,
         Running'
  PROVE  SourceInv' /\ ReaderStep
<1>1. /\ Len(buffer) \in Nat /\ position \in 0..Len(buffer)
      /\ Size \in Nat /\ Place \in 0..Size /\ sourcePosition \in 0..Size
  BY BufferedSourceAssumption, Standing DEF SourceInv, SourceTypeOK
<1>2. position + k + 1 \in 1..Len(buffer)
  BY <1>1 DEF Available
<1>3. ~closed /\ Place = sourcePosition - (Len(buffer) - position)
  BY <1>1, <1>2, Standing
<1>4. Ahead(k) = sourcePosition - Len(buffer) + (position + k + 1)
  BY <1>2, <1>3 DEF Ahead, SourceInv, Aligned
<1>5. Ahead(k) \in (Place + 1)..Size
  BY <1>1, <1>2, <1>3, <1>4
<1>6. Place' = Place
  BY DEF Place
<1>7. Reader!Peek
  BY <1>3, <1>5, <1>6 DEF Reader!Peek
<1>8. got' \in Seq(Nat)
  <2>1. \A a \in Nat : <<a>> \in Seq(Nat)
    OBVIOUS
  <2>2. Ahead(k) \in Nat
    BY <1>1, <1>5
  <2> QED
    BY <2>1, <2>2
<1>9. SourceInv'
  <2>1. SourceTypeOK'
    BY <1>8 DEF SourceInv, SourceTypeOK, Running
  <2> QED
    BY <1>3, <1>6, <2>1 DEF SourceInv, Aligned, Emptied, Running
<1> QED
  BY <1>7, <1>9 DEF ReaderStep, Reader!Next
-----------------------------------------------------------------------------
LEMMA RoundStep ==
  ASSUME SourceInv, Round
  PROVE  SourceInv' /\ ReaderStep
<1>1. closed' = closed /\ ahead \in Nat
  BY BufferedSourceAssumption DEF Round, SourceInv, SourceTypeOK
<1>2. CallReturns => Running'
  BY BufferedSourceAssumption DEF CallReturns, Running
<1>3. UNCHANGED <<call, ahead, left>> => Running'
  BY DEF Running, SourceInv, SourceTypeOK
<1>4. CASE Fetch(ahead) /\ UNCHANGED <<call, ahead, left, got>>
  BY <1>1, <1>3, <1>4, FetchStep
<1>5. CASE FindsEnd(ahead) /\ CallReturns
  BY <1>1, <1>2, <1>5, FindsEndStep
<1>6. CASE PeekFails(ahead) /\ CallReturns
  BY <1>1, <1>2, <1>6, PeekFailsStep
<1>7. CASE /\ Available(ahead)
           /\ got' = <<Ahead(ahead)>>
           /\ CallReturns
           /\ UNCHANGED <<sourcePosition, buffer, position, logicalPosition, end, base>>
  BY <1>1, <1>2, <1>7, PeekedStep
<1>8. CASE /\ call = "Consume"
           /\ Available(0)
           /\ Take
           /\ got' = got
           /\ IF left = 1 THEN CallReturns
              ELSE left' = left - 1 /\ UNCHANGED <<call, ahead>>
  <2>1. Running'
    <3>1. CASE left = 1
      BY <1>2, <1>8, <3>1
    <3>2. CASE left # 1
      <4>1. left \in 1..(Capacity + 1) /\ Capacity \in Nat
        BY <1>8, BufferedSourceAssumption DEF SourceInv, SourceTypeOK
      <4>2. left' = left - 1 /\ UNCHANGED <<call, ahead>>
        BY <1>8, <3>2
      <4>3. left' \in 0..(Capacity + 1) /\ left' # 0
        BY <3>2, <4>1, <4>2
      <4> QED
        BY <4>2, <4>3 DEF Running, SourceInv, SourceTypeOK
    <3> QED
      BY <3>1, <3>2
  <2> QED
    BY <1>1, <1>8, <2>1, TakeStep
<1> QED
  BY <1>4, <1>5, <1>6, <1>7, <1>8 DEF Round

LEMMA ReadSomeFailsStep ==
  ASSUME SourceInv, ReadSomeFails
  PROVE  SourceInv' /\ ReaderStep
<1>1. /\ ~closed /\ position = Len(buffer) /\ end = FALSE
      /\ buffer' = <<>> /\ position' = 0
      /\ UNCHANGED <<sourcePosition, logicalPosition, end, call, ahead, left, base,
                     got, closed>>
  BY DEF ReadSomeFails, SourceInv, SourceTypeOK, Emptied
<1>2. Len(buffer') = 0 /\ buffer' \in Seq(1..Size)
  BY <1>1, Nothing
<1>3. Place = sourcePosition /\ Place' = Place /\ Place \in Nat
  <2>1. Place = sourcePosition - (Len(buffer) - position) /\ Len(buffer) \in Nat
        /\ Place \in Nat
    BY <1>1, Standing
  <2>2. sourcePosition \in Nat
    BY DEF SourceInv, SourceTypeOK
  <2>3. Place' = Place
    BY <1>1 DEF Place
  <2> QED
    BY <1>1, <2>1, <2>2, <2>3
<1>4. Buffered'
  BY <1>1, <1>2, BufferedSourceAssumption DEF Buffered, SourceInv, SourceTypeOK
<1>5. /\ position' \in 0..Len(buffer') /\ logicalPosition' \in Nat /\ base' \in 0..Size
      /\ Place' + (Len(buffer') - position') = sourcePosition'
      /\ got' \in Seq(Nat) /\ closed' = FALSE
  BY <1>1, <1>2, <1>3 DEF SourceInv, SourceTypeOK
<1>6. Running'
  BY <1>1 DEF Running, SourceInv, SourceTypeOK
<1>7. SourceInv'
  BY <1>4, <1>5, <1>6, Assembled DEF Running
<1> QED
  BY <1>1, <1>3, <1>7 DEF ReaderStep, Reader!vars

LEMMA BeginStep ==
  ASSUME SourceInv, Peek \/ Consume
  PROVE  SourceInv' /\ ReaderStep
<1>1. UNCHANGED <<sourcePosition, buffer, position, logicalPosition, end, base, got, closed>>
  BY DEF Peek, Consume
<1>2. Running'
  BY BufferedSourceAssumption DEF Peek, Consume, Running, SourceInv, SourceTypeOK
<1>3. Place' = Place
  BY <1>1 DEF Place
<1>4. SourceTypeOK'
  BY <1>1, <1>2 DEF Running, SourceInv, SourceTypeOK
<1>5. SourceInv'
  BY <1>1, <1>2, <1>3, <1>4 DEF Running, SourceInv, Aligned, Emptied
<1> QED
  BY <1>1, <1>3, <1>5 DEF ReaderStep, Reader!vars

LEMMA SeekStep ==
  ASSUME SourceInv, NEW p \in 0..Size, SeekTo(p), UNCHANGED <<call, ahead, left>>
  PROVE  SourceInv' /\ ReaderStep
<1>1. /\ sourcePosition' = p /\ buffer' = <<>> /\ position' = 0
      /\ logicalPosition' = p /\ end' = FALSE /\ base' = 0
      /\ got' = <<>> /\ closed' = FALSE
  BY DEF SeekTo
<1>2. /\ Len(buffer') = 0 /\ buffer' \in Seq(1..Size) /\ got' \in Seq(Nat)
      /\ Size \in Nat /\ Capacity \in Nat
  BY <1>1, Nothing, BufferedSourceAssumption
<1>3. Place' = p
  BY <1>1 DEF Place
<1>4. Buffered'
  <2>1. Len(buffer') <= Capacity
    BY <1>2
  <2>2. /\ sourcePosition' \in 0..Size /\ end' \in BOOLEAN
        /\ (end' => sourcePosition' = Size)
    BY <1>1
  <2>3. \A k \in 1..Len(buffer') : buffer'[k] = sourcePosition' - Len(buffer') + k
    BY <1>2
  <2> QED
    BY <1>2, <2>1, <2>2, <2>3 DEF Buffered
<1>5. /\ position' \in 0..Len(buffer') /\ logicalPosition' \in Nat /\ base' \in 0..Size
      /\ Place' + (Len(buffer') - position') = sourcePosition'
  BY <1>1, <1>2, <1>3
<1>6. Running'
  BY DEF Running, SourceInv, SourceTypeOK
<1>7. SourceInv'
  BY <1>1, <1>2, <1>4, <1>5, <1>6, Assembled DEF Running
<1>8. Reader!Seek
  BY <1>1, <1>3 DEF Reader!Seek
<1> QED
  BY <1>7, <1>8 DEF ReaderStep, Reader!Next

LEMMA CloseStep ==
  ASSUME SourceInv, Close
  PROVE  SourceInv' /\ ReaderStep
<1>1. /\ position' = 0 /\ buffer' = <<>> /\ end' = TRUE /\ closed' = TRUE
      /\ UNCHANGED <<sourcePosition, logicalPosition, call, ahead, left, base, got>>
  BY DEF Close
<1>2. Len(buffer') = 0 /\ buffer' \in Seq(1..Size) /\ Capacity \in Nat /\ Place \in 0..Size
  BY <1>1, Nothing, BufferedSourceAssumption, Standing
<1>3. Place' = Place
  BY <1>1 DEF Place
<1>4. SourceTypeOK'
  BY <1>1, <1>2 DEF SourceInv, SourceTypeOK
<1>5. SourceInv'
  BY <1>1, <1>2, <1>3, <1>4 DEF SourceInv, Aligned, Emptied
<1>6. Reader!Close
  BY <1>1, <1>3 DEF Reader!Close
<1> QED
  BY <1>5, <1>6 DEF ReaderStep, Reader!Next

LEMMA NextStep ==
  ASSUME SourceInv, [SourceNext]_source_vars
  PROVE  SourceInv' /\ ReaderStep
<1>1. CASE ReadSome
  BY <1>1, ReadSomeStep
<1>2. CASE ReadSomeFails
  BY <1>2, ReadSomeFailsStep
<1>3. CASE Peek \/ Consume
  BY <1>3, BeginStep
<1>4. CASE Round
  BY <1>4, RoundStep
<1>5. CASE Seek
  <2>1. PICK p \in 0..Size : SeekTo(p)
    BY <1>5 DEF Seek
  <2> QED
    BY <1>5, <2>1, SeekStep DEF Seek
<1>6. CASE Close
  BY <1>6, CloseStep
<1>7. CASE UNCHANGED source_vars
  <2>1. Place' = Place /\ UNCHANGED <<got, closed>>
    BY <1>7 DEF source_vars, Place
  <2>2. SourceInv'
    BY <1>7, <2>1 DEF source_vars, SourceInv, SourceTypeOK, Aligned, Emptied
  <2> QED
    BY <2>1, <2>2 DEF ReaderStep, Reader!vars
<1> QED
  BY <1>1, <1>2, <1>3, <1>4, <1>5, <1>6, <1>7 DEF SourceNext

LEMMA Invariance == SourceSpec => []SourceInv
<1>1. SourceInv /\ [SourceNext]_source_vars => SourceInv'
  BY NextStep
<1> QED
  BY <1>1, InitInv, PTL DEF SourceSpec
-----------------------------------------------------------------------------
(***************************************************************************)
(* The adapter's indices stay within what was read, and its count of       *)
(* bytes within the source.                                                *)
(***************************************************************************)
THEOREM SourceTypeCorrect == SourceSpec => []SourceTypeOK
<1>1. SourceInv => SourceTypeOK
  BY DEF SourceInv
<1> QED
  BY <1>1, Invariance, PTL

(***************************************************************************)
(* What is buffered is what lies between the reader and the source, and    *)
(* the end is known only at the end.                                       *)
(***************************************************************************)
THEOREM AlignedCorrect == SourceSpec => []Aligned
<1>1. SourceInv => Aligned
  BY DEF SourceInv
<1> QED
  BY <1>1, Invariance, PTL

(***************************************************************************)
(* The adapter is a ByteReader: it hands out the bytes of the source in    *)
(* their order, none twice and none left out, looks ahead truthfully, and  *)
(* reports the end only there or when it is closed.                        *)
(***************************************************************************)
THEOREM SourceRefinement == SourceSpec => ImplementsByteReader
<1>1. SourceInit => Reader!Init
  <2>1. SourceInit => Place = base /\ base \in 0..Size /\ got = <<>> /\ closed = FALSE
    BY BufferedSourceAssumption DEF SourceInit, Place
  <2> QED
    BY <2>1 DEF Reader!Init
<1>2. SourceInv /\ [SourceNext]_source_vars => [Reader!Next]_(Reader!vars)
  BY NextStep DEF ReaderStep
<1> QED
  BY <1>1, <1>2, Invariance, PTL DEF SourceSpec, ImplementsByteReader, Reader!Spec
-----------------------------------------------------------------------------
(* TextReader.                                                             *)

\* A request goes back to a position in the source.
ReaderInv == SourceInv /\ checkpoint \in 0..Size
-----------------------------------------------------------------------------
\* None of the ways on forgets where the request began.
LEMMA FailsKeeps == Fails => checkpoint' = checkpoint
BY DEF Fails

LEMMA GivesKeeps == ASSUME NEW t, Gives(t) PROVE checkpoint' = checkpoint
BY FailsKeeps DEF Gives

LEMMA AddsKeeps == ASSUME NEW c, Adds(c) PROVE checkpoint' = checkpoint
BY FailsKeeps, GivesKeeps DEF Adds

\* What the reader does with a byte is to consume it or not.
LEMMA DecodeTakes ==
  ASSUME NEW b, Decode(b)
  PROVE  checkpoint' = checkpoint /\ (Take \/ Stay)
BY FailsKeeps, AddsKeeps DEF Decode, Interrupted

LEMMA ByteTakes ==
  ASSUME NEW b,
         SkipSpace(b) \/ EndToken(b) \/ EndLine(b) \/ AfterCR(b) \/ ReadCharacter(b)
  PROVE  checkpoint' = checkpoint /\ (Take \/ Stay)
<1>1. CASE SkipSpace(b)
  BY <1>1 DEF SkipSpace
<1>2. CASE EndToken(b)
  BY <1>2, GivesKeeps DEF EndToken
<1>3. CASE EndLine(b)
  BY <1>3, FailsKeeps, GivesKeeps DEF EndLine
<1>4. CASE AfterCR(b)
  BY <1>4, FailsKeeps, GivesKeeps DEF AfterCR
<1>5. CASE ReadCharacter(b)
  BY <1>5, FailsKeeps, DecodeTakes DEF ReadCharacter
<1> QED
  BY <1>1, <1>2, <1>3, <1>4, <1>5

LEMMA StayStep ==
  ASSUME SourceInv, Stay, UNCHANGED <<got, closed>>, Running'
  PROVE  SourceInv' /\ ReaderStep
<1>1. /\ UNCHANGED <<sourcePosition, buffer, position, logicalPosition, end, base>>
      /\ Place' = Place
  BY DEF Stay, Place
<1>2. SourceTypeOK'
  BY <1>1 DEF SourceInv, SourceTypeOK, Running
<1>3. SourceInv'
  BY <1>1, <1>2 DEF SourceInv, Aligned, Emptied, Running
<1> QED
  BY <1>1, <1>3 DEF ReaderStep, Reader!vars

LEMMA CallKept ==
  ASSUME SourceInv, UNCHANGED <<call, ahead, left>>
  PROVE  Running'
BY DEF SourceInv, SourceTypeOK, Running

LEMMA StepKeeps ==
  ASSUME ReaderInv, Step
  PROVE  ReaderInv' /\ ReaderStep
<1>1. UNCHANGED <<call, ahead, left, closed>>
  BY DEF Step
<1>2. Running' /\ SourceInv
  BY <1>1, CallKept DEF ReaderInv
<1>3. CASE /\ Available(0)
           /\ got' = got
           /\ \E b \in {Ahead(0)} :
                SkipSpace(b) \/ EndToken(b) \/ EndLine(b) \/ AfterCR(b) \/ ReadCharacter(b)
  <2>1. checkpoint' = checkpoint /\ (Take \/ Stay)
    BY <1>3, ByteTakes
  <2>2. CASE Take
    BY <1>1, <1>2, <1>3, <2>1, <2>2, TakeStep DEF ReaderInv
  <2>3. CASE Stay
    BY <1>1, <1>2, <1>3, <2>1, <2>3, StayStep DEF ReaderInv
  <2> QED
    BY <2>1, <2>2, <2>3
<1>4. CASE Fetch(0) /\ UNCHANGED <<got, checkpoint>>
  BY <1>1, <1>2, <1>4, FetchStep DEF ReaderInv
<1>5. CASE FindsEnd(0) /\ AtEnd
  <2>1. checkpoint' = checkpoint
    BY <1>5, FailsKeeps, GivesKeeps, AddsKeeps DEF AtEnd
  <2> QED
    BY <1>1, <1>2, <1>5, <2>1, FindsEndStep DEF ReaderInv
<1>6. CASE PeekFails(0) /\ IF task = "AfterCR" THEN Gives(text) ELSE Fails
  <2>1. checkpoint' = checkpoint
    BY <1>6, FailsKeeps, GivesKeeps
  <2> QED
    BY <1>1, <1>2, <1>6, <2>1, PeekFailsStep DEF ReaderInv
<1> QED
  BY <1>3, <1>4, <1>5, <1>6 DEF Step

LEMMA RestoreKeeps ==
  ASSUME ReaderInv, Restore
  PROVE  ReaderInv' /\ ReaderStep
<1>1. UNCHANGED <<call, ahead, left, checkpoint>>
  BY DEF Restore
<1>2. CASE SeekTo(checkpoint)
  BY <1>1, <1>2, SeekStep DEF ReaderInv
<1>3. CASE Stay /\ UNCHANGED <<got, closed>>
  BY <1>1, <1>3, CallKept, StayStep DEF ReaderInv
<1> QED
  BY <1>2, <1>3 DEF Restore

LEMMA BeginKeeps ==
  ASSUME ReaderInv, ReadCodePoint \/ ReadLine \/ ReadToken \/ Request
  PROVE  ReaderInv' /\ ReaderStep
<1>1. UNCHANGED source_vars
  BY DEF ReadCodePoint, ReadLine, ReadToken, Request, Begin
<1>2. checkpoint' = checkpoint \/ checkpoint' = logicalPosition
  BY DEF ReadCodePoint, ReadLine, ReadToken, Request
<1>3. checkpoint' \in 0..Size
  BY <1>2 DEF ReaderInv, SourceInv, SourceTypeOK
<1>4. SourceInv' /\ ReaderStep
  BY <1>1, NextStep DEF ReaderInv
<1> QED
  BY <1>3, <1>4 DEF ReaderInv

LEMMA ReaderNextStep ==
  ASSUME ReaderInv, [Next]_vars
  PROVE  ReaderInv' /\ ReaderStep
<1>1. CASE Step
  BY <1>1, StepKeeps
<1>2. CASE Restore
  BY <1>2, RestoreKeeps
<1>3. CASE ReadCodePoint \/ ReadLine \/ ReadToken \/ Request
  BY <1>3, BeginKeeps
<1>4. CASE Direct
  <2>1. SourceNext /\ checkpoint' = checkpoint
    BY <1>4 DEF Direct
  <2> QED
    BY <2>1, NextStep DEF ReaderInv
<1>5. CASE UNCHANGED vars
  <2>1. UNCHANGED source_vars /\ checkpoint' = checkpoint
    BY <1>5 DEF vars, text_vars
  <2> QED
    BY <2>1, NextStep DEF ReaderInv
<1> QED
  BY <1>1, <1>2, <1>3, <1>4, <1>5 DEF Next

LEMMA ReaderInvariance == Spec => []ReaderInv
<1>1. Init => ReaderInv
  BY InitInv, BufferedSourceAssumption DEF Init, ReaderInv
<1>2. ReaderInv /\ [Next]_vars => ReaderInv'
  BY ReaderNextStep
<1> QED
  BY <1>1, <1>2, PTL DEF Spec
-----------------------------------------------------------------------------
(***************************************************************************)
(* Under a text reader, its requests, and calls that go around it, what is *)
(* buffered is what lies between the reader and the source.                *)
(***************************************************************************)
THEOREM AlignedUnderReader == Spec => []Aligned
<1>1. ReaderInv => Aligned
  BY DEF ReaderInv, SourceInv
<1> QED
  BY <1>1, ReaderInvariance, PTL

(***************************************************************************)
(* Whatever the text reader decodes, gives up or goes back on, no byte is  *)
(* handed out twice or left out but by a Seek, and no end is reported      *)
(* before the end.                                                         *)
(***************************************************************************)
THEOREM RefinementUnderReader == Spec => ImplementsByteReader
<1>1. Init => Reader!Init
  <2>1. Init => Place = base /\ base \in 0..Size /\ got = <<>> /\ closed = FALSE
    BY BufferedSourceAssumption DEF Init, SourceInit, Place
  <2> QED
    BY <2>1 DEF Reader!Init
<1>2. ReaderInv /\ [Next]_vars => [Reader!Next]_(Reader!vars)
  BY ReaderNextStep DEF ReaderStep
<1> QED
  BY <1>1, <1>2, ReaderInvariance, PTL DEF Spec, ImplementsByteReader, Reader!Spec
-----------------------------------------------------------------------------
Tasks == {"None", "CodePoint", "Skip", "Token", "Line", "AfterCR", "Restore"}

\* A result is given by the call that ends, and kept while nobody calls.
RestoreInv ==
  /\ task \in Tasks
  /\ task # "None" => result # "Restored"
  /\ RestoresUnlessOffset

LEMMA FailsResult ==
  ASSUME task \in Tasks, result # "Restored", Fails
  PROVE  task' \in Tasks /\ result' # "Restored"
BY DEF Fails, Tasks

LEMMA GivesResult ==
  ASSUME NEW t, task \in Tasks, result # "Restored", Gives(t)
  PROVE  task' \in Tasks /\ result' # "Restored"
BY FailsResult DEF Gives, Tasks

LEMMA AddsResult ==
  ASSUME NEW c, task \in Tasks, result # "Restored", Adds(c)
  PROVE  task' \in Tasks /\ result' # "Restored"
BY FailsResult, GivesResult DEF Adds

LEMMA DecodeResult ==
  ASSUME NEW b, task \in Tasks, result # "Restored", Decode(b)
  PROVE  task' \in Tasks /\ result' # "Restored"
BY FailsResult, AddsResult DEF Decode, Interrupted

LEMMA StepResult ==
  ASSUME task \in Tasks, result # "Restored", Step
  PROVE  task' \in Tasks /\ result' # "Restored"
<1>1. ASSUME NEW b,
             SkipSpace(b) \/ EndToken(b) \/ EndLine(b) \/ AfterCR(b) \/ ReadCharacter(b)
      PROVE  task' \in Tasks /\ result' # "Restored"
  <2>1. CASE SkipSpace(b)
    BY <2>1 DEF SkipSpace, Tasks
  <2>2. CASE EndToken(b)
    BY <2>2, GivesResult DEF EndToken
  <2>3. CASE EndLine(b)
    BY <2>3, FailsResult, GivesResult DEF EndLine, Tasks
  <2>4. CASE AfterCR(b)
    BY <2>4, FailsResult, GivesResult DEF AfterCR
  <2>5. CASE ReadCharacter(b)
    BY <2>5, FailsResult, DecodeResult DEF ReadCharacter
  <2> QED
    BY <1>1, <2>1, <2>2, <2>3, <2>4, <2>5
<1>2. AtEnd => task' \in Tasks /\ result' # "Restored"
  BY FailsResult, GivesResult, AddsResult DEF AtEnd
<1>3. (IF task = "AfterCR" THEN Gives(text) ELSE Fails)
        => task' \in Tasks /\ result' # "Restored"
  BY FailsResult, GivesResult
<1> QED
  BY <1>1, <1>2, <1>3 DEF Step

\* With nothing buffered, the next byte is the one behind the source.
LEMMA RestoreResult ==
  ASSUME ReaderInv, task \in Tasks, result # "Restored", Restore
  PROVE  task' = "None" /\ RestoresUnlessOffset'
<1>1. task' = "None" /\ checkpoint' = checkpoint /\ origin' = origin
  BY DEF Restore
<1>2. CASE SeekTo(checkpoint)
  <2>1. sourcePosition' = checkpoint /\ buffer' = <<>> /\ position' = 0
    BY <1>2 DEF SeekTo
  <2>2. ~Available(0)'
    BY <2>1 DEF Available
  <2>3. NextByte' = checkpoint' + 1
    BY <1>1, <2>1, <2>2 DEF NextByte
  <2> QED
    BY <1>1, <2>3 DEF RestoresUnlessOffset
<1>3. CASE result' = "Failed"
  BY <1>1, <1>3 DEF RestoresUnlessOffset
<1> QED
  BY <1>2, <1>3 DEF Restore

LEMMA RestoreInvStep ==
  ASSUME ReaderInv, RestoreInv, [Next]_vars
  PROVE  RestoreInv'
<1>1. CASE Step
  <2>1. task \in Tasks /\ result # "Restored"
    BY <1>1 DEF RestoreInv, Step
  <2>2. task' \in Tasks /\ result' # "Restored"
    BY <1>1, <2>1, StepResult
  <2> QED
    BY <2>2 DEF RestoreInv, RestoresUnlessOffset
<1>2. CASE Restore
  <2>1. task \in Tasks /\ result # "Restored"
    BY <1>2 DEF RestoreInv, Restore
  <2> QED
    BY <1>2, <2>1, RestoreResult DEF RestoreInv, Tasks
<1>3. CASE ReadCodePoint \/ ReadLine \/ ReadToken \/ Request
  <2>1. result' = "None" /\ task' \in Tasks
    BY <1>3 DEF ReadCodePoint, ReadLine, ReadToken, Request, Begin, Tasks
  <2> QED
    BY <2>1 DEF RestoreInv, RestoresUnlessOffset
<1>4. CASE Direct
  BY <1>4 DEF Direct, RestoreInv, RestoresUnlessOffset
<1>5. CASE UNCHANGED vars
  BY <1>5 DEF vars, text_vars, source_vars, RestoreInv, RestoresUnlessOffset,
              NextByte, Available, Ahead
<1> QED
  BY <1>1, <1>2, <1>3, <1>4, <1>5 DEF Next

LEMMA RestoreInvariance == Spec => []RestoreInv
<1>1. Init => RestoreInv
  BY DEF Init, RestoreInv, RestoresUnlessOffset, Tasks
<1>2. ReaderInv /\ RestoreInv /\ [Next]_vars => RestoreInv'
  BY RestoreInvStep
<1> QED
  BY <1>1, <1>2, ReaderInvariance, PTL DEF Spec

(***************************************************************************)
(* A failed request that went back leaves the reader where it was, however *)
(* many values it had read, if the reader counted from the beginning of    *)
(* the source.                                                             *)
(***************************************************************************)
THEOREM FailedRequestsGoBack == Spec => []RestoresUnlessOffset
<1>1. RestoreInv => RestoresUnlessOffset
  BY DEF RestoreInv
<1> QED
  BY <1>1, RestoreInvariance, PTL
-----------------------------------------------------------------------------
(* Numbers and recursion.                                                  *)

LEMMA LeastNatural ==
  ASSUME NEW T \in SUBSET Nat, T # {}
  PROVE  \E m \in T : \A n \in T : m <= n
<1>1. PICK m \in T : \A n \in T : <<n, m>> \notin OpToRel(<, Nat)
  BY NatLessThanWellFounded, WFMin
<1>2. \A n \in T : n \in Nat /\ m \in Nat /\ ~(n < m)
  BY <1>1 DEF OpToRel
<1>3. \A n \in T : m <= n
  BY <1>2
<1>. QED
  BY <1>3

\* Every step from one value to the next has a function that takes n of them.
IsRun(g, F, b, n, S) ==
  g \in [0..n -> S] /\ g[0] = b /\ \A i \in 1..n : g[i] = F[i][g[i - 1]]

LEMMA Recursion ==
  ASSUME NEW S, NEW b \in S, NEW n \in Nat, NEW F \in [1..n -> [S -> S]]
  PROVE  \E g : IsRun(g, F, b, n, S)
<1>. SUFFICES \E g \in [0..n -> S] : g[0] = b /\ \A i \in 1..n : g[i] = F[i][g[i - 1]]
  BY DEF IsRun
<1> DEFINE Good(k, g) ==
      g \in [0..k -> S] /\ g[0] = b /\ \A i \in 1..k : g[i] = F[i][g[i - 1]]
<1> DEFINE T == {k \in 0..n : ~ \E g : Good(k, g)}
<1>1. SUFFICES ASSUME T # {} PROVE FALSE
  <2>1. n \in 0..n
    OBVIOUS
  <2>. QED
    BY <2>1
<1>2. PICK k \in T : \A i \in T : k <= i
  <2>1. T \in SUBSET Nat
    OBVIOUS
  <2>. HIDE DEF T
  <2>. QED
    BY <1>1, <2>1, LeastNatural
<1>3. k # 0
  <2> DEFINE g == [i \in 0..0 |-> b]
  <2>1. Good(0, g)
    OBVIOUS
  <2>. QED
    BY <1>2, <2>1
<1>4. k \in 1..n /\ k - 1 \in 0..n /\ k - 1 \notin T
  BY <1>2, <1>3
<1>5. PICK f : Good(k - 1, f)
  BY <1>4
<1> DEFINE g == [i \in 0..k |-> IF i = k THEN F[k][f[k - 1]] ELSE f[i]]
<1>6. f[k - 1] \in S /\ F[k] \in [S -> S]
  BY <1>4, <1>5
<1>7. g \in [0..k -> S] /\ g[0] = b
  BY <1>4, <1>5, <1>6
<1>8. ASSUME NEW i \in 1..k
      PROVE  g[i] = F[i][g[i - 1]]
  <2>1. i - 1 \in 0..k /\ i - 1 # k /\ g[i - 1] = f[i - 1]
    BY <1>4
  <2>2. CASE i = k
    BY <2>1, <2>2
  <2>3. CASE i # k
    <3>1. i \in 1..(k - 1)
      BY <1>4, <2>3
    <3>. QED
      BY <1>5, <2>1, <2>3, <3>1
  <2>. QED
    BY <2>2, <2>3
<1>9. Good(k, g)
  BY <1>7, <1>8
<1>. QED
  BY <1>2, <1>9
-----------------------------------------------------------------------------
(* The characters of a run of bytes.                                       *)

FileOK == file \in [1..Size -> Kinds]

LEMMA FileFacts == file \in Files => FileOK /\ Size \in Nat
BY TextReaderAssumption, BufferedSourceAssumption DEF FileOK

LEMMA CharacterIs ==
  ASSUME FileOK, NEW a \in Nat, NEW b \in Nat, NEW p \in a..b, b <= Size, 1 <= a,
         Size \in Nat
  PROVE  /\ CharacterAt(p, a, b) \in Int
         /\ file[p] = "Cont" =>
              CharacterAt(p, a, b) = IF p > a /\ file[p - 1] = "Lead" THEN 0 ELSE -p
         /\ file[p] = "Lead" =>
              CharacterAt(p, a, b) = IF p < b /\ file[p + 1] = "Cont" THEN p ELSE -p
         /\ file[p] \notin {"Cont", "Lead"} => CharacterAt(p, a, b) = p
<1>1. p \in Int /\ -p \in Int /\ 0 \in Int
  OBVIOUS
<1>2. CASE file[p] = "Cont"
  BY <1>1, <1>2 DEF CharacterAt
<1>3. CASE file[p] = "Lead"
  BY <1>1, <1>3 DEF CharacterAt
<1>4. CASE file[p] \notin {"Cont", "Lead"}
  BY <1>1, <1>4 DEF CharacterAt
<1>. QED
  BY <1>2, <1>3, <1>4

\* No pair of a Lead and a Cont lies across the end of the bytes to c.
Unsplit(c, b) == c < b /\ file[c] = "Lead" => file[c + 1] # "Cont"

LEMMA CharacterSame ==
  ASSUME FileOK, Size \in Nat, NEW a \in Nat, NEW b \in Nat, NEW c \in Nat,
         NEW p \in a..c, b <= Size, c <= b, 1 <= a, Unsplit(c, b)
  PROVE  CharacterAt(p, a, b) = CharacterAt(p, a, c)
<1>1. p \in a..b /\ c <= Size
  OBVIOUS
<1>2. CASE file[p] = "Cont"
  BY <1>2 DEF CharacterAt
<1>3. CASE file[p] = "Lead"
  <2>1. (p < b /\ file[p + 1] = "Cont") <=> (p < c /\ file[p + 1] = "Cont")
    <3>1. CASE p = c
      BY <1>3, <3>1 DEF Unsplit
    <3>2. CASE p < c
      BY <3>2
    <3>. QED
      BY <3>1, <3>2
  <2>. QED
    BY <1>3, <2>1 DEF CharacterAt
<1>4. CASE file[p] \notin {"Cont", "Lead"}
  BY <1>4 DEF CharacterAt
<1>. QED
  BY <1>2, <1>3, <1>4
-----------------------------------------------------------------------------
Joined(s, c) == IF c = 0 THEN s ELSE Append(s, c)

\* What g has for the first k of the bytes from a to b.
Values(g, a, b, k) ==
  /\ g[0] = <<>>
  /\ \A i \in 1..k : g[i] = Joined(g[i - 1], CharacterAt(a + i - 1, a, b))

LEMMA SameValues ==
  ASSUME NEW g, NEW h, NEW a, NEW b, NEW c, NEW k \in Nat, NEW n \in Nat, k <= n,
         Values(g, a, b, n), Values(h, a, c, k),
         \A i \in 1..k : CharacterAt(a + i - 1, a, b) = CharacterAt(a + i - 1, a, c)
  PROVE  g[k] = h[k]
<1> DEFINE T == {i \in 0..k : g[i] # h[i]}
<1>1. SUFFICES ASSUME T # {} PROVE FALSE
  OBVIOUS
<1>2. PICK m \in T : \A i \in T : m <= i
  <2>1. T \in SUBSET Nat
    OBVIOUS
  <2>. HIDE DEF T
  <2>. QED
    BY <1>1, <2>1, LeastNatural
<1>3. m # 0
  BY <1>2 DEF Values
<1>4. m \in 1..k /\ m \in 1..n /\ m - 1 \in 0..k /\ m - 1 \notin T
  BY <1>2, <1>3
<1>5. g[m - 1] = h[m - 1]
  BY <1>4
<1>6. /\ g[m] = Joined(g[m - 1], CharacterAt(a + m - 1, a, b))
      /\ h[m] = Joined(h[m - 1], CharacterAt(a + m - 1, a, c))
      /\ CharacterAt(a + m - 1, a, b) = CharacterAt(a + m - 1, a, c)
  BY <1>4 DEF Values
<1>. QED
  BY <1>2, <1>5, <1>6

Run(a, b) == a \in 1..(Size + 1) /\ b \in (a - 1)..Size

LEMMA CharactersAre ==
  ASSUME FileOK, Size \in Nat, NEW a, NEW b, Run(a, b)
  PROVE  \E g : /\ Values(g, a, b, b + 1 - a)
               /\ Characters(a, b) = g[b + 1 - a]
               /\ Characters(a, b) \in Seq(Int)
<1> DEFINE n == b + 1 - a
<1>1. n \in Nat /\ a \in Nat /\ b \in Nat /\ 1 <= a /\ b <= Size
  BY DEF Run
<1> DEFINE F == [i \in 1..n |-> [s \in Seq(Int) |-> Joined(s, CharacterAt(a + i - 1, a, b))]]
<1>2. ASSUME NEW i \in 1..n
      PROVE  CharacterAt(a + i - 1, a, b) \in Int
  <2>1. a + i - 1 \in a..b
    BY <1>1
  <2>. QED
    BY <1>1, <2>1, CharacterIs
<1>3. F \in [1..n -> [Seq(Int) -> Seq(Int)]]
  <2>1. ASSUME NEW s \in Seq(Int), NEW c \in Int
        PROVE  Joined(s, c) \in Seq(Int)
    BY AppendProperties DEF Joined
  <2>. QED
    BY <1>2, <2>1
<1>4. <<>> \in Seq(Int)
  BY EmptySeq
<1>5. PICK g : IsRun(g, F, <<>>, n, Seq(Int))
  <2>. HIDE DEF F, n
  <2>. QED
    BY <1>1, <1>3, <1>4, Recursion
<1>6. /\ g \in [0..n -> Seq(Int)]
      /\ g[0] = <<>>
      /\ \A i \in 1..n : g[i] = Joined(g[i - 1], CharacterAt(a + i - 1, a, b))
  <2>1. /\ g \in [0..n -> Seq(Int)]
        /\ g[0] = <<>>
        /\ \A i \in 1..n : g[i] = F[i][g[i - 1]]
    BY <1>5 DEF IsRun
  <2>2. ASSUME NEW i \in 1..n
        PROVE  g[i] = Joined(g[i - 1], CharacterAt(a + i - 1, a, b))
    <3>1. i - 1 \in 0..n
      BY <1>1
    <3>2. g[i - 1] \in Seq(Int)
      BY <2>1, <3>1
    <3>. QED
      BY <2>1, <3>2
  <2>. QED
    BY <2>1, <2>2
<1>7. Values(g, a, b, n)
  BY <1>6 DEF Values
<1> DEFINE Body(f) == [m \in 0..n |->
                         IF m = 0 THEN <<>>
                         ELSE IF CharacterAt(a + m - 1, a, b) = 0 THEN f[m - 1]
                         ELSE Append(f[m - 1], CharacterAt(a + m - 1, a, b))]
<1> DEFINE among == CHOOSE f : f = Body(f)
<1>8. g = Body(g)
  <2>1. DOMAIN g = 0..n /\ DOMAIN Body(g) = 0..n
    BY <1>6
  <2>2. ASSUME NEW m \in 0..n PROVE g[m] = Body(g)[m]
    <3>1. CASE m = 0
      BY <1>6, <3>1
    <3>2. CASE m # 0
      <4>1. m \in 1..n
        BY <1>1, <3>2
      <4>. QED
        BY <1>6, <3>2, <4>1 DEF Joined
    <3>. QED
      BY <3>1, <3>2
  <2>. QED
    BY <1>6, <2>1, <2>2
<1>9. among = Body(among)
  <2>. HIDE DEF Body
  <2>. QED
    BY <1>8
<1>10. Values(among, a, b, n)
  <2>1. among[0] = <<>>
    <3>1. Body(among)[0] = <<>>
      <4>. HIDE DEF among
      <4>. QED
        BY <1>1
    <3>. QED
      BY <1>9, <3>1
  <2>2. ASSUME NEW i \in 1..n
        PROVE  among[i] = Joined(among[i - 1], CharacterAt(a + i - 1, a, b))
    <3>1. i \in 0..n /\ i # 0
      BY <1>1
    <3>2. among[i] = Body(among)[i]
      BY <1>9
    <3>3. Body(among)[i] = Joined(among[i - 1], CharacterAt(a + i - 1, a, b))
      <4>. HIDE DEF among
      <4>. QED
        BY <3>1 DEF Joined
    <3>. QED
      BY <3>2, <3>3
  <2>. HIDE DEF among
  <2>. QED
    BY <2>1, <2>2 DEF Values
<1>11. Characters(a, b) = among[n]
  BY DEF Characters
<1>12. among[n] = g[n]
  <2>. HIDE DEF among, n
  <2>. QED
    BY <1>1, <1>7, <1>10, SameValues
<1>13. g[n] \in Seq(Int)
  BY <1>1, <1>6
<1> HIDE DEF among
<1>14. Characters(a, b) = g[n] /\ Characters(a, b) \in Seq(Int)
  BY <1>11, <1>12, <1>13
<1>. QED
  BY <1>7, <1>14

LEMMA NoCharacters ==
  ASSUME FileOK, Size \in Nat, NEW a \in 1..(Size + 1)
  PROVE  Characters(a, a - 1) = <<>>
<1>1. Run(a, a - 1) /\ (a - 1) + 1 - a = 0
  BY DEF Run
<1>2. PICK g : Values(g, a, a - 1, 0) /\ Characters(a, a - 1) = g[0]
  BY <1>1, CharactersAre
<1>. QED
  BY <1>2 DEF Values

\* The characters to c, of those to b that no pair crosses.
LEMMA CharactersUpTo ==
  ASSUME FileOK, Size \in Nat, NEW a, NEW b, NEW c, Run(a, b), Run(a, c), c <= b,
         Unsplit(c, b), NEW g, Values(g, a, b, b + 1 - a)
  PROVE  g[c + 1 - a] = Characters(a, c)
<1>1. /\ a \in Nat /\ b \in Nat /\ c \in Nat /\ 1 <= a /\ b <= Size
      /\ c + 1 - a \in Nat /\ b + 1 - a \in Nat /\ c + 1 - a <= b + 1 - a
  BY DEF Run
<1>2. PICK h : Values(h, a, c, c + 1 - a) /\ Characters(a, c) = h[c + 1 - a]
  BY CharactersAre
<1>3. ASSUME NEW i \in 1..(c + 1 - a)
      PROVE  CharacterAt(a + i - 1, a, b) = CharacterAt(a + i - 1, a, c)
  <2>1. a + i - 1 \in a..c
    BY <1>1
  <2>. QED
    BY <1>1, <2>1, CharacterSame
<1> DEFINE k == c + 1 - a
           n == b + 1 - a
<1>4. /\ k \in Nat /\ n \in Nat /\ k <= n
      /\ Values(g, a, b, n) /\ Values(h, a, c, k)
      /\ \A i \in 1..k : CharacterAt(a + i - 1, a, b) = CharacterAt(a + i - 1, a, c)
  BY <1>1, <1>2, <1>3
<1> HIDE DEF k, n
<1>5. g[k] = h[k]
  BY <1>4, SameValues
<1>. QED
  BY <1>2, <1>5 DEF k

\* One byte more is one character more, unless it ends a pair.
LEMMA OneMore ==
  ASSUME FileOK, Size \in Nat, NEW b \in 1..Size, NEW a \in 1..b,
         a < b /\ file[b - 1] = "Lead" => file[b] # "Cont"
  PROVE  Characters(a, b) =
           Append(Characters(a, b - 1), IF file[b] \in {"Lead", "Cont"} THEN -b ELSE b)
<1>1. Run(a, b) /\ Run(a, b - 1) /\ b - 1 <= b /\ (b - 1) + 1 = b
  BY DEF Run
<1>2. PICK g : Values(g, a, b, b + 1 - a) /\ Characters(a, b) = g[b + 1 - a]
  BY <1>1, CharactersAre
<1>3. g[(b - 1) + 1 - a] = Characters(a, b - 1)
  <2>1. CASE a = b
    <3>1. (b - 1) + 1 - a = 0
      BY <2>1
    <3>2. Characters(a, b - 1) = <<>>
      BY <2>1, NoCharacters
    <3>. QED
      BY <1>2, <3>1, <3>2 DEF Values
  <2>2. CASE a < b
    <3>1. Unsplit(b - 1, b)
      BY <1>1, <2>2 DEF Unsplit
    <3>. QED
      BY <1>1, <1>2, <3>1, CharactersUpTo
  <2>. QED
    BY <2>1, <2>2
<1>4. /\ b + 1 - a \in 1..(b + 1 - a) /\ (b + 1 - a) - 1 = (b - 1) + 1 - a
      /\ a + (b + 1 - a) - 1 = b
  OBVIOUS
<1>5. g[b + 1 - a] = Joined(g[(b - 1) + 1 - a], CharacterAt(b, a, b))
  BY <1>2, <1>4 DEF Values
<1>6. CharacterAt(b, a, b) = IF file[b] \in {"Lead", "Cont"} THEN -b ELSE b
  <2>1. b \in a..b /\ a \in Nat /\ b \in Nat /\ 1 <= a /\ b <= Size /\ (b > a <=> a < b)
    OBVIOUS
  <2>. QED
    BY <2>1, CharacterIs
<1>7. CharacterAt(b, a, b) # 0
  BY <1>6
<1>. QED
  BY <1>2, <1>3, <1>5, <1>6, <1>7 DEF Joined

LEMMA OnePair ==
  ASSUME FileOK, Size \in Nat, NEW b \in 1..Size, NEW a \in 1..(b - 1),
         file[b - 1] = "Lead", file[b] = "Cont"
  PROVE  Characters(a, b) = Append(Characters(a, b - 2), b - 1)
<1>1. Run(a, b) /\ Run(a, b - 2) /\ b - 2 <= b
  BY DEF Run
<1>2. PICK g : Values(g, a, b, b + 1 - a) /\ Characters(a, b) = g[b + 1 - a]
  BY <1>1, CharactersAre
<1>3. g[(b - 2) + 1 - a] = Characters(a, b - 2)
  <2>1. (b - 2) + 1 = b - 1
    OBVIOUS
  <2>2. Unsplit(b - 2, b)
    BY <2>1 DEF Unsplit
  <2>. QED
    BY <1>1, <1>2, <2>2, CharactersUpTo
<1> DEFINE n == b + 1 - a
<1>4. /\ n \in 1..n /\ n - 1 \in 1..n /\ (n - 1) - 1 = (b - 2) + 1 - a
      /\ a + n - 1 = b /\ a + (n - 1) - 1 = b - 1
  OBVIOUS
<1>5. Values(g, a, b, n) /\ Characters(a, b) = g[n]
  BY <1>2
<1> HIDE DEF n
<1>6. /\ g[n] = Joined(g[n - 1], CharacterAt(b, a, b))
      /\ g[n - 1] = Joined(g[(b - 2) + 1 - a], CharacterAt(b - 1, a, b))
  BY <1>4, <1>5 DEF Values
<1>7. CharacterAt(b, a, b) = 0 /\ CharacterAt(b - 1, a, b) = b - 1
  <2>1. /\ b \in a..b /\ b - 1 \in a..b /\ a \in Nat /\ b \in Nat /\ 1 <= a /\ b <= Size
        /\ b > a /\ b - 1 < b /\ (b - 1) + 1 = b
    OBVIOUS
  <2>. QED
    BY <2>1, CharacterIs
<1>8. b - 1 # 0
  OBVIOUS
<1>. QED
  BY <1>3, <1>5, <1>6, <1>7, <1>8 DEF Joined
-----------------------------------------------------------------------------
(* What the reader has of the text it is at.                               *)

Breaks == {"CR", "LF"}

\* The text of the bytes from a up to q, of which the decoder may hold the
\* last, and which are not in K.
ReadingAt(K, a, q, t, l) ==
  /\ a \in 1..q
  /\ l = 0 =>
       /\ t = Characters(a, q - 1)
       /\ a < q /\ q <= Size /\ file[q - 1] = "Lead" => file[q] # "Cont"
  /\ l # 0 =>
       /\ l = q - 1 /\ a < q /\ file[q - 1] = "Lead"
       /\ t = Characters(a, q - 2)
  /\ \A p \in a..(q - 1) : file[p] \notin K

\* A token begins with a byte that is not white space.
TokenAt(a, q, t, l) ==
  /\ ReadingAt(White, a, q, t, l)
  /\ a <= Size
  /\ file[a] \notin White
  /\ l = 0 /\ a < q => t # <<>>

\* Behind a CR the line is what lies before it.
BehindCR(a, q, t) ==
  /\ a \in 1..(q - 1)
  /\ file[q - 1] = "CR"
  /\ \A p \in a..(q - 2) : file[p] \notin Breaks
  /\ t = Characters(a, q - 2)

\* LineIsWhole and TokenIsWhole of a text t from a on, with the reader at q.
WholeLine(a, q, t) ==
  LET e == FirstOf(a, {"CR", "LF"})
  IN /\ t = Characters(a, e - 1)
     /\ \/ q = IF e <= Size THEN e + 1 ELSE e
        \/ /\ e < Size
           /\ file[e] = "CR"
           /\ file[e + 1] = "LF"
           /\ q = e + 2

WholeToken(a, q, t) ==
  /\ t = Characters(a, FirstOf(a, White) - 1)
  /\ t # <<>>
  /\ q = FirstOf(a, White)

\* What holds in the task k from a to q, with the text t and l held back, the
\* result r and the adapter closed or not.
WholeAt(k, a, q, t, l, r, shut) ==
  /\ k # "None" => r = "None"
  /\ k \in {"None", "Skip", "AfterCR", "Restore"} => l = 0
  /\ k = "Skip" => t = <<>>
  /\ shut => l = 0 /\ k \notin {"Token", "AfterCR"} /\ (k = "Line" => t = <<>>)
  /\ ~shut /\ k = "Line" => ReadingAt(Breaks, a, q, t, l)
  /\ ~shut /\ k = "Token" => TokenAt(a, q, t, l)
  /\ ~shut /\ k = "AfterCR" => BehindCR(a, q, t)
  /\ r = "Line" => WholeLine(a, q, t)
  /\ r = "Token" => WholeToken(a, q, t)

WholeInv == WholeAt(task, start, NextByte, text, lead, result, closed)

LEMMA WholeIsWhole == WholeInv => RequestsReturnWhole
BY DEF WholeInv, WholeAt, WholeLine, WholeToken, RequestsReturnWhole,
       LineIsWhole, TokenIsWhole

\* The file does not change.
LEMMA WholeThen ==
  ASSUME UNCHANGED file,
         WholeAt(task', start', NextByte', text', lead', result', closed')
  PROVE  WholeInv'
  BY DEF WholeInv, WholeAt, ReadingAt, TokenAt, BehindCR, WholeLine, WholeToken,
         FirstOf, Characters, CharacterAt

\* The first byte of a kind.
LEMMA FirstIs ==
  ASSUME Size \in Nat, NEW K, NEW a \in Nat, NEW e \in a..(Size + 1),
         e <= Size => file[e] \in K, \A p \in a..(e - 1) : file[p] \notin K
  PROVE  FirstOf(a, K) = e
<1> DEFINE IsFirst(f) == /\ f <= Size => file[f] \in K
                         /\ \A p \in a..(f - 1) : file[p] \notin K
<1>1. IsFirst(e)
  OBVIOUS
<1>2. ASSUME NEW f \in a..(Size + 1), IsFirst(f) PROVE f = e
  <2>1. CASE f < e
    <3>1. f \in a..(e - 1) /\ f <= Size
      BY <2>1
    <3>. QED
      BY <1>2, <3>1
  <2>2. CASE e < f
    <3>1. e \in a..(f - 1) /\ e <= Size
      BY <2>2
    <3>. QED
      BY <1>1, <1>2, <3>1
  <2>. QED
    BY <2>1, <2>2
<1>3. FirstOf(a, K) = CHOOSE f \in a..(Size + 1) : IsFirst(f)
  BY DEF FirstOf
<1>. HIDE DEF IsFirst
<1>. QED
  BY <1>1, <1>2, <1>3
-----------------------------------------------------------------------------
\* The ways on.
LEMMA FailsWhole ==
  ASSUME result = "None", Fails
  PROVE  WholeAt(task', start', NextByte', text', lead', result', closed')
BY DEF Fails, WholeAt

LEMMA GivesWhole ==
  ASSUME result = "None", task \notin {"Skip", "Restore", "None"}, NEW t, Gives(t),
         task \in {"Line", "AfterCR"} => WholeLine(start, NextByte', t),
         task = "Token" => WholeToken(start, NextByte', t)
  PROVE  WholeAt(task', start', NextByte', text', lead', result', closed')
<1>1. CASE /\ task' = "None" /\ text' = t /\ start' = start /\ lead' = 0
           /\ result' = IF task = "AfterCR" THEN "Line" ELSE task
  BY <1>1 DEF WholeAt
<1>2. CASE task' = "Skip" /\ text' = <<>> /\ result' = result /\ lead' = 0
  BY <1>2 DEF WholeAt
<1>3. CASE Fails
  BY <1>3, FailsWhole
<1>. QED
  BY <1>1, <1>2, <1>3 DEF Gives

\* One more character of the line or the token.
LEMMA AddsWhole ==
  ASSUME result = "None", NEW c, Adds(c), task \in {"Line", "Token", "CodePoint"},
         task # "CodePoint" => text \in Seq(Int), c \in Int,
         closed' = FALSE,
         task = "Line" => ReadingAt(Breaks, start, NextByte', Append(text, c), 0),
         task = "Token" => /\ ReadingAt(White, start, NextByte', Append(text, c), 0)
                           /\ start <= Size /\ file[start] \notin White
  PROVE  WholeAt(task', start', NextByte', text', lead', result', closed')
<1>1. CASE Fails
  BY <1>1, FailsWhole
<1>2. CASE task = "CodePoint" /\ Gives(<<c>>)
  BY <1>2, GivesWhole
<1>3. CASE /\ task # "CodePoint" /\ lead' = 0 /\ text' = Append(text, c)
           /\ UNCHANGED <<task, result, start>>
  <2>1. Append(text, c) # <<>>
    BY AppendProperties
  <2>. QED
    BY <1>3, <2>1 DEF WholeAt, TokenAt
<1>. QED
  BY <1>1, <1>2, <1>3 DEF Adds
-----------------------------------------------------------------------------
(* A byte more of the text.                                                *)

Apart(K) == "Lead" \notin K /\ "Cont" \notin K

LEMMA ReadingIsText ==
  ASSUME FileOK, Size \in Nat, NEW K, NEW a, NEW q \in 1..(Size + 1), NEW t, NEW l,
         ReadingAt(K, a, q, t, l)
  PROVE  t \in Seq(Int)
<1>1. CASE l = 0
  <2>1. t = Characters(a, q - 1) /\ Run(a, q - 1)
    BY <1>1 DEF ReadingAt, Run
  <2>. QED
    BY <2>1, CharactersAre
<1>2. CASE l # 0
  <2>1. t = Characters(a, q - 2) /\ Run(a, q - 2)
    BY <1>2 DEF ReadingAt, Run
  <2>. QED
    BY <2>1, CharactersAre
<1>. QED
  BY <1>1, <1>2

LEMMA ReadsOne ==
  ASSUME FileOK, Size \in Nat, NEW K, NEW a, NEW q \in 1..Size, NEW t,
         ReadingAt(K, a, q, t, 0), file[q] \notin K, file[q] # "Lead"
  PROVE  ReadingAt(K, a, q + 1, Append(t, IF file[q] = "Cont" THEN -q ELSE q), 0)
<1>1. /\ a \in 1..q /\ t = Characters(a, q - 1)
      /\ a < q /\ file[q - 1] = "Lead" => file[q] # "Cont"
      /\ \A p \in a..(q - 1) : file[p] \notin K
  BY DEF ReadingAt
<1>2. Characters(a, q) = Append(t, IF file[q] = "Cont" THEN -q ELSE q)
  BY <1>1, OneMore
<1>3. /\ (q + 1) - 1 = q /\ a \in 1..(q + 1)
      /\ \A p \in a..q : file[p] \notin K
  BY <1>1
<1>. QED
  BY <1>2, <1>3 DEF ReadingAt

LEMMA HoldsLead ==
  ASSUME FileOK, Size \in Nat, NEW K, NEW a, NEW q \in 1..Size, NEW t,
         ReadingAt(K, a, q, t, 0), Apart(K), file[q] = "Lead"
  PROVE  ReadingAt(K, a, q + 1, t, q)
<1>1. /\ a \in 1..q /\ t = Characters(a, q - 1)
      /\ \A p \in a..(q - 1) : file[p] \notin K
  BY DEF ReadingAt
<1>2. /\ (q + 1) - 1 = q /\ (q + 1) - 2 = q - 1 /\ a \in 1..(q + 1) /\ a < q + 1 /\ q # 0
      /\ \A p \in a..q : file[p] \notin K
  BY <1>1 DEF Apart
<1>. QED
  BY <1>1, <1>2 DEF ReadingAt

LEMMA EndsPair ==
  ASSUME FileOK, Size \in Nat, NEW K, NEW a, NEW q \in 1..Size, NEW t, NEW l,
         ReadingAt(K, a, q, t, l), l # 0, Apart(K), file[q] = "Cont"
  PROVE  ReadingAt(K, a, q + 1, Append(t, l), 0)
<1>1. /\ a \in 1..q /\ t = Characters(a, q - 2) /\ l = q - 1 /\ a < q
      /\ file[q - 1] = "Lead"
      /\ \A p \in a..(q - 1) : file[p] \notin K
  BY DEF ReadingAt
<1>2. a \in 1..(q - 1)
  BY <1>1
<1>3. Characters(a, q) = Append(t, l)
  BY <1>1, <1>2, OnePair
<1>4. /\ (q + 1) - 1 = q /\ a \in 1..(q + 1)
      /\ \A p \in a..q : file[p] \notin K
  BY <1>1 DEF Apart
<1>. QED
  BY <1>3, <1>4 DEF ReadingAt

LEMMA GivesUpLead ==
  ASSUME FileOK, Size \in Nat, NEW K, NEW a, NEW q \in 1..(Size + 1), NEW t, NEW l,
         ReadingAt(K, a, q, t, l), l # 0, q <= Size => file[q] # "Cont"
  PROVE  ReadingAt(K, a, q, Append(t, -l), 0)
<1>1. /\ a \in 1..q /\ t = Characters(a, q - 2) /\ l = q - 1 /\ a < q
      /\ file[q - 1] = "Lead"
  BY DEF ReadingAt
<1>2. q - 1 \in 1..Size /\ a \in 1..(q - 1) /\ (q - 1) - 1 = q - 2
  BY <1>1
<1>3. Characters(a, q - 1) = Append(Characters(a, (q - 1) - 1), -(q - 1))
  BY <1>1, <1>2, OneMore
<1>. QED
  BY <1>1, <1>2, <1>3 DEF ReadingAt

LEMMA ReadsNothing ==
  ASSUME FileOK, Size \in Nat, NEW K, NEW q \in 1..(Size + 1)
  PROVE  ReadingAt(K, q, q, <<>>, 0)
BY NoCharacters DEF ReadingAt

LEMMA KindsApart == Apart(White) /\ Apart(Breaks) /\ Breaks = {"CR", "LF"}
BY DEF Apart, White, Breaks

\* A whole text: a token before white space, a line up to its end.
LEMMA TokenEnds ==
  ASSUME FileOK, Size \in Nat, NEW a, NEW q \in 1..(Size + 1), NEW t,
         TokenAt(a, q, t, 0), t # <<>> \/ a < q, q <= Size => file[q] \in White
  PROVE  WholeToken(a, q, t)
<1>1. /\ a \in 1..q /\ t = Characters(a, q - 1)
      /\ \A p \in a..(q - 1) : file[p] \notin White
      /\ a < q => t # <<>>
  BY DEF TokenAt, ReadingAt
<1>2. FirstOf(a, White) = q
  BY <1>1, FirstIs
<1>. QED
  BY <1>1, <1>2 DEF WholeToken

LEMMA LineEnds ==
  ASSUME FileOK, Size \in Nat, NEW a, NEW e \in 1..(Size + 1), NEW t,
         a \in 1..e, t = Characters(a, e - 1), e <= Size => file[e] \in Breaks,
         \A p \in a..(e - 1) : file[p] \notin Breaks
  PROVE  /\ WholeLine(a, IF e <= Size THEN e + 1 ELSE e, t)
         /\ e < Size /\ file[e] = "CR" /\ file[e + 1] = "LF" => WholeLine(a, e + 2, t)
<1>1. FirstOf(a, {"CR", "LF"}) = e
  BY FirstIs DEF Breaks
<1>. QED
  BY <1>1 DEF WholeLine

LEMMA BehindCREnds ==
  ASSUME FileOK, Size \in Nat, NEW a, NEW q \in 1..(Size + 1), NEW t, BehindCR(a, q, t)
  PROVE  /\ WholeLine(a, q, t)
         /\ q <= Size /\ file[q] = "LF" => WholeLine(a, q + 1, t)
<1>1. /\ a \in 1..(q - 1) /\ file[q - 1] = "CR" /\ t = Characters(a, q - 2)
      /\ \A p \in a..(q - 2) : file[p] \notin Breaks
  BY DEF BehindCR
<1> DEFINE e == q - 1
<1>2. /\ e \in 1..(Size + 1) /\ a \in 1..e /\ e - 1 = q - 2 /\ e <= Size
      /\ e + 1 = q /\ e + 2 = q + 1 /\ (e < Size <=> q <= Size)
  BY <1>1
<1> HIDE DEF e
<1>3. /\ t = Characters(a, e - 1) /\ file[e] \in Breaks /\ file[e] = "CR"
      /\ \A p \in a..(e - 1) : file[p] \notin Breaks
  BY <1>1, <1>2 DEF e, Breaks
<1>4. /\ WholeLine(a, e + 1, t)
      /\ e < Size /\ file[e] = "CR" /\ file[e + 1] = "LF" => WholeLine(a, e + 2, t)
  BY <1>2, <1>3, LineEnds
<1>. QED
  BY <1>2, <1>3, <1>4
-----------------------------------------------------------------------------
(* Where the reader stands.                                                *)

LEMMA NextByteIs ==
  ASSUME SourceInv, ~closed
  PROVE  /\ NextByte = Place + 1 /\ NextByte \in 1..(Size + 1) /\ Size \in Nat
         /\ Available(0) => Ahead(0) = NextByte /\ NextByte <= Size
         /\ ~Available(0) /\ end => NextByte = Size + 1
<1>1. /\ Len(buffer) \in Nat /\ Place \in 0..Size /\ Size \in Nat
      /\ Place = sourcePosition - (Len(buffer) - position)
      /\ position \in 0..Len(buffer) /\ sourcePosition \in 0..Size
  BY Standing, BufferedSourceAssumption DEF SourceInv, SourceTypeOK
<1>2. CASE Available(0)
  <2>1. position + 0 + 1 \in 1..Len(buffer)
    BY <1>1, <1>2 DEF Available
  <2>2. buffer[position + 0 + 1] = sourcePosition - Len(buffer) + (position + 0 + 1)
    BY <2>1 DEF SourceInv, Aligned
  <2>3. Ahead(0) = Place + 1
    BY <1>1, <2>2 DEF Ahead
  <2>4. Place + 1 <= Size
    BY <1>1, <2>1
  <2>. QED
    BY <1>1, <1>2, <2>3, <2>4 DEF NextByte
<1>3. CASE ~Available(0)
  <2>1. Place = sourcePosition
    BY <1>1, <1>3 DEF Available
  <2>2. end => sourcePosition = Size
    BY DEF SourceInv, Aligned
  <2>. QED
    BY <1>1, <1>3, <2>1, <2>2 DEF NextByte
<1>. QED
  BY <1>2, <1>3

\* The byte behind the first p of b, which are those before s.
LEMMA NextOf ==
  ASSUME NEW S, NEW b \in Seq(S), NEW n \in Nat, n = Len(b), NEW p \in 0..n,
         NEW s \in Nat, NEW r \in Nat, r + (n - p) = s,
         \A k \in 1..n : b[k] = s - n + k
  PROVE  (IF p < n THEN b[p + 1] ELSE s + 1) = r + 1
<1>1. CASE p < n
  <2>1. p + 1 \in 1..n
    BY <1>1
  <2>2. b[p + 1] = s - n + (p + 1)
    BY <2>1
  <2>. QED
    BY <1>1, <2>2
<1>2. CASE ~(p < n)
  BY <1>2
<1>. QED
  BY <1>1, <1>2

LEMMA NextByteThen ==
  ASSUME SourceInv', closed' = FALSE
  PROVE  NextByte' = Place' + 1
<1>1. /\ buffer' \in Seq(1..Size) /\ position' \in 0..Len(buffer')
      /\ sourcePosition' \in 0..Size /\ Size \in Nat
      /\ Place' + (Len(buffer') - position') = sourcePosition'
      /\ \A k \in 1..Len(buffer') : buffer'[k] = sourcePosition' - Len(buffer') + k
      /\ base' \in Nat /\ logicalPosition' \in Nat
  BY BufferedSourceAssumption DEF SourceInv, SourceTypeOK, Aligned
<1>2. PICK b, n, p, s, r : /\ b = buffer' /\ n = Len(b) /\ p = position'
                           /\ s = sourcePosition' /\ r = Place'
  OBVIOUS
<1>3. r \in Nat
  <2>1. \A x, y \in Nat : x + y \in Nat
    OBVIOUS
  <2>2. r = base' + logicalPosition'
    BY <1>2 DEF Place
  <2>. QED
    BY <1>1, <2>1, <2>2
<1>4. /\ b \in Seq(1..Size) /\ n = Len(b) /\ p \in 0..n /\ s \in Nat
      /\ r + (n - p) = s /\ \A k \in 1..n : b[k] = s - n + k
  BY <1>1, <1>2
<1>5. n \in Nat
  BY <1>4, LenProperties
<1>6. (IF p < n THEN b[p + 1] ELSE s + 1) = r + 1
  BY <1>3, <1>4, <1>5, NextOf
<1>7. NextByte' = IF p < n THEN b[p + 1] ELSE s + 1
  <2>1. p + 0 = p
    BY <1>4
  <2>2. NextByte' = IF p + 0 < n THEN b[p + 0 + 1] ELSE s + 1
    BY <1>2 DEF NextByte, Available, Ahead
  <2>. QED
    BY <2>1, <2>2
<1>. QED
  BY <1>2, <1>6, <1>7

\* Only what is taken moves the reader.
LEMMA NextByteMoves ==
  ASSUME SourceInv, SourceInv', ~closed, closed' = closed
  PROVE  /\ Take => NextByte' = NextByte + 1
         /\ Stay \/ Fetch(0) \/ Compacted => NextByte' = NextByte
<1>1. NextByte = Place + 1 /\ NextByte' = Place' + 1 /\ Place \in Nat
  <2>1. closed' = FALSE
    BY DEF SourceInv, SourceTypeOK
  <2>2. NextByte = Place + 1
    BY NextByteIs
  <2>3. NextByte' = Place' + 1
    BY <2>1, NextByteThen
  <2>4. Place \in Nat
    BY Standing, BufferedSourceAssumption
  <2>. QED
    BY <2>2, <2>3, <2>4
<1>2. Take => Place' = Place + 1
  <2>1. base \in Nat /\ logicalPosition \in Nat
    BY BufferedSourceAssumption DEF SourceInv, SourceTypeOK
  <2>. QED
    BY <2>1 DEF Take, Place
<1>3. Stay => Place' = Place
  BY DEF Stay, Place
<1>4. Fetch(0) => Place' = Place
  BY FetchInv
<1>5. Compacted => Place' = Place
  BY CompactedInv
<1>. QED
  BY <1>1, <1>2, <1>3, <1>4, <1>5
-----------------------------------------------------------------------------
(* The steps of a call.                                                    *)

ReadingInv == ReaderInv /\ task \in Tasks /\ file \in Files /\ WholeInv

\* A closed adapter ends the call.
LEMMA ClosedStep ==
  ASSUME ReadingInv, Step, closed
  PROVE  WholeAt(task', start', NextByte', text', lead', result', closed')
<1>1. buffer = <<>> /\ position = 0 /\ end = TRUE
  BY DEF ReadingInv, ReaderInv, SourceInv, Emptied
<1>2. ~Available(0)
  BY <1>1 DEF Available
<1>3. AtEnd
  BY <1>1, <1>2 DEF Step, Fetch, PeekFails
<1>4. lead = 0 /\ task \notin {"Token", "AfterCR"} /\ (task = "Line" => text = <<>>)
      /\ result = "None"
  BY DEF ReadingInv, WholeInv, WholeAt, Step
<1>5. Fails
  BY <1>3, <1>4 DEF AtEnd
<1>. QED
  BY <1>4, <1>5, FailsWhole

\* What is known in a step with the reader before the byte q.
Knows(q) ==
  /\ FileOK /\ Size \in Nat
  /\ closed = FALSE /\ closed' = FALSE
  /\ task \in Tasks /\ result = "None"
  /\ q \in 1..(Size + 1)
  /\ task \in {"None", "Skip", "AfterCR", "Restore"} => lead = 0
  /\ task = "Skip" => text = <<>>
  /\ task = "Line" => ReadingAt(Breaks, start, q, text, lead)
  /\ task = "Token" => TokenAt(start, q, text, lead)
  /\ task = "AfterCR" => BehindCR(start, q, text)

LEMMA StepKnows ==
  ASSUME ReadingInv, Step, ~closed
  PROVE  Knows(NextByte)
<1>1. FileOK /\ Size \in Nat /\ task \in Tasks /\ NextByte \in 1..(Size + 1)
  BY FileFacts, NextByteIs DEF ReadingInv, ReaderInv
<1>2. closed = FALSE /\ closed' = FALSE /\ task # "None"
  BY DEF Step, ReadingInv, ReaderInv, SourceInv, SourceTypeOK
<1>. QED
  BY <1>1, <1>2 DEF Knows, ReadingInv, WholeInv, WholeAt

\* One character more, up to the byte that is next then.
LEMMA AddsReads ==
  ASSUME NEW q, Knows(q), NEW c \in Int, Adds(c), task \in {"Line", "Token", "CodePoint"},
         task = "Line" => ReadingAt(Breaks, start, NextByte', Append(text, c), 0),
         task = "Token" => ReadingAt(White, start, NextByte', Append(text, c), 0)
  PROVE  WholeAt(task', start', NextByte', text', lead', result', closed')
<1>1. task # "CodePoint" => text \in Seq(Int)
  BY ReadingIsText DEF Knows, TokenAt
<1>. QED
  BY <1>1, AddsWhole DEF Knows, TokenAt

\* The text of a Line or a Token.
LEMMA KnowsReading ==
  ASSUME NEW q, Knows(q)
  PROVE  /\ task = "Line" => ReadingAt(Breaks, start, q, text, lead)
         /\ task = "Token" => ReadingAt(White, start, q, text, lead)
BY DEF Knows, TokenAt

LEMMA DecodeWhole ==
  ASSUME NEW q, Knows(q), q <= Size, Decode(q), task \in {"Line", "Token", "CodePoint"},
         Take => NextByte' = q + 1, Stay => NextByte' = q,
         task = "Line" /\ lead = 0 => file[q] \notin Breaks,
         task = "Token" /\ lead = 0 => file[q] \notin White
  PROVE  WholeAt(task', start', NextByte', text', lead', result', closed')
<1>1. FileOK /\ Size \in Nat /\ q \in 1..Size /\ q \in 1..(Size + 1) /\ -q \in Int /\ q \in Int
  BY DEF Knows
<1>2. CASE lead = 0 /\ file[q] \notin {"Lead", "Cont"} /\ Take /\ Adds(q)
  <2>1. /\ task = "Line" => ReadingAt(Breaks, start, q + 1, Append(text, q), 0)
        /\ task = "Token" => ReadingAt(White, start, q + 1, Append(text, q), 0)
    BY <1>1, <1>2, KnowsReading, ReadsOne
  <2>. QED
    BY <1>1, <1>2, <2>1, AddsReads
<1>3. CASE /\ lead = 0 /\ file[q] = "Lead" /\ Take /\ lead' = q
           /\ UNCHANGED <<task, text, result, start>>
  <2>1. /\ task = "Line" => ReadingAt(Breaks, start, q + 1, text, q)
        /\ task = "Token" => ReadingAt(White, start, q + 1, text, q)
    BY <1>1, <1>3, KnowsReading, KindsApart, HoldsLead
  <2>2. q # 0 /\ NextByte' = q + 1
    BY <1>1, <1>3
  <2>. QED
    BY <1>3, <2>1, <2>2 DEF Knows, WholeAt, TokenAt
<1>4. CASE lead = 0 /\ file[q] = "Cont" /\ Take /\ Adds(-q)
  <2>1. /\ task = "Line" => ReadingAt(Breaks, start, q + 1, Append(text, -q), 0)
        /\ task = "Token" => ReadingAt(White, start, q + 1, Append(text, -q), 0)
    BY <1>1, <1>4, KnowsReading, KindsApart, ReadsOne DEF Apart
  <2>. QED
    BY <1>1, <1>4, <2>1, AddsReads
<1>5. CASE lead # 0 /\ file[q] = "Cont" /\ Take /\ Adds(lead)
  <2>1. /\ task = "Line" => ReadingAt(Breaks, start, q + 1, Append(text, lead), 0)
        /\ task = "Token" => ReadingAt(White, start, q + 1, Append(text, lead), 0)
    BY <1>1, <1>5, KnowsReading, KindsApart, EndsPair
  <2>2. task \in {"Line", "Token"} => lead \in Int
    BY <1>1, <1>5, KnowsReading DEF ReadingAt
  <2>3. CASE task \in {"Line", "Token"}
    BY <1>1, <1>5, <2>1, <2>2, <2>3, AddsReads
  <2>4. CASE task = "CodePoint"
    BY <1>5, <2>4, GivesWhole DEF Knows, Adds
  <2>. QED
    BY <2>3, <2>4
<1>6. CASE Interrupted(q)
  <2>1. lead # 0 /\ file[q] # "Cont" /\ Stay /\ Adds(-lead)
    BY <1>6 DEF Interrupted
  <2>2. /\ task = "Line" => ReadingAt(Breaks, start, q, Append(text, -lead), 0)
        /\ task = "Token" => ReadingAt(White, start, q, Append(text, -lead), 0)
    BY <1>1, <2>1, KnowsReading, GivesUpLead
  <2>3. task \in {"Line", "Token"} => -lead \in Int
    BY <1>1, <2>1, KnowsReading DEF ReadingAt
  <2>4. CASE task \in {"Line", "Token"}
    BY <1>1, <2>1, <2>2, <2>3, <2>4, AddsReads
  <2>5. CASE task = "CodePoint"
    BY <2>1, <2>5, GivesWhole DEF Knows, Adds
  <2>. QED
    BY <2>4, <2>5
<1>7. CASE Fails
  BY <1>7, FailsWhole DEF Knows
<1>. QED
  BY <1>2, <1>3, <1>4, <1>5, <1>6, <1>7 DEF Decode

\* What a step does with the byte it looks at.
LEMMA ByteWhole ==
  ASSUME NEW q, Knows(q), q <= Size,
         SkipSpace(q) \/ EndToken(q) \/ EndLine(q) \/ AfterCR(q) \/ ReadCharacter(q),
         Take => NextByte' = q + 1, Stay => NextByte' = q
  PROVE  WholeAt(task', start', NextByte', text', lead', result', closed')
<1>1. /\ FileOK /\ Size \in Nat /\ q \in 1..Size /\ q \in 1..(Size + 1)
      /\ result = "None" /\ closed' = FALSE
  BY DEF Knows
<1>2. CASE SkipSpace(q)
  <2>1. task = "Skip" /\ lead = 0 /\ text = <<>>
    BY <1>2 DEF SkipSpace, Knows
  <2>2. lead' = 0 /\ text' = <<>> /\ result' = "None"
    BY <1>1, <1>2, <2>1 DEF SkipSpace
  <2>3. CASE file[q] \in White
    BY <1>2, <2>1, <2>2, <2>3 DEF SkipSpace, WholeAt
  <2>4. CASE file[q] \notin White
    <3>1. task' = "Token" /\ start' = q /\ NextByte' = q
      BY <1>2, <2>4 DEF SkipSpace
    <3>2. TokenAt(q, q, <<>>, 0)
      BY <1>1, <2>4, ReadsNothing DEF TokenAt
    <3>. QED
      BY <1>1, <2>2, <3>1, <3>2 DEF WholeAt
  <2>. QED
    BY <2>3, <2>4
<1>3. CASE EndToken(q)
  <2>1. /\ task = "Token" /\ lead = 0 /\ file[q] \in White /\ Gives(text) /\ NextByte' = q
    BY <1>3 DEF EndToken
  <2>2. TokenAt(start, q, text, 0)
    BY <2>1 DEF Knows
  <2>3. start < q
    BY <1>1, <2>1, <2>2 DEF TokenAt, ReadingAt
  <2>4. WholeToken(start, q, text)
    BY <1>1, <2>1, <2>2, <2>3, TokenEnds
  <2>. QED
    BY <1>1, <2>1, <2>4, GivesWhole
<1>4. CASE EndLine(q)
  <2>1. /\ task = "Line" /\ lead = 0 /\ file[q] \in Breaks /\ NextByte' = q + 1
    BY <1>4 DEF EndLine, Breaks
  <2>2. /\ start \in 1..q /\ text = Characters(start, q - 1)
        /\ \A p \in start..(q - 1) : file[p] \notin Breaks
    BY <2>1, KnowsReading DEF ReadingAt
  <2>3. CASE Fails
    BY <1>1, <2>3, FailsWhole
  <2>4. CASE Gives(text)
    <3>1. WholeLine(start, q + 1, text)
      BY <1>1, <2>1, <2>2, LineEnds
    <3>. QED
      BY <1>1, <2>1, <2>4, <3>1, GivesWhole
  <2>5. CASE file[q] = "CR" /\ task' = "AfterCR" /\ UNCHANGED <<lead, text, result, start>>
    <3>1. (q + 1) - 1 = q /\ (q + 1) - 2 = q - 1
      BY <1>1
    <3>2. BehindCR(start, q + 1, text)
      BY <2>2, <2>5, <3>1 DEF BehindCR
    <3>. QED
      BY <1>1, <2>1, <2>5, <3>2 DEF WholeAt
  <2>. QED
    BY <1>4, <2>3, <2>4, <2>5 DEF EndLine
<1>5. CASE AfterCR(q)
  <2>1. task = "AfterCR" /\ BehindCR(start, q, text)
    BY <1>5 DEF AfterCR, Knows
  <2>2. CASE Fails
    BY <1>1, <2>2, FailsWhole
  <2>3. CASE file[q] = "LF" /\ Take /\ Gives(text)
    <3>1. NextByte' = q + 1 /\ WholeLine(start, q + 1, text)
      BY <1>1, <2>1, <2>3, BehindCREnds
    <3>. QED
      BY <1>1, <2>1, <2>3, <3>1, GivesWhole
  <2>4. CASE Stay /\ Gives(text)
    <3>1. NextByte' = q /\ WholeLine(start, q, text)
      BY <1>1, <2>1, <2>4, BehindCREnds
    <3>. QED
      BY <1>1, <2>1, <2>4, <3>1, GivesWhole
  <2>. QED
    BY <1>5, <2>2, <2>3, <2>4 DEF AfterCR
<1>6. CASE ReadCharacter(q)
  <2>1. task \in {"Line", "Token", "CodePoint"}
    BY <1>6 DEF ReadCharacter, Knows, Tasks
  <2>2. /\ task = "Line" /\ lead = 0 => file[q] \notin Breaks
        /\ task = "Token" /\ lead = 0 => file[q] \notin White
    BY <1>6 DEF ReadCharacter, Breaks
  <2>3. CASE Fails
    BY <1>1, <2>3, FailsWhole
  <2>4. CASE Decode(q)
    BY <2>1, <2>2, <2>4, DecodeWhole
  <2>. QED
    BY <1>6, <2>3, <2>4 DEF ReadCharacter
<1>. QED
  BY <1>2, <1>3, <1>4, <1>5, <1>6

\* What it does at the end.
LEMMA EndWhole ==
  ASSUME NEW q, Knows(q), q = Size + 1, AtEnd, NextByte' = q, task \notin {"None", "Restore"}
  PROVE  WholeAt(task', start', NextByte', text', lead', result', closed')
<1>1. /\ FileOK /\ Size \in Nat /\ q \in 1..(Size + 1) /\ ~(q <= Size)
      /\ result = "None" /\ closed' = FALSE
  BY DEF Knows
<1>2. CASE Fails
  BY <1>1, <1>2, FailsWhole
<1>3. CASE lead # 0 /\ Adds(-lead)
  <2>1. /\ task = "Line" => ReadingAt(Breaks, start, q, Append(text, -lead), 0)
        /\ task = "Token" => ReadingAt(White, start, q, Append(text, -lead), 0)
    BY <1>1, <1>3, KnowsReading, GivesUpLead
  <2>2. task \in {"Line", "Token"} => -lead \in Int
    BY <1>1, <1>3, KnowsReading DEF ReadingAt
  <2>3. task \in {"Line", "Token", "CodePoint"}
    BY <1>3 DEF Knows, Tasks
  <2>4. CASE task \in {"Line", "Token"}
    BY <1>3, <2>1, <2>2, <2>4, AddsReads
  <2>5. CASE task = "CodePoint"
    BY <1>1, <1>3, <2>5, GivesWhole DEF Adds
  <2>. QED
    BY <2>3, <2>4, <2>5
<1>4. CASE lead = 0 /\ task = "AfterCR" /\ Gives(text)
  <2>1. WholeLine(start, q, text)
    BY <1>1, <1>4, BehindCREnds DEF Knows
  <2>. QED
    BY <1>1, <1>4, <2>1, GivesWhole
<1>5. CASE lead = 0 /\ task = "Token" /\ text # <<>> /\ Gives(text)
  <2>1. WholeToken(start, q, text)
    BY <1>1, <1>5, TokenEnds DEF Knows
  <2>. QED
    BY <1>1, <1>5, <2>1, GivesWhole
<1>6. CASE lead = 0 /\ task = "Line" /\ Gives(text)
  <2>1. /\ start \in 1..q /\ text = Characters(start, q - 1)
        /\ \A p \in start..(q - 1) : file[p] \notin Breaks
    BY <1>6, KnowsReading DEF ReadingAt
  <2>2. WholeLine(start, q, text)
    BY <1>1, <2>1, LineEnds
  <2>. QED
    BY <1>1, <1>6, <2>2, GivesWhole
<1>. QED
  BY <1>2, <1>3, <1>4, <1>5, <1>6 DEF AtEnd

LEMMA WholeStep ==
  ASSUME ReadingInv, ReaderInv', Step
  PROVE  WholeInv'
<1>1. UNCHANGED file /\ closed' = closed /\ SourceInv /\ SourceInv'
      /\ task \notin {"None", "Restore"}
  BY DEF Step, ReadingInv, ReaderInv
<1>2. CASE closed
  BY <1>1, <1>2, ClosedStep, WholeThen
<1>3. CASE ~closed
  <2>1. Knows(NextByte)
    BY <1>3, StepKnows
  <2>2. /\ Take => NextByte' = NextByte + 1
        /\ Stay \/ Fetch(0) \/ Compacted => NextByte' = NextByte
    BY <1>1, <1>3, NextByteMoves
  <2>3. /\ Available(0) => Ahead(0) = NextByte /\ NextByte <= Size
        /\ ~Available(0) /\ end => NextByte = Size + 1
    BY <1>1, <1>3, NextByteIs
  <2> DEFINE q == NextByte
  <2>4. CASE /\ Available(0)
             /\ \E b \in {Ahead(0)} : SkipSpace(b) \/ EndToken(b) \/ EndLine(b)
                                      \/ AfterCR(b) \/ ReadCharacter(b)
    <3>1. SkipSpace(q) \/ EndToken(q) \/ EndLine(q) \/ AfterCR(q) \/ ReadCharacter(q)
      BY <2>3, <2>4
    <3>2. q <= Size /\ Knows(q) /\ (Take => NextByte' = q + 1) /\ (Stay => NextByte' = q)
      BY <2>1, <2>2, <2>3, <2>4
    <3>. HIDE DEF q
    <3>3. WholeAt(task', start', NextByte', text', lead', result', closed')
      BY <3>1, <3>2, ByteWhole
    <3>. QED
      BY <1>1, <3>3, WholeThen
  <2>5. CASE Fetch(0) /\ UNCHANGED <<task, lead, text, result, start>>
    <3>1. WholeAt(task', start', NextByte', text', lead', result', closed')
      BY <1>1, <2>2, <2>5 DEF ReadingInv, WholeInv
    <3>. QED
      BY <1>1, <3>1, WholeThen
  <2>6. CASE FindsEnd(0) /\ AtEnd
    <3>1. q = Size + 1 /\ NextByte' = q
      BY <2>2, <2>3, <2>6 DEF FindsEnd
    <3>2. WholeAt(task', start', NextByte', text', lead', result', closed')
      BY <1>1, <2>1, <2>6, <3>1, EndWhole
    <3>. QED
      BY <1>1, <3>2, WholeThen
  <2>7. CASE PeekFails(0) /\ IF task = "AfterCR" THEN Gives(text) ELSE Fails
    <3>1. NextByte' = NextByte
      BY <2>2, <2>7 DEF PeekFails
    <3>2. result = "None"
      BY <2>1 DEF Knows
    <3>3. CASE task = "AfterCR" /\ Gives(text)
      <4>1. WholeLine(start, NextByte, text)
        BY <2>1, <3>3, BehindCREnds DEF Knows
      <4>2. WholeAt(task', start', NextByte', text', lead', result', closed')
        BY <3>1, <3>2, <3>3, <4>1, GivesWhole
      <4>. QED
        BY <1>1, <4>2, WholeThen
    <3>4. CASE Fails
      BY <1>1, <3>2, <3>4, FailsWhole, WholeThen
    <3>. QED
      BY <2>7, <3>3, <3>4
  <2>. QED
    BY <2>4, <2>5, <2>6, <2>7 DEF Step
<1>. QED
  BY <1>2, <1>3
-----------------------------------------------------------------------------
LEMMA BeginWhole ==
  ASSUME ReadingInv, ReaderInv', ReadCodePoint \/ ReadLine \/ ReadToken \/ Request
  PROVE  WholeInv'
<1>1. PICK t \in {"CodePoint", "Line", "Skip"} : \E p, n : Begin(t, p, n)
  BY DEF ReadCodePoint, ReadLine, ReadToken, Request
<1>2. /\ task = "None" /\ task' = t /\ result' = "None" /\ text' = <<>>
      /\ start' = (IF t = "Line" THEN NextByte ELSE 0)
      /\ UNCHANGED source_vars /\ UNCHANGED <<file, lead>>
  BY <1>1 DEF Begin, Idle
<1>3. lead' = 0 /\ closed' = closed /\ NextByte' = NextByte
  BY <1>2 DEF ReadingInv, WholeInv, WholeAt, source_vars, NextByte, Available, Ahead
<1>4. ~closed => ReadingAt(Breaks, NextByte, NextByte, <<>>, 0)
  BY FileFacts, NextByteIs, ReadsNothing DEF ReadingInv, ReaderInv
<1>5. WholeAt(task', start', NextByte', text', lead', result', closed')
  BY <1>2, <1>3, <1>4 DEF WholeAt
<1>. QED
  BY <1>2, <1>5, WholeThen

LEMMA WholeNext ==
  ASSUME ReadingInv, ReaderInv', [Next]_vars
  PROVE  WholeInv'
<1>1. CASE Step
  BY <1>1, WholeStep
<1>2. CASE Restore
  <2>1. /\ task = "Restore" /\ task' = "None" /\ result' \in {"Restored", "Failed"}
        /\ UNCHANGED <<file, lead>>
    BY <1>2 DEF Restore
  <2>2. WholeAt(task', start', NextByte', text', lead', result', closed')
    BY <2>1 DEF ReadingInv, WholeInv, WholeAt
  <2>. QED
    BY <2>1, <2>2, WholeThen
<1>3. CASE ReadCodePoint \/ ReadLine \/ ReadToken \/ Request
  BY <1>3, BeginWhole
<1>4. CASE Direct
  <2>1. task = "None" /\ task' = "None" /\ result' = "None" /\ UNCHANGED <<file, lead>>
    BY <1>4 DEF Direct
  <2>2. WholeAt(task', start', NextByte', text', lead', result', closed')
    BY <2>1 DEF ReadingInv, WholeInv, WholeAt
  <2>. QED
    BY <2>1, <2>2, WholeThen
<1>5. CASE UNCHANGED vars
  <2>1. UNCHANGED <<task, start, text, lead, result, closed, file>> /\ NextByte' = NextByte
    BY <1>5 DEF vars, text_vars, source_vars, NextByte, Available, Ahead
  <2>2. WholeAt(task', start', NextByte', text', lead', result', closed')
    BY <2>1 DEF ReadingInv, WholeInv
  <2>. QED
    BY <2>1, <2>2, WholeThen
<1>. QED
  BY <1>1, <1>2, <1>3, <1>4, <1>5 DEF Next

LEMMA FileKept == [Next]_vars => UNCHANGED file
BY DEF Next, Step, Restore, ReadCodePoint, ReadLine, ReadToken, Request, Begin,
       Direct, vars, text_vars

(***************************************************************************)
(* A line is every character up to the first terminator or the end, and a  *)
(* token a whole run of characters that are not white space, for every     *)
(* source and capacity, however the bytes arrive, and whatever is          *)
(* malformed in them.                                                      *)
(***************************************************************************)
THEOREM RequestsCorrect == Spec => []RequestsReturnWhole
<1>1. Init => file \in Files /\ WholeInv
  BY DEF Init, SourceInit, WholeInv, WholeAt
<1>2. /\ ReaderInv /\ RestoreInv /\ file \in Files /\ WholeInv
      /\ ReaderInv' /\ [Next]_vars
      => (file \in Files /\ WholeInv)'
  <2>1. RestoreInv => task \in Tasks
    BY DEF RestoreInv
  <2>. QED
    BY <2>1, WholeNext, FileKept DEF ReadingInv
<1>. QED
  BY <1>1, <1>2, WholeIsWhole, ReaderInvariance, RestoreInvariance, PTL DEF Spec
=============================================================================
