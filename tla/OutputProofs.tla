---------------------------- MODULE OutputProofs ----------------------------
(***************************************************************************)
(* Proofs about BufferedSink, about the pipelines and the context over it, *)
(* and about the adapters below it, for every capacity, text, set of       *)
(* system tables, and device or sink that fails as often as it likes:      *)
(* bytes reach the sink exactly once and in order, the output shows the    *)
(* characters in order, nothing of it is lost before the boot services     *)
(* end, and every adapter passes on what it reports.  All that a pipeline  *)
(* or an adapter does to the buffer are steps of BufferedSink, whose       *)
(* invariant is proved first.                                              *)
(***************************************************************************)
EXTENDS Context, Adapters, FiniteSetTheorems, SequenceTheorems, WellFoundedInduction,
        TLAPS

(* BufferedSink.                                                           *)

\* How the program counter and the locals of the running operation belong
\* together, which makes the invariants inductive.
Control ==
  /\ phase = "Copy" => op \in {"None", "Write"}
  /\ phase # "Drain" => written = 0
  /\ phase \in {"SinkFlush", "SinkClose"} => buffer = <<>>
  /\ op = "None" => phase = "Copy"
  /\ op = "Write" => phase \in {"Copy", "Drain"} /\ acknowledged + size <= MaxBytes
  /\ op # "Write" => accepted = 0

Inv == TypeOK /\ Control /\ ExactlyOnceInOrder /\ LossNeedsFailure
-----------------------------------------------------------------------------
(* Sequences written as functions on an initial segment of the integers. *)

LEMMA FunctionIsSeq ==
  ASSUME NEW S, NEW n \in Nat, NEW f \in [1..n -> S]
  PROVE  f \in Seq(S) /\ Len(f) = n
<1>1. f \in Seq(S)
  BY SeqDef
<1>2. Len(f) \in Nat /\ DOMAIN f = 1..Len(f)
  BY <1>1, LenProperties
<1>3. DOMAIN f = 1..n
  OBVIOUS
<1> QED
  BY <1>1, <1>2, <1>3, SMT

\* Copying count bytes behind the buffer.
LEMMA ExtendedProperties ==
  ASSUME TypeOK, NEW count \in Nat
  PROVE  /\ Extended(count) \in Seq(Nat)
         /\ Len(Extended(count)) = Len(buffer) + count
         /\ \A k \in 1..(Len(buffer) + count) :
              Extended(count)[k] = IF k <= Len(buffer) THEN buffer[k]
                                   ELSE acknowledged + accepted + (k - Len(buffer))
<1>1. Len(buffer) \in Nat /\ \A k \in 1..Len(buffer) : buffer[k] \in Nat
  BY LenProperties, ElementOfSeq DEF TypeOK
<1>2. acknowledged \in Nat /\ accepted \in Nat
  BY BufferedSinkAssumption DEF TypeOK
<1>3. Extended(count) \in [1..(Len(buffer) + count) -> Nat]
  BY <1>1, <1>2, SMT DEF Extended
<1>4. Extended(count) \in Seq(Nat) /\ Len(Extended(count)) = Len(buffer) + count
  BY <1>1, <1>3, FunctionIsSeq
<1> QED
  BY <1>1, <1>4 DEF Extended

\* What is left in the buffer when a drain stops.
LEMMA UnsentProperties ==
  ASSUME TypeOK
  PROVE  /\ Unsent \in Seq(Nat)
         /\ Len(Unsent) = Len(buffer) - written
         /\ \A k \in 1..Len(Unsent) : Unsent[k] = buffer[written + k]
<1>1. Len(buffer) \in Nat /\ \A k \in 1..Len(buffer) : buffer[k] \in Nat
  BY LenProperties, ElementOfSeq DEF TypeOK
<1>2. written \in 0..Len(buffer)
  BY DEF TypeOK
<1>3. \A i \in (written + 1)..Len(buffer) : buffer[i] \in Nat
  BY <1>1, <1>2
<1>4. /\ Unsent \in Seq(Nat)
      /\ Len(Unsent) = IF written + 1 <= Len(buffer) THEN Len(buffer) - (written + 1) + 1 ELSE 0
      /\ \A i \in 1..(Len(buffer) - (written + 1) + 1) :
           Unsent[i] = buffer[(written + 1) + i - 1]
  BY <1>1, <1>2, <1>3, SubSeqProperties DEF Unsent
<1>5. Len(Unsent) = Len(buffer) - written
  BY <1>1, <1>2, <1>4
<1>6. \A k \in 1..Len(Unsent) : Unsent[k] = buffer[written + k]
  BY <1>1, <1>2, <1>4, <1>5
<1> QED
  BY <1>4, <1>5, <1>6

LEMMA MinimumProperties ==
  ASSUME NEW a \in Nat, NEW b \in Nat
  PROVE  Minimum(a, b) \in Nat /\ Minimum(a, b) <= a /\ Minimum(a, b) <= b
BY DEF Minimum
-----------------------------------------------------------------------------
LEMMA Empty == <<>> \in Seq(Nat) /\ Len(<<>>) = 0
BY EmptySeq

LEMMA InitInv == Init => Inv
<1> SUFFICES ASSUME Init PROVE Inv
  OBVIOUS
<1>1. TypeOK
  <2>1. op \in Ops /\ phase \in Phases
    BY DEF Init, Ops, Phases
  <2>2. buffer \in Seq(Nat) /\ delivered \in Seq(Nat) /\ Len(buffer) = 0
    BY Empty DEF Init
  <2>3. size \in 0..MaxWrite /\ acknowledged \in 0..MaxBytes /\ Capacity \in Nat
    BY BufferedSinkAssumption DEF Init
  <2>4. /\ Len(buffer) <= Capacity /\ written \in 0..Len(buffer)
        /\ accepted \in 0..size
    BY <2>2, <2>3 DEF Init
  <2>5. /\ sinkOpen \in BOOLEAN /\ drainFailed \in BOOLEAN /\ lost \in BOOLEAN
        /\ result \in {"Ok", "Failure"}
    BY Zenon DEF Init
  <2> QED
    BY <2>1, <2>2, <2>3, <2>4, <2>5, Zenon DEF TypeOK
<1>2. Control
  BY DEF Init, Control
<1>3. ExactlyOnceInOrder
  BY Empty DEF Init, ExactlyOnceInOrder, Sent
<1>4. LossNeedsFailure
  BY DEF Init, LossNeedsFailure
<1> QED
  BY <1>1, <1>2, <1>3, <1>4 DEF Inv
-----------------------------------------------------------------------------
(***************************************************************************)
(* A return keeps the invariant when what it leaves in the buffer is what  *)
(* the sink has not got, and a drain that left something has failed.       *)
(***************************************************************************)
LEMMA ReturnInv ==
  ASSUME Inv, NEW outcome \in {"Ok", "Failure"}, NEW left \in Seq(Nat),
         NEW open \in BOOLEAN,
         Return(outcome, left, open),
         drainFailed' \in BOOLEAN, drainFailed => drainFailed',
         left # <<>> /\ op = "Assign" => drainFailed',
         Len(left) = Len(buffer) - written,
         \A k \in 1..Len(left) : left[k] = buffer[written + k],
         op = "Write" => accepted <= size
  PROVE  Inv'
<1> USE BufferedSinkAssumption
<1>1. /\ Len(buffer) \in Nat /\ Len(buffer) <= Capacity /\ written \in 0..Len(buffer)
      /\ Len(left) \in Nat /\ Len(delivered) \in Nat
      /\ acknowledged \in Nat /\ accepted \in Nat /\ size \in Nat
      /\ delivered \in Seq(Nat)
  BY LenProperties DEF Inv, TypeOK
<1>2. CASE op = "Assign"
  <2>1. TypeOK'
    <3>1. op' \in Ops /\ phase' \in Phases
      BY DEF Return, Ops, Phases
    <3> QED
      BY <1>2, <3>1, Empty DEF Return, Inv, TypeOK
  <2>2. Control'
    BY <1>2 DEF Return, Control
  <2>3. ExactlyOnceInOrder'
    BY <1>2, Empty DEF Return, ExactlyOnceInOrder, Sent
  <2>4. LossNeedsFailure'
    BY <1>2 DEF Return, Inv, LossNeedsFailure
  <2> QED
    BY <2>1, <2>2, <2>3, <2>4 DEF Inv
<1>3. CASE op # "Assign"
  <2>1. TypeOK'
    <3>1. op' \in Ops /\ phase' \in Phases
      BY DEF Return, Ops, Phases
    <3>2. acknowledged' \in 0..MaxBytes
      <4>1. CASE op = "Write"
        BY <1>1, <1>3, <4>1 DEF Return, Inv, TypeOK, Control
      <4>2. CASE op # "Write"
        BY <1>1, <1>3, <4>2 DEF Return, Inv, TypeOK, Control
      <4> QED
        BY <4>1, <4>2
    <3>3. result' \in {"Ok", "Failure"} /\ sinkOpen' \in BOOLEAN
      BY <1>3 DEF Return
    <3>4. /\ buffer' \in Seq(Nat) /\ Len(buffer') <= Capacity /\ written' \in 0..Len(buffer')
          /\ size' \in 0..MaxWrite /\ accepted' \in 0..size'
      BY <1>1, <1>3 DEF Return
    <3> QED
      BY <1>3, <3>1, <3>2, <3>3, <3>4 DEF Return, Inv, TypeOK
  <2>2. Control'
    BY <1>3 DEF Return, Control
  <2>3. ExactlyOnceInOrder'
    <3>1. /\ buffer' = left /\ delivered' = delivered /\ written' = 0
          /\ Sent' = Sent
      BY <1>1, <1>3 DEF Return, Sent
    <3>2. Len(delivered) + Len(left) - 0 = Sent
      BY <1>1 DEF Inv, ExactlyOnceInOrder
    <3>3. \A k \in 1..Len(left) : left[k] = Len(delivered) + k
      <4> TAKE k \in 1..Len(left)
      <4>1. written + k \in (written + 1)..Len(buffer)
        BY <1>1
      <4>2. buffer[written + k] = Len(delivered) + ((written + k) - written)
        BY <4>1 DEF Inv, ExactlyOnceInOrder
      <4> QED
        BY <1>1, <4>2
    <3>4. Len(delivered') + Len(buffer') - written' = Sent'
      BY <3>1, <3>2
    <3>5. \A i \in 1..Len(delivered') : delivered'[i] = i
      BY <3>1 DEF Inv, ExactlyOnceInOrder
    <3>6. \A k \in (written' + 1)..Len(buffer') :
            buffer'[k] = Len(delivered') + (k - written')
      BY <1>1, <3>1, <3>3
    <3> QED
      BY <3>4, <3>5, <3>6 DEF ExactlyOnceInOrder
  <2>4. LossNeedsFailure'
    BY <1>3 DEF Return, Inv, LossNeedsFailure
  <2> QED
    BY <2>1, <2>2, <2>3, <2>4 DEF Inv
<1> QED
  BY <1>2, <1>3

(***************************************************************************)
(* One lemma per step that touches the buffer or the sink.                 *)
(***************************************************************************)
LEMMA BeginInv ==
  ASSUME Inv, WriteSome \/ Flush \/ Close \/ Assign
  PROVE  Inv'
<1> USE BufferedSinkAssumption
<1>1. /\ op = "None" /\ op' \in Ops /\ phase' \in Phases
      /\ UNCHANGED <<buffer, written, result, sinkOpen, acknowledged,
                     delivered, drainFailed, lost>>
  BY DEF WriteSome, Flush, Close, Assign, Begin, Ops, Phases
<1>2. accepted' = 0 /\ accepted = 0 /\ written = 0
  BY <1>1 DEF WriteSome, Flush, Close, Assign, Begin, Inv, Control
<1>3. size' \in 0..MaxWrite /\ (op' = "Write" => acknowledged' + size' <= MaxBytes)
  <2>1. CASE WriteSome
    BY <1>1, <2>1 DEF WriteSome, Inv, TypeOK
  <2>2. CASE Flush \/ Close \/ Assign
    BY <2>2 DEF Flush, Close, Assign, Begin, Inv, TypeOK
  <2> QED
    BY <2>1, <2>2
<1>4. TypeOK'
  <2>1. accepted' \in 0..size'
    BY <1>2, <1>3
  <2> QED
    BY <1>1, <1>3, <2>1 DEF Inv, TypeOK
<1>5. Control'
  <2>1. /\ phase' = "Copy" => op' = "Write"
        /\ phase' \in {"SinkFlush", "SinkClose"} => FALSE
        /\ op' # "None"
        /\ op' = "Write" => phase' = "Copy"
    BY DEF WriteSome, Flush, Close, Assign, Begin
  <2> QED
    BY <1>1, <1>2, <1>3, <2>1 DEF Control
<1>6. ExactlyOnceInOrder'
  BY <1>1, <1>2 DEF Inv, ExactlyOnceInOrder, Sent
<1>7. LossNeedsFailure'
  BY <1>1 DEF Inv, LossNeedsFailure
<1> QED
  BY <1>4, <1>5, <1>6, <1>7 DEF Inv

LEMMA CopyInv ==
  ASSUME Inv, Copy
  PROVE  Inv'
<1> USE BufferedSinkAssumption
<1>1. /\ Len(buffer) \in Nat /\ Len(buffer) <= Capacity /\ written = 0
      /\ Len(delivered) \in Nat /\ acknowledged \in Nat /\ accepted \in Nat
      /\ size \in Nat /\ accepted <= size /\ op = "Write" /\ phase = "Copy"
  BY LenProperties DEF Inv, TypeOK, Control, Copy
<1>2. CASE /\ accepted = size
           /\ Return("Ok", buffer, sinkOpen)
           /\ drainFailed' = drainFailed
  <2>1. sinkOpen \in BOOLEAN /\ drainFailed \in BOOLEAN /\ buffer \in Seq(Nat)
    BY DEF Inv, TypeOK
  <2> QED
    BY <1>1, <1>2, <2>1, ReturnInv
<1>3. CASE /\ accepted < size
           /\ Len(buffer) < Capacity
           /\ LET count == Minimum(Capacity - Len(buffer), size - accepted)
              IN /\ buffer' = Extended(count)
                 /\ accepted' = accepted + count
           /\ UNCHANGED <<written, op, phase, size, result, sinkOpen,
                          acknowledged, delivered, drainFailed, lost>>
  <2> DEFINE count == Minimum(Capacity - Len(buffer), size - accepted)
  <2>1. count \in Nat /\ count <= Capacity - Len(buffer) /\ count <= size - accepted
    BY <1>1, <1>3, MinimumProperties
  <2>2. buffer' = Extended(count) /\ accepted' = accepted + count
    BY <1>3
  <2> HIDE DEF count
  <2>3. /\ buffer' \in Seq(Nat) /\ Len(buffer') = Len(buffer) + count
        /\ \A k \in 1..(Len(buffer) + count) :
             buffer'[k] = IF k <= Len(buffer) THEN buffer[k]
                          ELSE acknowledged + accepted + (k - Len(buffer))
    BY <2>1, <2>2, ExtendedProperties DEF Inv
  <2>4. TypeOK'
    <3>1. /\ Len(buffer') <= Capacity /\ written' \in 0..Len(buffer')
          /\ accepted' \in 0..size'
      BY <1>1, <1>3, <2>1, <2>2, <2>3
    <3> QED
      BY <1>3, <2>3, <3>1 DEF Inv, TypeOK
  <2>5. Control'
    BY <1>1, <1>3 DEF Inv, Control
  <2>6. ExactlyOnceInOrder'
    <3>1. /\ delivered' = delivered /\ written' = 0
          /\ Len(buffer') \in Nat /\ Len(buffer') = Len(buffer) + count
      BY <1>1, <1>3, <2>1, <2>3
    <3>2. Sent' = Sent + count /\ Sent \in Nat
      BY <1>1, <1>3, <2>1, <2>2 DEF Sent
    <3>3. Len(delivered) + Len(buffer) = Sent
      BY <1>1 DEF Inv, ExactlyOnceInOrder
    <3>4. Len(delivered') + Len(buffer') - written' = Sent'
      BY <1>1, <2>1, <3>1, <3>2, <3>3
    <3>5. \A i \in 1..Len(delivered') : delivered'[i] = i
      BY <3>1 DEF Inv, ExactlyOnceInOrder
    <3>6. ASSUME NEW k \in (written' + 1)..Len(buffer')
          PROVE  buffer'[k] = Len(delivered') + (k - written')
      <4>1. k \in Nat /\ k \in 1..(Len(buffer) + count)
        BY <1>1, <2>1, <3>1
      <4>2. CASE k <= Len(buffer)
        <5>1. buffer'[k] = buffer[k] /\ k \in (written + 1)..Len(buffer)
          BY <1>1, <2>3, <4>1, <4>2
        <5>2. buffer[k] = Len(delivered) + (k - written)
          BY <5>1 DEF Inv, ExactlyOnceInOrder
        <5> QED
          BY <1>1, <3>1, <5>1, <5>2
      <4>3. CASE ~(k <= Len(buffer))
        <5>1. buffer'[k] = acknowledged + accepted + (k - Len(buffer))
          BY <2>3, <4>1, <4>3
        <5>2. Len(delivered) + Len(buffer) = acknowledged + accepted
          BY <3>3 DEF Sent
        <5> QED
          BY <1>1, <3>1, <4>1, <5>1, <5>2
      <4> QED
        BY <4>2, <4>3
    <3> QED
      BY <3>4, <3>5, <3>6 DEF ExactlyOnceInOrder
  <2>7. LossNeedsFailure'
    BY <1>3 DEF Inv, LossNeedsFailure
  <2> QED
    BY <2>4, <2>5, <2>6, <2>7 DEF Inv
<1>4. CASE /\ accepted < size
           /\ Len(buffer) = Capacity
           /\ phase' = "Drain"
           /\ UNCHANGED <<buffer, written, op, size, accepted, result, sinkOpen,
                          acknowledged, delivered, drainFailed, lost>>
  <2>1. TypeOK'
    BY <1>4 DEF Inv, TypeOK, Phases
  <2>2. Control'
    BY <1>1, <1>4 DEF Inv, Control
  <2>3. ExactlyOnceInOrder' /\ LossNeedsFailure'
    BY <1>4 DEF Inv, ExactlyOnceInOrder, Sent, LossNeedsFailure
  <2> QED
    BY <2>1, <2>2, <2>3 DEF Inv
<1> QED
  BY <1>2, <1>3, <1>4 DEF Copy

\* The sink's bytes after it took n more are numbered on.
LEMMA SinkTakesDelivers ==
  ASSUME Inv, NEW n \in 1..(Len(buffer) - written), SinkTakes(n)
  PROVE  /\ delivered' \in Seq(Nat)
         /\ Len(delivered') = Len(delivered) + n
         /\ \A i \in 1..Len(delivered') : delivered'[i] = i
<1> DEFINE m == Len(delivered) + n
<1>1. /\ Len(delivered) \in Nat /\ n \in Nat /\ Len(buffer) \in Nat
      /\ written \in 0..Len(buffer) /\ n <= Len(buffer) - written /\ m \in Nat
  BY LenProperties DEF Inv, TypeOK
<1>2. ASSUME NEW i \in 1..m
      PROVE  (IF i <= Len(delivered) THEN delivered[i]
              ELSE buffer[written + (i - Len(delivered))]) = i
  <2>1. CASE i <= Len(delivered)
    BY <1>1, <2>1 DEF Inv, ExactlyOnceInOrder
  <2>2. CASE ~(i <= Len(delivered))
    <3>1. written + (i - Len(delivered)) \in (written + 1)..Len(buffer)
      BY <1>1, <2>2
    <3>2. buffer[written + (i - Len(delivered))]
            = Len(delivered) + ((written + (i - Len(delivered))) - written)
      BY <3>1 DEF Inv, ExactlyOnceInOrder
    <3> QED
      BY <1>1, <2>2, <3>2
  <2> QED
    BY <2>1, <2>2
<1>3. delivered' = [i \in 1..m |-> IF i <= Len(delivered) THEN delivered[i]
                                   ELSE buffer[written + (i - Len(delivered))]]
  BY DEF SinkTakes
<1> HIDE DEF m
<1>4. delivered' \in [1..m -> Nat] /\ \A i \in 1..m : delivered'[i] = i
  BY <1>1, <1>2, <1>3
<1>5. delivered' \in Seq(Nat) /\ Len(delivered') = m
  BY <1>1, <1>4, FunctionIsSeq
<1> QED
  BY <1>4, <1>5 DEF m

LEMMA SinkTakesInv ==
  ASSUME Inv, NEW n \in 1..(Len(buffer) - written), SinkTakes(n)
  PROVE  Inv'
<1>1. /\ Len(buffer) \in Nat /\ n \in Nat /\ written \in Nat
      /\ n <= Len(buffer) - written /\ Len(delivered) \in Nat
  BY LenProperties DEF Inv, TypeOK
<1>2. /\ delivered' \in Seq(Nat)
      /\ Len(delivered') = Len(delivered) + n
      /\ \A i \in 1..Len(delivered') : delivered'[i] = i
  BY SinkTakesDelivers
<1>3. /\ written' = written + n /\ phase = "Drain"
      /\ UNCHANGED <<buffer, op, phase, size, accepted, result, sinkOpen,
                     acknowledged, drainFailed, lost>>
  BY DEF SinkTakes, Draining
<1>4. TypeOK'
  <2>1. written' \in 0..Len(buffer')
    BY <1>1, <1>3
  <2> QED
    BY <1>2, <1>3, <2>1 DEF Inv, TypeOK
<1>5. Control'
  BY <1>3 DEF Inv, Control
<1>6. ExactlyOnceInOrder'
  <2>1. Len(delivered') + Len(buffer') - written' = Sent'
    BY <1>1, <1>2, <1>3 DEF Inv, ExactlyOnceInOrder, Sent
  <2>2. ASSUME NEW k \in (written' + 1)..Len(buffer')
        PROVE  buffer'[k] = Len(delivered') + (k - written')
    <3>1. k \in (written + 1)..Len(buffer)
      BY <1>1, <1>3
    <3>2. buffer[k] = Len(delivered) + (k - written)
      BY <3>1 DEF Inv, ExactlyOnceInOrder
    <3> QED
      BY <1>1, <1>2, <1>3, <3>2
  <2> QED
    BY <1>2, <2>1, <2>2 DEF ExactlyOnceInOrder
<1>7. LossNeedsFailure'
  BY <1>3 DEF Inv, LossNeedsFailure
<1> QED
  BY <1>4, <1>5, <1>6, <1>7 DEF Inv

LEMMA SinkStopsInv ==
  ASSUME Inv, SinkStops
  PROVE  Inv'
<1>1. /\ Unsent \in Seq(Nat)
      /\ Len(Unsent) = Len(buffer) - written
      /\ \A k \in 1..Len(Unsent) : Unsent[k] = buffer[written + k]
  BY UnsentProperties DEF Inv
<1>2. Return("Failure", Unsent, sinkOpen) /\ drainFailed' = TRUE
  BY DEF SinkStops
<1>3. sinkOpen \in BOOLEAN /\ accepted <= size
  BY BufferedSinkAssumption DEF Inv, TypeOK
<1> QED
  BY <1>1, <1>2, <1>3, ReturnInv

LEMMA DrainedInv ==
  ASSUME Inv, Drained
  PROVE  Inv'
<1>1. /\ Len(buffer) \in Nat /\ written = Len(buffer) /\ buffer' = <<>>
      /\ written' = 0 /\ Len(delivered) \in Nat
      /\ UNCHANGED <<op, size, accepted, result, sinkOpen, acknowledged,
                     delivered, drainFailed, lost>>
  BY LenProperties DEF Inv, TypeOK, Drained
<1>2. /\ phase' = "Copy" => op = "Write"
      /\ phase' \in {"Copy", "SinkFlush"}
      /\ op = "Write" => phase' = "Copy"
      /\ op # "None"
  BY DEF Drained, Inv, Control
<1>3. TypeOK'
  <2>1. buffer' \in Seq(Nat) /\ Len(buffer') = 0 /\ Capacity \in Nat
    BY <1>1, Empty, BufferedSinkAssumption
  <2>2. Len(buffer') <= Capacity /\ written' \in 0..Len(buffer') /\ phase' \in Phases
    BY <1>1, <1>2, <2>1 DEF Phases
  <2> QED
    BY <1>1, <2>1, <2>2 DEF Inv, TypeOK
<1>4. Control'
  BY <1>1, <1>2 DEF Inv, Control
<1>5. ExactlyOnceInOrder'
  BY <1>1, Empty DEF Inv, ExactlyOnceInOrder, Sent
<1>6. LossNeedsFailure'
  BY <1>1 DEF Inv, LossNeedsFailure
<1> QED
  BY <1>3, <1>4, <1>5, <1>6 DEF Inv

LEMMA SinkFlushCloseInv ==
  ASSUME Inv, SinkFlush \/ SinkClose
  PROVE  Inv'
<1>1. /\ buffer = <<>> /\ written = 0 /\ op # "Write"
  BY DEF SinkFlush, SinkClose, Inv, Control
<1>2. Len(buffer) = 0 /\ buffer \in Seq(Nat) /\ Len(buffer) = Len(buffer) - written
  BY <1>1, Empty
<1>3. sinkOpen \in BOOLEAN /\ drainFailed \in BOOLEAN
  BY DEF Inv, TypeOK
<1>4. \A k \in 1..Len(buffer) : buffer[k] = buffer[written + k]
  BY <1>2
<1>5. CASE \E outcome \in {"Ok", "Failure"}, open \in BOOLEAN :
             Return(outcome, buffer, open) /\ drainFailed' = drainFailed
  <2>1. PICK outcome \in {"Ok", "Failure"}, open \in BOOLEAN :
          Return(outcome, buffer, open) /\ drainFailed' = drainFailed
    BY <1>5
  <2> QED
    BY <1>1, <1>2, <1>3, <1>4, <2>1, ReturnInv
<1>6. CASE /\ op # "Flush" /\ phase = "SinkFlush"
           /\ phase' = "SinkClose"
           /\ UNCHANGED <<buffer, written, op, size, accepted, result,
                          sinkOpen, acknowledged, delivered, drainFailed, lost>>
  <2>1. TypeOK'
    BY <1>6 DEF Inv, TypeOK, Phases
  <2>2. Control'
    BY <1>6 DEF Inv, Control
  <2>3. ExactlyOnceInOrder' /\ LossNeedsFailure'
    BY <1>6 DEF Inv, ExactlyOnceInOrder, Sent, LossNeedsFailure
  <2> QED
    BY <2>1, <2>2, <2>3 DEF Inv
<1> QED
  BY <1>3, <1>5, <1>6 DEF SinkFlush, SinkClose
-----------------------------------------------------------------------------
LEMMA NextInv == Inv /\ [Next]_vars => Inv'
<1> SUFFICES ASSUME Inv, [Next]_vars PROVE Inv'
  OBVIOUS
<1>1. CASE Call
  BY <1>1, BeginInv DEF Call
<1>2. CASE Copy
  BY <1>2, CopyInv
<1>3. CASE \E n \in 1..(Len(buffer) - written) : SinkTakes(n)
  BY <1>3, SinkTakesInv
<1>4. CASE SinkStops
  BY <1>4, SinkStopsInv
<1>5. CASE Drained
  BY <1>5, DrainedInv
<1>6. CASE SinkFlush \/ SinkClose
  BY <1>6, SinkFlushCloseInv
<1>7. CASE UNCHANGED vars
  BY <1>7 DEF vars, Inv, TypeOK, Control, ExactlyOnceInOrder, Sent, LossNeedsFailure
<1> QED
  BY <1>1, <1>2, <1>3, <1>4, <1>5, <1>6, <1>7 DEF Next, Run

THEOREM Invariance == Spec => []Inv
BY InitInv, NextInv, PTL DEF Spec

\* Every variable of the adapter keeps its type.
THEOREM TypeCorrectness == Spec => []TypeOK
<1>1. Inv => TypeOK
  BY DEF Inv
<1> QED
  BY Invariance, <1>1, PTL

\* The sink receives every byte handed over once and in order, however it
\* fails: Buffered.hpp, FlushBuffer and WriteSome.
THEOREM DeliveryIsExact == Spec => []ExactlyOnceInOrder
<1>1. Inv => ExactlyOnceInOrder
  BY DEF Inv
<1> QED
  BY Invariance, <1>1, PTL

\* The move assignment drops bytes only after a drain failed.
THEOREM LossOnlyAfterFailure == Spec => []LossNeedsFailure
<1>1. Inv => LossNeedsFailure
  BY DEF Inv
<1> QED
  BY Invariance, <1>1, PTL
-----------------------------------------------------------------------------
\* A return leaves the bytes sent and delivered alone, but for an assignment.
LEMMA ReturnSent ==
  ASSUME Inv, NEW outcome, NEW left, NEW open, Return(outcome, left, open)
  PROVE  IF op = "Assign" THEN Sent' = 0 /\ delivered' = <<>>
         ELSE Sent' = Sent /\ delivered' = delivered /\ acknowledged' = Sent
<1>1. acknowledged \in Nat /\ accepted \in Nat
  BY BufferedSinkAssumption DEF Inv, TypeOK
<1> QED
  BY <1>1 DEF Return, Sent

LEMMA FlushPublishesStep ==
  ASSUME Inv, [Next]_vars, op = "Flush", op' = "None", result' = "Ok"
  PROVE  Len(delivered') = acknowledged'
<1>1. accepted = 0
  BY DEF Inv, Control
<1>2. ~UNCHANGED vars /\ ~Call /\ ~Copy /\ ~Drained
  BY DEF vars, Call, WriteSome, Flush, Close, Assign, Begin, Copy, Drained
<1>3. ~(\E n \in 1..(Len(buffer) - written) : SinkTakes(n))
  BY DEF SinkTakes
<1>4. ~SinkStops
  BY <1>1 DEF SinkStops, Return
<1>5. SinkFlush \/ SinkClose
  BY <1>2, <1>3, <1>4 DEF Next, Run
<1>6. written = 0 /\ Len(buffer) = 0 /\ Len(delivered) \in Nat
  BY <1>5, Empty, LenProperties DEF SinkFlush, SinkClose, Inv, Control, TypeOK
<1>7. Len(delivered) = Sent
  BY <1>6 DEF Inv, ExactlyOnceInOrder
<1>8. \E outcome, left, open : Return(outcome, left, open)
  BY <1>5 DEF SinkFlush, SinkClose
<1>9. delivered' = delivered /\ acknowledged' = Sent
  BY <1>8, ReturnSent
<1> QED
  BY <1>7, <1>9

\* A successful Flush leaves the sink with every acknowledged byte
\* (Buffered.hpp, Flush), whatever failed before.
THEOREM FlushIsComplete == Spec => FlushPublishes
<1>1. Inv /\ [Next]_vars
        => [op = "Flush" /\ op' = "None" /\ result' = "Ok"
              => Len(delivered') = acknowledged']_vars
  BY FlushPublishesStep
<1> QED
  BY <1>1, Invariance, PTL DEF Spec, FlushPublishes
-----------------------------------------------------------------------------
LEMMA StepIsStreamStep ==
  ASSUME Inv, [Next]_vars
  PROVE  [Stream!Next]_(Stream!vars)
<1> USE BufferedSinkAssumption
<1>1. /\ Len(buffer) \in Nat /\ written \in 0..Len(buffer) /\ Len(delivered) \in Nat
      /\ Len(buffer) <= Capacity /\ acknowledged \in Nat /\ accepted \in Nat
      /\ Sent \in Nat /\ size \in Nat /\ accepted <= size
  BY LenProperties DEF Inv, TypeOK, Sent
<1>2. Len(delivered) + Len(buffer) - written = Sent
  BY DEF Inv, ExactlyOnceInOrder
<1>3. CASE \E outcome, left, open : Return(outcome, left, open)
  BY <1>3, ReturnSent DEF Stream!Next, Stream!Restart, Stream!vars
<1>4. CASE UNCHANGED <<acknowledged, accepted, delivered>>
  BY <1>4 DEF Stream!vars, Sent
<1>5. CASE Call
  <2>1. accepted = 0 /\ UNCHANGED <<acknowledged, delivered>>
    BY <1>5 DEF Call, WriteSome, Flush, Close, Assign, Begin, Inv, Control
  <2>2. accepted' = 0
    BY <1>5, <2>1 DEF Call, WriteSome, Flush, Close, Assign
  <2> QED
    BY <1>4, <2>1, <2>2
<1>6. CASE Copy
  <2>1. CASE /\ accepted < size
             /\ Len(buffer) < Capacity
             /\ LET count == Minimum(Capacity - Len(buffer), size - accepted)
                IN accepted' = accepted + count
             /\ UNCHANGED <<acknowledged, delivered>>
    <3> DEFINE count == Minimum(Capacity - Len(buffer), size - accepted)
    <3>1. count \in 1..(Capacity - Len(buffer))
      BY <1>1, <2>1 DEF Minimum
    <3>2. accepted' = accepted + count
      BY <2>1
    <3> HIDE DEF count
    <3>3. Sent' = Sent + count /\ written = 0
      BY <1>1, <1>6, <2>1, <3>1, <3>2 DEF Sent, Copy, Inv, Control
    <3>4. Sent' \in (Sent + 1)..(Len(delivered) + Capacity)
      BY <1>1, <1>2, <3>1, <3>3
    <3> QED
      BY <2>1, <3>4 DEF Stream!Next, Stream!Send
  <2> QED
    BY <1>3, <1>4, <1>6, <2>1 DEF Copy
<1>7. CASE \E n \in 1..(Len(buffer) - written) : SinkTakes(n)
  <2>1. PICK n \in 1..(Len(buffer) - written) : SinkTakes(n)
    BY <1>7
  <2> DEFINE m == Len(delivered) + n
  <2>2. /\ delivered' \in Seq(Nat) /\ Len(delivered') = m
        /\ \A i \in 1..m : delivered'[i] = i
    BY <2>1, SinkTakesDelivers
  <2>3. m \in (Len(delivered) + 1)..Sent
    BY <1>1, <1>2
  <2>4. delivered' = [i \in 1..m |-> IF i <= Len(delivered) THEN delivered[i] ELSE i]
    <3>1. DOMAIN delivered' = 1..m
      BY <2>2, LenProperties
    <3>2. \A i \in 1..Len(delivered) : delivered[i] = i
      BY DEF Inv, ExactlyOnceInOrder
    <3>3. \A i \in 1..m : (IF i <= Len(delivered) THEN delivered[i] ELSE i) = i
      BY <1>1, <3>2
    <3>4. delivered' = [i \in 1..m |-> delivered'[i]]
      BY <2>1, <3>1 DEF SinkTakes
    <3> QED
      BY <2>2, <3>3, <3>4
  <2>5. Sent' = Sent
    BY <2>1 DEF SinkTakes, Sent
  <2> HIDE DEF m
  <2> QED
    BY <2>3, <2>4, <2>5 DEF Stream!Next, Stream!Receive
<1>8. CASE SinkStops \/ SinkFlush \/ SinkClose \/ Drained
  BY <1>3, <1>4, <1>8 DEF SinkStops, SinkFlush, SinkClose, Drained
<1>9. CASE UNCHANGED vars
  BY <1>4, <1>9 DEF vars
<1> QED
  BY <1>5, <1>6, <1>7, <1>8, <1>9 DEF Next, Run

\* The adapter implements the abstract byte stream: its buffer only delays
\* what the sink receives, by at most Capacity bytes.
THEOREM Refinement == Spec => ImplementsByteStream
<1>1. Init => Stream!Init
  BY DEF Init, Stream!Init, Sent
<1>2. Inv /\ [Next]_vars => [Stream!Next]_(Stream!vars)
  BY StepIsStreamStep
<1> QED
  BY <1>1, <1>2, Invariance, PTL DEF Spec, ImplementsByteStream, Stream!Spec
-----------------------------------------------------------------------------
(* The pipelines and the context.                                          *)

In(n, s) == \E i \in 1..Len(s) : s[i] = n

\* What NewlineSink has passed on is part of what the adapter is draining.
TakenIsDraining ==
  /\ taken \in Nat
  /\ taken > 0 => Draining /\ written + taken < Len(buffer)

PipelineInv ==
  /\ Inv
  /\ op \in {"None", "Write", "Flush"}
  /\ TakenIsDraining
  /\ wide \in Seq(Int) /\ screen \in Seq(Int)
  /\ device \in {"Console", "Serial"}

ContextInv ==
  /\ ContextsAgree
  /\ bootServices => systemTable # None
  /\ preparing => op = "Flush"
  /\ prepared => op \in {"None", "Flush"} /\ buffer = <<>> /\ wide = <<>>

\* Until the boot services end, everything the device was given is on the
\* screen or waits in the wide buffer.
NothingDropped ==
  systemTable = None \/ bootServices =>
    \A n \in 1..(Len(delivered) + taken) : In(n, screen) \/ In(n, wide)

IInv == PipelineInv /\ ContextInv /\ NothingDropped
-----------------------------------------------------------------------------
LEMMA InAppend ==
  ASSUME NEW s \in Seq(Int), NEW c \in Int, NEW n
  PROVE  /\ Append(s, c) \in Seq(Int)
         /\ In(n, Append(s, c)) <=> In(n, s) \/ n = c
<1>1. /\ Append(s, c) \in Seq(Int) /\ Len(Append(s, c)) = Len(s) + 1
      /\ \A i \in 1..Len(s) : Append(s, c)[i] = s[i]
      /\ Append(s, c)[Len(s) + 1] = c
      /\ Len(s) \in Nat
  BY AppendProperties, LenProperties
<1>2. 1..(Len(s) + 1) = 1..Len(s) \cup {Len(s) + 1}
  BY <1>1
<1>. QED
  BY <1>1, <1>2 DEF In

LEMMA InConcat ==
  ASSUME NEW s \in Seq(Int), NEW t \in Seq(Int), NEW n
  PROVE  /\ s \o t \in Seq(Int)
         /\ In(n, s \o t) <=> In(n, s) \/ In(n, t)
<1>1. /\ s \o t \in Seq(Int) /\ Len(s \o t) = Len(s) + Len(t)
      /\ Len(s) \in Nat /\ Len(t) \in Nat
      /\ \A i \in 1..(Len(s) + Len(t)) :
           (s \o t)[i] = IF i <= Len(s) THEN s[i] ELSE t[i - Len(s)]
  BY ConcatProperties, LenProperties
<1>2. ASSUME In(n, s \o t) PROVE In(n, s) \/ In(n, t)
  <2>1. PICK i \in 1..(Len(s) + Len(t)) : (s \o t)[i] = n
    BY <1>1, <1>2 DEF In
  <2>2. CASE i <= Len(s)
    BY <1>1, <2>1, <2>2 DEF In
  <2>3. CASE i > Len(s)
    <3>1. i - Len(s) \in 1..Len(t) /\ t[i - Len(s)] = n
      BY <1>1, <2>1, <2>3
    <3>. QED
      BY <3>1 DEF In
  <2>. QED
    BY <1>1, <2>1, <2>2, <2>3
<1>3. ASSUME In(n, s) PROVE In(n, s \o t)
  <2>1. PICK i \in 1..Len(s) : s[i] = n
    BY <1>3 DEF In
  <2>2. i \in 1..(Len(s) + Len(t)) /\ (s \o t)[i] = n
    BY <1>1, <2>1
  <2>. QED
    BY <1>1, <2>2 DEF In
<1>4. ASSUME In(n, t) PROVE In(n, s \o t)
  <2>1. PICK i \in 1..Len(t) : t[i] = n
    BY <1>4 DEF In
  <2>2. Len(s) + i \in 1..(Len(s) + Len(t)) /\ (s \o t)[Len(s) + i] = n
    BY <1>1, <2>1
  <2>. QED
    BY <1>1, <2>2 DEF In
<1>. QED
  BY <1>1, <1>2, <1>3, <1>4

LEMMA InEmpty == /\ \A n : ~In(n, <<>>)
                 /\ <<>> \in Seq(Int)
  BY DEF In
-----------------------------------------------------------------------------
(* The device.                                                             *)

\* What the device has put out or keeps, and a character it is given.
Has(n) == In(n, screen) \/ In(n, wide)

LEMMA AcceptsShows ==
  ASSUME wide \in Seq(Int), screen \in Seq(Int), NEW c \in Int,
         device \in {"Console", "Serial"}, ContextsAgree, DeviceAccepts(c),
         UNCHANGED <<attached, device>>
  PROVE  /\ wide' \in Seq(Int) /\ screen' \in Seq(Int)
         /\ Has(c)' /\ \A n : Has(n) => Has(n)'
         /\ device = "Console" /\ ~attached => wide' = <<>>
<1>1. CASE device = "Console" /\ attached /\ ConsoleAccepts(c)
  <2>1. Append(wide, c) \in Seq(Int) /\ \A n : In(n, Append(wide, c)) <=> In(n, wide) \/ n = c
    BY InAppend
  <2>2. /\ screen' = screen \o Append(wide, c) /\ wide' = <<>>
    BY <1>1 DEF ConsoleAccepts
  <2>3. /\ screen' \in Seq(Int)
        /\ \A n : In(n, screen') <=> In(n, screen) \/ In(n, Append(wide, c))
    BY <2>1, <2>2, InConcat
  <2>. QED
    BY <1>1, <2>1, <2>2, <2>3, InEmpty DEF Has
<1>2. CASE device = "Serial" /\ SerialAccepts(c)
  <2>1. screen' \in Seq(Int) /\ \A n : In(n, screen') <=> In(n, screen) \/ n = c
    BY <1>2, InAppend DEF SerialAccepts
  <2>. QED
    BY <1>2, <2>1 DEF Has, SerialAccepts
<1>. QED
  BY <1>1, <1>2 DEF DeviceAccepts

LEMMA FailsKeeps ==
  ASSUME wide \in Seq(Int), screen \in Seq(Int), NEW c \in Int,
         device \in {"Console", "Serial"}, ContextsAgree, DeviceFails(c),
         UNCHANGED <<attached, device>>
  PROVE  /\ wide' \in Seq(Int) /\ screen' \in Seq(Int)
         /\ \A n : Has(n) => Has(n)'
         /\ device = "Console" /\ ~attached => wide' = <<>>
<1>1. CASE UNCHANGED <<wide, screen>>
  BY <1>1 DEF Has, ContextsAgree
<1>2. CASE device = "Console" /\ attached /\ wide' = Append(wide, c) /\ screen' = screen
  <2>1. wide' \in Seq(Int) /\ \A n : In(n, wide') <=> In(n, wide) \/ n = c
    BY <1>2, InAppend
  <2>. QED
    BY <1>2, <2>1 DEF Has
<1>3. CASE device = "Console" /\ attached /\ wide' = <<c>> /\ screen' = screen \o wide
  <2>1. /\ screen' \in Seq(Int)
        /\ \A n : In(n, screen') <=> In(n, screen) \/ In(n, wide)
    BY <1>3, InConcat
  <2>. QED
    BY <1>3, <2>1 DEF Has
<1>. QED
  BY <1>1, <1>2, <1>3 DEF DeviceFails, ConsoleFailsAfter, ConsoleFailsBefore,
     ConsoleIsClosed, SerialFails, device_vars
-----------------------------------------------------------------------------
(* The adapter.                                                            *)

LEMMA AdapterTypes ==
  ASSUME PipelineInv
  PROVE  /\ Len(buffer) \in Nat /\ written \in 0..Len(buffer)
         /\ Len(delivered) \in Nat /\ acknowledged \in Nat /\ accepted \in Nat
         /\ Len(Unsent) = Len(buffer) - written
         /\ taken \in Nat
  BY BufferedSinkAssumption, LenProperties, UnsentProperties
  DEF PipelineInv, Inv, TypeOK, TakenIsDraining

\* The character NewlineSink is at is the next one after those it was given.
LEMMA AtIsNext ==
  ASSUME PipelineInv, Draining, written + taken < Len(buffer)
  PROVE  At = Len(delivered) + taken + 1
<1>1. written + taken + 1 \in (written + 1)..Len(buffer)
  BY AdapterTypes
<1>2. At = Len(delivered) + ((written + taken + 1) - written)
  BY <1>1 DEF At, PipelineInv, Inv, ExactlyOnceInOrder
<1>. QED
  BY <1>2, AdapterTypes

LEMMA TakenBelow ==
  ASSUME PipelineInv, Draining
  PROVE  written + taken < Len(buffer)
  BY AdapterTypes DEF PipelineInv, TakenIsDraining, Draining

\* What the sink is given when it takes n bytes.
LEMMA TakesStep ==
  ASSUME PipelineInv, NEW n \in 1..(Len(buffer) - written), SinkTakes(n),
         taken' = 0, wide' \in Seq(Int), screen' \in Seq(Int), UNCHANGED device
  PROVE  /\ PipelineInv' /\ Len(delivered') = Len(delivered) + n
         /\ UNCHANGED <<buffer, op>> /\ phase = "Drain"
<1>1. Inv' /\ Len(delivered') = Len(delivered) + n
  BY SinkTakesInv, SinkTakesDelivers DEF PipelineInv
<1>2. UNCHANGED <<buffer, op>> /\ phase = "Drain"
  BY DEF SinkTakes, Draining
<1>. QED
  BY <1>1, <1>2 DEF PipelineInv, TakenIsDraining

\* The operation of the adapter returns.
LEMMA StopsStep ==
  ASSUME PipelineInv, SinkStops, taken' = 0,
         wide' \in Seq(Int), screen' \in Seq(Int), UNCHANGED device
  PROVE  PipelineInv' /\ UNCHANGED delivered /\ op' = "None"
         /\ (op = "Flush" => result' = "Failure")
<1>1. Inv'
  BY SinkStopsInv DEF PipelineInv
<1>2. UNCHANGED delivered /\ op' = "None" /\ (op = "Flush" => result' = "Failure")
  BY DEF SinkStops, Return, PipelineInv, Inv, Control
<1>. QED
  BY <1>1, <1>2 DEF PipelineInv, TakenIsDraining

\* What a step of the pipeline does to the parts that the context is about.
PipelineStep ==
  /\ PipelineInv'
  /\ UNCHANGED <<device, attached>>
  /\ device = "Console" /\ ~attached => wide' = <<>>
  /\ (\A n \in 1..(Len(delivered) + taken) : Has(n))
       => \A n \in 1..(Len(delivered') + taken') : Has(n)'
  /\ op = "Flush" => op' \in {"Flush", "None"}
  /\ op = "Flush" /\ op' = "None" /\ result' = "Ok" => buffer' = <<>> /\ wide' = <<>>
  /\ op # "Write" /\ buffer = <<>> /\ wide = <<>> =>
       op' = "Write" \/ (op' \in {"None", "Flush"} /\ buffer' = <<>> /\ wide' = <<>>)

LEMMA PipelineKeeps ==
  ASSUME PipelineInv, ContextsAgree, PipelineNext
  PROVE  PipelineStep
<1> USE DEF newline_vars, device_vars
<1>0. /\ wide \in Seq(Int) /\ screen \in Seq(Int) /\ device \in {"Console", "Serial"}
      /\ UNCHANGED <<device, attached>> /\ Inv
      /\ device = "Console" /\ ~attached => wide = <<>>
  BY DEF PipelineInv, PipelineNext, ContextsAgree
<1>1. CASE (WriteSome \/ Flush) /\ UNCHANGED <<newline_vars, device_vars>>
  <2>1. Inv' /\ op = "None" /\ op' \in {"Write", "Flush"} /\ UNCHANGED <<buffer, delivered>>
    BY <1>0, <1>1, BeginInv DEF WriteSome, Flush, Begin
  <2>2. taken = 0
    BY <1>0, <2>1, AdapterTypes DEF PipelineInv, TakenIsDraining, Draining, Inv, Control
  <2>. QED
    BY <1>0, <1>1, <2>1, <2>2 DEF PipelineStep, PipelineInv, TakenIsDraining, Has
<1>2. CASE Copy /\ UNCHANGED <<newline_vars, device_vars>>
  <2>1. Inv' /\ op = "Write" /\ op' \in {"Write", "None"} /\ UNCHANGED delivered
    BY <1>0, <1>2, CopyInv DEF Copy, Return
  <2>2. taken = 0
    BY <1>2, AdapterTypes DEF PipelineInv, TakenIsDraining, Draining, Copy
  <2>. QED
    BY <1>0, <1>2, <2>1, <2>2 DEF PipelineStep, PipelineInv, TakenIsDraining, Has
<1>3. CASE Drained /\ UNCHANGED <<newline_vars, device_vars>>
  <2>1. Inv' /\ op' = op /\ buffer' = <<>> /\ UNCHANGED delivered
    BY <1>0, <1>3, DrainedInv DEF Drained
  <2>2. taken = 0
    BY <1>3, AdapterTypes DEF PipelineInv, TakenIsDraining, Draining, Drained
  <2>3. op = "None" => phase = "Copy"
    BY DEF PipelineInv, Inv, Control
  <2>. QED
    BY <1>0, <1>3, <2>1, <2>2, <2>3
    DEF PipelineStep, PipelineInv, TakenIsDraining, Has, Drained
<1>4. CASE InsertCR
  <2>1. Draining /\ DeviceAccepts(-At) /\ UNCHANGED <<taken, buffered_vars>>
    BY <1>4 DEF InsertCR
  <2>2. At \in Nat
    BY <2>1, AtIsNext, TakenBelow, AdapterTypes
  <2>3. PICK c \in Int : c = -At
    BY <2>2
  <2>4. /\ wide' \in Seq(Int) /\ screen' \in Seq(Int)
        /\ \A n : Has(n) => Has(n)'
        /\ device = "Console" /\ ~attached => wide' = <<>>
    BY <1>0, <2>1, <2>3, AcceptsShows
  <2>5. Inv' /\ UNCHANGED <<buffer, written, phase, delivered, op>>
    BY <1>0, <2>1, NextInv DEF buffered_vars, vars
  <2>6. buffer # <<>> /\ op \in {"Write", "Flush"}
    BY <1>0, <2>1, Empty, AdapterTypes DEF Draining, PipelineInv, Inv, Control
  <2>. QED
    BY <1>0, <2>1, <2>4, <2>5, <2>6
    DEF PipelineStep, PipelineInv, TakenIsDraining, Draining
<1>5. CASE PassOn
  <2>1. Draining /\ DeviceAccepts(At)
    BY <1>5 DEF PassOn
  <2>2. written + taken < Len(buffer) /\ At = Len(delivered) + taken + 1
    BY <2>1, AtIsNext, TakenBelow
  <2>3. PICK c \in Int : c = Len(delivered) + taken + 1 /\ DeviceAccepts(c)
    BY <2>1, <2>2, AdapterTypes
  <2>4. /\ wide' \in Seq(Int) /\ screen' \in Seq(Int)
        /\ Has(c)' /\ \A n : Has(n) => Has(n)'
        /\ device = "Console" /\ ~attached => wide' = <<>>
    BY <1>0, <2>3, AcceptsShows
  <2>5. buffer # <<>> /\ op \in {"Write", "Flush"}
    BY <1>0, <2>1, Empty, AdapterTypes DEF Draining, PipelineInv, Inv, Control
  <2>6. CASE taken' = 0 /\ SinkTakes(taken + 1)
    <3>1. taken + 1 \in 1..(Len(buffer) - written)
      BY <2>2, AdapterTypes
    <3>2. PICK m \in 1..(Len(buffer) - written) : m = taken + 1 /\ SinkTakes(m)
      BY <2>6, <3>1
    <3>3. /\ PipelineInv' /\ Len(delivered') = Len(delivered) + m
          /\ UNCHANGED <<buffer, op>>
      BY <1>0, <2>4, <2>6, <3>2, TakesStep
    <3>4. Len(delivered') + taken' = c
      BY <2>3, <2>6, <3>2, <3>3, AdapterTypes
    <3>5. ASSUME \A n \in 1..(Len(delivered) + taken) : Has(n)
          PROVE  \A n \in 1..c : Has(n)'
      <4>1. \A n \in 1..c : n \in 1..(Len(delivered) + taken) \/ n = c
        BY <2>3, AdapterTypes
      <4>. QED
        BY <2>4, <3>5, <4>1
    <3>. QED
      BY <1>0, <2>4, <2>5, <3>3, <3>4, <3>5 DEF PipelineStep
  <2>7. CASE taken + 1 < Len(Unsent) /\ taken' = taken + 1 /\ UNCHANGED buffered_vars
    <3>1. Inv' /\ UNCHANGED <<buffer, written, phase, delivered, op>>
      BY <1>0, <2>7, NextInv DEF buffered_vars, vars
    <3>2. /\ Len(delivered') + taken' = c
          /\ taken' \in Nat /\ written + taken' < Len(buffer)
      <4>1. /\ Len(delivered') = Len(delivered) /\ written' = written
            /\ Len(buffer') = Len(buffer) /\ taken' = taken + 1
            /\ taken + 1 < Len(buffer) - written
        BY <2>7, <3>1, AdapterTypes
      <4>. QED
        BY <2>3, <4>1, AdapterTypes
    <3>3. PipelineInv'
      BY <1>0, <2>1, <2>4, <2>5, <3>1, <3>2 DEF PipelineInv, TakenIsDraining, Draining
    <3>4. ASSUME \A n \in 1..(Len(delivered) + taken) : Has(n)
          PROVE  \A n \in 1..c : Has(n)'
      <4>1. \A n \in 1..c : n \in 1..(Len(delivered) + taken) \/ n = c
        BY <2>3, AdapterTypes
      <4>. QED
        BY <2>4, <3>4, <4>1
    <3>. QED
      BY <1>0, <2>4, <2>5, <3>1, <3>2, <3>3, <3>4 DEF PipelineStep
  <2>. QED
    BY <1>5, <2>6, <2>7 DEF PassOn
<1>6. CASE WriteFails
  <2>1. /\ Draining /\ taken' = 0
        /\ \/ SinkTakes(taken) /\ taken > 0
           \/ SinkStops /\ taken = 0
    BY <1>6, Zenon DEF WriteFails
  <2>2. At = Len(delivered) + taken + 1 /\ written + taken < Len(buffer)
    BY <2>1, AtIsNext, TakenBelow
  <2>3. PICK c \in Int : DeviceFails(c)
    <3>1. At \in Int /\ -At \in Int
      BY <2>2, AdapterTypes
    <3>. QED
      BY <1>6, <3>1 DEF WriteFails
  <2>4. /\ wide' \in Seq(Int) /\ screen' \in Seq(Int)
        /\ \A n : Has(n) => Has(n)'
        /\ device = "Console" /\ ~attached => wide' = <<>>
    BY <1>0, <2>3, FailsKeeps
  <2>5. buffer # <<>> /\ op \in {"Write", "Flush"}
    BY <1>0, <2>1, Empty, AdapterTypes DEF Draining, PipelineInv, Inv, Control
  <2>6. CASE SinkTakes(taken) /\ taken > 0
    <3>1. PICK m \in 1..(Len(buffer) - written) : m = taken /\ SinkTakes(m)
      BY <2>2, <2>6, AdapterTypes
    <3>2. /\ PipelineInv' /\ Len(delivered') = Len(delivered) + m
          /\ UNCHANGED <<buffer, op>>
      BY <1>0, <2>1, <2>4, <3>1, TakesStep
    <3>3. Len(delivered') + taken' = Len(delivered) + taken
      BY <2>1, <3>1, <3>2, AdapterTypes
    <3>. QED
      BY <1>0, <2>4, <2>5, <3>2, <3>3 DEF PipelineStep
  <2>7. CASE SinkStops /\ taken = 0
    <3>1. /\ PipelineInv' /\ UNCHANGED delivered /\ op' = "None"
          /\ (op = "Flush" => result' = "Failure")
      BY <1>0, <2>1, <2>4, <2>7, StopsStep
    <3>. QED
      BY <1>0, <2>1, <2>4, <2>5, <2>7, <3>1 DEF PipelineStep
  <2>. QED
    BY <2>1, <2>6, <2>7
<1>7. CASE FlushDevice
  <2>1. /\ SinkFlush /\ UNCHANGED taken
        /\ \/ result' = "Ok" /\ screen' = screen \o wide /\ wide' = <<>>
           \/ result' = "Failure" /\ wide # <<>> /\ UNCHANGED <<wide, screen>>
    BY <1>7 DEF FlushDevice
  <2>2. /\ Inv' /\ op = "Flush" /\ op' = "None" /\ buffer = <<>> /\ buffer' = <<>>
        /\ UNCHANGED delivered /\ taken = 0
    <3>1. op = "Flush" /\ phase = "SinkFlush" /\ buffer = <<>> /\ Inv'
      BY <1>0, <2>1, SinkFlushCloseInv DEF SinkFlush, PipelineInv, Inv, Control
    <3>2. taken = 0
      BY <3>1, AdapterTypes DEF PipelineInv, TakenIsDraining, Draining
    <3>. QED
      BY <2>1, <3>1, <3>2 DEF SinkFlush, Return
  <2>3. wide' \in Seq(Int) /\ screen' \in Seq(Int) /\ \A n : Has(n) => Has(n)'
    <3>1. /\ screen \o wide \in Seq(Int)
          /\ \A n : In(n, screen \o wide) <=> In(n, screen) \/ In(n, wide)
      BY <1>0, InConcat
    <3>. QED
      BY <1>0, <2>1, <3>1, InEmpty DEF Has
  <2>. QED
    BY <1>0, <2>1, <2>2, <2>3 DEF PipelineStep, PipelineInv, TakenIsDraining
<1>. QED
  BY <1>1, <1>2, <1>3, <1>4, <1>5, <1>6, <1>7 DEF PipelineNext
-----------------------------------------------------------------------------
(* The order of the output.                                                *)

\* How many characters NewlineSink has passed on.
Passed == Len(delivered) + taken

\* More may be put out: once a console has been detached, nothing is.
Live == device = "Serial" \/ attached \/ systemTable = None

\* Whether the device must not show a character twice.
Exact == device = "Serial" \/ failures = 0

LastOut == Output[Len(Output)]

\* The output ends with the last character passed on, or with the next one,
\* after a failure or with a carriage return before it.
Reached ==
  IF Output = <<>> THEN Passed = 0
  ELSE CharacterOf(LastOut) \in {Passed, Passed + 1}

NoneAhead ==
  \A i \in 1..Len(Output) :
    /\ CharacterOf(Output[i]) <= Passed + 1
    /\ Exact => Output[i] <= Passed
    /\ failures = 0 /\ ~crWritten => CharacterOf(Output[i]) <= Passed

LastExact ==
  Exact => IF Output = <<>> THEN Passed = 0 ELSE LastOut \in {Passed, -(Passed + 1)}

InsertedIsLast == crWritten => Output # <<>> /\ LastOut = -(Passed + 1)

DeviceInv ==
  /\ wide \in Seq(Int) /\ screen \in Seq(Int)
  /\ device \in {"Console", "Serial"}
  /\ device = "Serial" => wide = <<>>
  /\ failures \in Nat

OrderInv ==
  /\ DeviceInv
  /\ Passed \in Nat
  /\ crWritten \in BOOLEAN /\ previousCR \in BOOLEAN
  /\ previousCR => Passed > 0 /\ text[Passed] = "CR"
  /\ crWritten => Draining /\ (device = "Serial" \/ attached)
  /\ OutputInOrder
  /\ RepeatsOnlyAfterFailure
  /\ Live => Reached /\ NoneAhead /\ LastExact /\ InsertedIsLast

\* The output has c more at its end.
Appended(c) ==
  /\ Len(Output') = Len(Output) + 1
  /\ \A i \in 1..Len(Output) : Output'[i] = Output[i]
  /\ Output'[Len(Output) + 1] = c

LEMMA IntConcat ==
  ASSUME NEW s \in Seq(Int), NEW t \in Seq(Int)
  PROVE  /\ s \o t \in Seq(Int) /\ Len(s \o t) = Len(s) + Len(t)
         /\ \A i \in 1..(Len(s) + Len(t)) :
              (s \o t)[i] = IF i <= Len(s) THEN s[i] ELSE t[i - Len(s)]
  BY ConcatProperties

LEMMA OutputLength ==
  ASSUME wide \in Seq(Int), screen \in Seq(Int)
  PROVE  /\ Output \in Seq(Int) /\ Len(Output) \in Nat
         /\ Len(Output) = Len(screen) + Len(wide)
         /\ \A i \in 1..Len(Output) :
              /\ Output[i] \in Int
              /\ Output[i] = IF i <= Len(screen) THEN screen[i] ELSE wide[i - Len(screen)]
         /\ Output = <<>> <=> Len(Output) = 0
         /\ wide = <<>> => Output = screen
<1>1. /\ Output \in Seq(Int) /\ Len(Output) \in Nat
      /\ Len(Output) = Len(screen) + Len(wide)
      /\ \A i \in 1..(Len(screen) + Len(wide)) :
           Output[i] = IF i <= Len(screen) THEN screen[i] ELSE wide[i - Len(screen)]
  BY ConcatProperties, LenProperties DEF Output
<1>2. \A i \in 1..Len(Output) : Output[i] \in Int
  BY <1>1, ElementOfSeq
<1>3. wide = <<>> => Output = screen
  BY ConcatEmptySeq DEF Output
<1>. QED
  BY <1>1, <1>2, <1>3, EmptySeq

LEMMA AcceptsAppends ==
  ASSUME DeviceInv, NEW c \in Int, DeviceAccepts(c), UNCHANGED device
  PROVE  /\ DeviceInv' /\ Appended(c) /\ UNCHANGED failures
         /\ device = "Serial" \/ attached
<1> USE DEF DeviceInv
<1>0. /\ Len(Output) = Len(screen) + Len(wide)
      /\ \A i \in 1..Len(Output) :
           Output[i] = IF i <= Len(screen) THEN screen[i] ELSE wide[i - Len(screen)]
      /\ Len(Output) \in Nat /\ Len(screen) \in Nat /\ Len(wide) \in Nat
  BY OutputLength, LenProperties
<1>1. CASE device = "Console" /\ attached /\ ConsoleAccepts(c)
  <2>1. /\ Append(wide, c) \in Seq(Int) /\ Len(Append(wide, c)) = Len(wide) + 1
        /\ \A i \in 1..Len(wide) : Append(wide, c)[i] = wide[i]
        /\ Append(wide, c)[Len(wide) + 1] = c
        /\ Len(wide) \in Nat /\ Len(screen) \in Nat
    BY AppendProperties, LenProperties
  <2>2. /\ screen' \in Seq(Int) /\ Len(screen') = Len(screen) + (Len(wide) + 1)
        /\ \A i \in 1..(Len(screen) + (Len(wide) + 1)) :
             screen'[i] = IF i <= Len(screen) THEN screen[i]
                          ELSE Append(wide, c)[i - Len(screen)]
    <3>1. PICK t \in Seq(Int) : t = Append(wide, c)
      BY <2>1
    <3>2. screen' = screen \o t /\ screen \in Seq(Int)
      BY <1>1, <3>1 DEF ConsoleAccepts
    <3>3. /\ screen \o t \in Seq(Int) /\ Len(screen \o t) = Len(screen) + Len(t)
          /\ \A i \in 1..(Len(screen) + Len(t)) :
               (screen \o t)[i] = IF i <= Len(screen) THEN screen[i] ELSE t[i - Len(screen)]
      BY <3>2, IntConcat
    <3>4. Len(t) = Len(wide) + 1
      BY <2>1, <3>1
    <3>. QED
      BY <3>1, <3>2, <3>3, <3>4
  <2>3. wide' = <<>> /\ wide' \in Seq(Int) /\ failures' = failures
    BY <1>1 DEF ConsoleAccepts
  <2>4. Output' = screen'
    BY <2>2, <2>3, ConcatEmptySeq DEF Output
  <2>5. Appended(c)
    <3>1. Len(Output') = Len(Output) + 1
      BY <2>1, <2>2, <2>4, <1>0
    <3>2. ASSUME NEW i \in 1..Len(Output) PROVE Output'[i] = Output[i]
      <4>0. i \in 1..(Len(screen) + (Len(wide) + 1)) /\ Output'[i] = screen'[i]
        BY <1>0, <2>4
      <4>1. CASE i <= Len(screen)
        <5>1. screen'[i] = screen[i] /\ Output[i] = screen[i]
          BY <1>0, <2>2, <4>0, <4>1
        <5>. QED
          BY <4>0, <5>1
      <4>2. CASE i > Len(screen)
        <5>1. i - Len(screen) \in 1..Len(wide)
          BY <1>0, <4>2
        <5>2. screen'[i] = Append(wide, c)[i - Len(screen)] /\ Output[i] = wide[i - Len(screen)]
          <6>1. ~(i <= Len(screen))
            BY <1>0, <4>2
          <6>. QED
            BY <1>0, <2>2, <4>0, <6>1
        <5>. QED
          BY <2>1, <2>4, <5>1, <5>2
      <4>. QED
        BY <2>1, <4>1, <4>2
    <3>3. Output'[Len(Output) + 1] = c
      <4>1. /\ Len(Output) + 1 = Len(screen) + (Len(wide) + 1)
            /\ (Len(Output) + 1) - Len(screen) = Len(wide) + 1
            /\ ~(Len(Output) + 1 <= Len(screen))
        BY <2>1, <1>0
      <4>2. Len(Output) + 1 \in 1..(Len(screen) + (Len(wide) + 1))
        BY <2>1, <4>1
      <4>. QED
        BY <2>1, <2>2, <2>4, <4>1, <4>2
    <3>. QED
      BY <3>1, <3>2, <3>3 DEF Appended
  <2>. QED
    BY <1>1, <2>2, <2>3, <2>5
<1>2. CASE device = "Serial" /\ SerialAccepts(c)
  <2>1. /\ Append(screen, c) \in Seq(Int) /\ Len(Append(screen, c)) = Len(screen) + 1
        /\ \A i \in 1..Len(screen) : Append(screen, c)[i] = screen[i]
        /\ Append(screen, c)[Len(screen) + 1] = c
    BY AppendProperties
  <2>2. screen' = Append(screen, c) /\ wide' = wide /\ wide = <<>> /\ failures' = failures
    BY <1>2 DEF SerialAccepts
  <2>3. Output' = screen' /\ Output = screen
    BY <2>1, <2>2, ConcatEmptySeq DEF Output
  <2>. QED
    BY <1>2, <2>1, <2>2, <2>3 DEF Appended
<1>. QED
  BY <1>1, <1>2 DEF DeviceAccepts

LEMMA FailsAppends ==
  ASSUME DeviceInv, NEW c \in Int, DeviceFails(c), UNCHANGED device
  PROVE  /\ DeviceInv'
         /\ \/ Output' = Output /\ failures' > 0
            \/ device = "Console" /\ ~attached /\ UNCHANGED <<Output, failures>>
            \/ device = "Console" /\ attached /\ Appended(c) /\ failures' > 0
<1> USE DEF DeviceInv
<1>0. /\ Len(Output) = Len(screen) + Len(wide)
      /\ \A i \in 1..Len(Output) :
           Output[i] = IF i <= Len(screen) THEN screen[i] ELSE wide[i - Len(screen)]
      /\ Len(Output) \in Nat /\ Len(screen) \in Nat /\ Len(wide) \in Nat
  BY OutputLength, LenProperties
<1>1. CASE device = "Console" /\ attached /\ ConsoleFailsAfter(c)
  <2>1. failures' \in Nat /\ failures' > 0
    BY <1>1 DEF ConsoleFailsAfter, FailOnce
  <2>2. Len(wide) \in Nat /\ Len(screen) \in Nat
    BY LenProperties
  <2>3. CASE wide' = Append(wide, c) /\ screen' = screen
    <3>1. /\ Append(wide, c) \in Seq(Int) /\ Len(Append(wide, c)) = Len(wide) + 1
          /\ \A i \in 1..Len(wide) : Append(wide, c)[i] = wide[i]
          /\ Append(wide, c)[Len(wide) + 1] = c
      BY AppendProperties
    <3>2. /\ Len(Output') = Len(screen) + (Len(wide) + 1)
          /\ \A i \in 1..(Len(screen) + (Len(wide) + 1)) :
               Output'[i] = IF i <= Len(screen) THEN screen[i]
                            ELSE Append(wide, c)[i - Len(screen)]
      <4>1. PICK t \in Seq(Int) : t = Append(wide, c)
        BY <3>1
      <4>2. Output' = screen \o t /\ screen \in Seq(Int)
        BY <2>3, <4>1 DEF Output
      <4>. QED
        BY <3>1, <4>1, <4>2, IntConcat
    <3>3. ASSUME NEW i \in 1..Len(Output) PROVE Output'[i] = Output[i]
      <4>1. CASE i <= Len(screen)
        BY <2>2, <3>2, <4>1, <1>0
      <4>2. CASE i > Len(screen)
        <5>1. i - Len(screen) \in 1..Len(wide)
          BY <2>2, <4>2, <1>0
        <5>2. /\ Output'[i] = Append(wide, c)[i - Len(screen)]
              /\ Output[i] = wide[i - Len(screen)]
          BY <2>2, <3>2, <4>2, <1>0
        <5>. QED
          BY <3>1, <5>1, <5>2
      <4>. QED
        BY <2>2, <4>1, <4>2
    <3>4. Output'[Len(Output) + 1] = c
      <4>1. /\ Len(Output) + 1 = Len(screen) + (Len(wide) + 1)
            /\ (Len(Output) + 1) - Len(screen) = Len(wide) + 1
            /\ ~(Len(Output) + 1 <= Len(screen))
            /\ Len(Output) + 1 \in 1..(Len(screen) + (Len(wide) + 1))
        BY <2>2, <1>0
      <4>. QED
        BY <3>1, <3>2, <4>1
    <3>5. Len(Output') = Len(Output) + 1
      BY <2>2, <3>2, <1>0
    <3>. QED
      BY <1>1, <2>1, <2>3, <3>1, <3>3, <3>4, <3>5 DEF Appended
  <2>4. CASE wide' = <<c>> /\ screen' = screen \o wide
    <3>1. /\ screen' = Output /\ screen' \in Seq(Int) /\ wide' \in Seq(Int)
          /\ Output' = Output \o <<c>>
      BY <2>4, OutputLength DEF Output
    <3>2. /\ Len(Output') = Len(Output) + 1
          /\ \A i \in 1..(Len(Output) + 1) :
               Output'[i] = IF i <= Len(Output) THEN Output[i] ELSE <<c>>[i - Len(Output)]
      <4>1. <<c>> \in Seq(Int) /\ Len(<<c>>) = 1
        OBVIOUS
      <4>. QED
        BY <3>1, <4>1, OutputLength, ConcatProperties
    <3>3. Appended(c)
      <4>1. /\ Len(Output) + 1 \in 1..(Len(Output) + 1)
            /\ ~(Len(Output) + 1 <= Len(Output)) /\ (Len(Output) + 1) - Len(Output) = 1
            /\ \A i \in 1..Len(Output) : i \in 1..(Len(Output) + 1) /\ i <= Len(Output)
        BY <1>0
      <4>2. Output'[Len(Output) + 1] = c
        BY <3>2, <4>1
      <4>. QED
        BY <3>2, <4>1, <4>2 DEF Appended
    <3>. QED
      BY <1>1, <2>1, <3>1, <3>3
  <2>. QED
    BY <1>1, <2>3, <2>4 DEF ConsoleFailsAfter
<1>2. CASE FailOnce /\ UNCHANGED <<wide, screen>>
  BY <1>2 DEF FailOnce, Output
<1>3. CASE device = "Console" /\ ConsoleIsClosed
  BY <1>3 DEF ConsoleIsClosed, device_vars, Output
<1>. QED
  BY <1>1, <1>2, <1>3 DEF DeviceFails, ConsoleFailsBefore, SerialFails

LEMMA SameOrder ==
  ASSUME OrderInv, DeviceInv', UNCHANGED <<Output, Passed, device, text, previousCR>>,
         Live' => Live, crWritten' \in BOOLEAN,
         failures' = failures \/ failures' > 0,
         crWritten' => crWritten /\ Draining' /\ (device = "Serial" \/ attached'),
         crWritten /\ ~crWritten' => failures' > 0
  PROVE  OrderInv'
<1>1. failures' = 0 => failures = 0
  BY DEF DeviceInv
<1>2. Exact' => Exact
  BY <1>1 DEF Exact
<1>3. OutputInOrder'
  BY <1>1 DEF OutputInOrder, NoneSkipped, LineFeedAfterCR, IsCR, OrderInv
<1>4. RepeatsOnlyAfterFailure'
  BY <1>1 DEF RepeatsOnlyAfterFailure, OrderInv, DeviceInv
<1>5. ASSUME Live' PROVE Reached' /\ NoneAhead' /\ LastExact' /\ InsertedIsLast'
  <2>1. Reached /\ NoneAhead /\ LastExact /\ InsertedIsLast
    BY <1>5 DEF OrderInv
  <2>. QED
    BY <1>1, <1>2, <2>1 DEF Reached, NoneAhead, LastExact, InsertedIsLast, LastOut, DeviceInv
<1>. QED
  BY <1>3, <1>4, <1>5 DEF OrderInv

\* One more at the end of the output: the next character, or the carriage
\* return before it.
LEMMA AppendedInOrder ==
  ASSUME OrderInv, DeviceInv', NEW c \in Int, Appended(c), Live,
         UNCHANGED <<device, text>>, c \in {Passed + 1, -(Passed + 1)},
         failures' = failures \/ failures' > 0,
         device = "Serial" \/ failures' = 0 =>
           /\ Exact
           /\ c > 0 /\ text[c] = "LF" => previousCR \/ crWritten
           /\ failures' = 0 => ~(crWritten /\ c < 0)
  PROVE  OutputInOrder' /\ RepeatsOnlyAfterFailure'
<1>0. /\ Reached /\ NoneAhead /\ LastExact /\ InsertedIsLast
      /\ Passed \in Nat /\ Len(Output) \in Nat
      /\ \A i \in 1..Len(Output) : Output[i] \in Int
      /\ Output = <<>> <=> Len(Output) = 0
      /\ NoneSkipped /\ LineFeedAfterCR /\ RepeatsOnlyAfterFailure
      /\ failures \in Nat /\ failures' \in Nat
  BY OutputLength DEF OrderInv, OutputInOrder, DeviceInv
<1>1. /\ Len(Output') = Len(Output) + 1
      /\ \A i \in 1..Len(Output) : Output'[i] = Output[i]
      /\ Output'[Len(Output) + 1] = c
      /\ Output' # <<>>
      /\ \A i \in 1..Len(Output') : i \in 1..Len(Output) \/ i = Len(Output) + 1
  <2>1. /\ Len(Output') = Len(Output) + 1
        /\ \A i \in 1..Len(Output) : Output'[i] = Output[i]
        /\ Output'[Len(Output) + 1] = c
    BY DEF Appended
  <2>2. Output' # <<>>
    BY <1>0, <2>1
  <2>3. \A i \in 1..Len(Output') : i \in 1..Len(Output) \/ i = Len(Output) + 1
    BY <1>0, <2>1
  <2>. QED
    BY <2>1, <2>2, <2>3
<1>2. CharacterOf(c) = Passed + 1
  BY <1>0 DEF CharacterOf
<1>3. NoneSkipped'
  <2>1. CharacterOf(Output'[1]) = 1
    <3>1. CASE Output = <<>>
      BY <1>0, <1>1, <1>2, <3>1 DEF Reached
    <3>2. CASE Output # <<>>
      <4>1. 1 \in 1..Len(Output)
        BY <1>0, <3>2
      <4>. QED
        BY <1>0, <1>1, <3>2, <4>1 DEF NoneSkipped
    <3>. QED
      BY <3>1, <3>2
  <2>2. ASSUME NEW i \in 1..(Len(Output') - 1)
        PROVE  CharacterOf(Output'[i + 1]) - CharacterOf(Output'[i]) \in {0, 1}
    <3>1. i \in 1..Len(Output) /\ Output'[i] = Output[i]
      BY <1>0, <1>1
    <3>2. CASE i = Len(Output)
      <4>1. Output # <<>> /\ Output'[i + 1] = c /\ Output[i] = LastOut
        BY <1>0, <1>1, <3>1, <3>2 DEF LastOut
      <4>2. CharacterOf(LastOut) \in {Passed, Passed + 1}
        BY <1>0, <4>1 DEF Reached
      <4>. QED
        BY <1>0, <1>2, <3>1, <4>1, <4>2
    <3>3. CASE i # Len(Output)
      <4>1. i \in 1..(Len(Output) - 1) /\ i + 1 \in 1..Len(Output)
        BY <1>0, <3>1, <3>3
      <4>. QED
        BY <1>0, <1>1, <3>1, <4>1 DEF NoneSkipped
    <3>. QED
      BY <3>2, <3>3
  <2>. QED
    BY <2>1, <2>2 DEF NoneSkipped
<1>4. LineFeedAfterCR'
  <2> SUFFICES ASSUME device = "Serial" \/ failures' = 0, NEW i \in 1..Len(Output'),
                      Output'[i] > 0, text[Output'[i]] = "LF"
               PROVE  i > 1 /\ IsCR(Output[i - 1])'
    BY DEF LineFeedAfterCR
  <2>1. CASE i \in 1..Len(Output)
    <3>1. i > 1 /\ IsCR(Output[i - 1])
      BY <1>0, <1>1, <2>1 DEF LineFeedAfterCR, Exact
    <3>2. i - 1 \in 1..Len(Output)
      BY <1>0, <2>1, <3>1
    <3>. QED
      BY <1>1, <3>1, <3>2 DEF IsCR
  <2>2. CASE i = Len(Output) + 1
    <3>1. Exact /\ c > 0 /\ text[c] = "LF" /\ (previousCR \/ crWritten)
      BY <1>1, <2>2
    <3>2. Output # <<>>
      BY <1>0, <3>1 DEF LastExact, InsertedIsLast, OrderInv
    <3>3. LastOut \in {Passed, -(Passed + 1)} /\ (crWritten => LastOut = -(Passed + 1))
      BY <1>0, <3>1, <3>2 DEF LastExact, InsertedIsLast
    <3>4. IsCR(LastOut)
      <4>1. CASE LastOut = -(Passed + 1)
        BY <1>0, <4>1 DEF IsCR
      <4>2. CASE LastOut # -(Passed + 1)
        BY <3>1, <3>3, <4>2 DEF IsCR, OrderInv
      <4>. QED
        BY <4>1, <4>2
    <3>5. i > 1 /\ i - 1 \in 1..Len(Output) /\ Output'[i - 1] = LastOut
      BY <1>0, <1>1, <2>2, <3>2 DEF LastOut
    <3>. QED
      BY <3>4, <3>5 DEF IsCR
  <2>. QED
    BY <1>1, <2>1, <2>2
<1>5. ASSUME NEW k \in 1..Len(Output), Output[k] = c
      PROVE  failures' > 0 /\ (device = "Serial" => c < 0)
  <2>1. /\ CharacterOf(c) <= Passed + 1 /\ (Exact => c <= Passed)
        /\ failures = 0 /\ ~crWritten => CharacterOf(c) <= Passed
    BY <1>0, <1>5 DEF NoneAhead
  <2>2. Exact => c < 0
    BY <1>0, <2>1
  <2>3. failures' > 0
    <3> SUFFICES ASSUME failures' = 0 PROVE FALSE
      BY <1>0
    <3>1. failures = 0 /\ Exact
      BY <1>0 DEF Exact
    <3>. QED
      BY <1>0, <1>2, <2>1, <2>2, <3>1
  <2>. QED
    BY <2>2, <2>3
<1>6. RepeatsOnlyAfterFailure'
  <2> SUFFICES ASSUME NEW i \in 1..Len(Output'), NEW j \in 1..Len(Output'),
                      i # j, Output'[i] = Output'[j]
               PROVE  failures' > 0 /\ (device = "Serial" => Output'[i] < 0)
    BY DEF RepeatsOnlyAfterFailure
  <2>1. CASE i \in 1..Len(Output) /\ j \in 1..Len(Output)
    BY <1>0, <1>1, <2>1 DEF RepeatsOnlyAfterFailure
  <2>2. CASE i \in 1..Len(Output) /\ j = Len(Output) + 1
    BY <1>1, <1>5, <2>2
  <2>3. CASE i = Len(Output) + 1 /\ j \in 1..Len(Output)
    BY <1>1, <1>5, <2>3
  <2>. QED
    BY <1>1, <2>1, <2>2, <2>3
<1>. QED
  BY <1>3, <1>4, <1>6 DEF OutputInOrder

\* The three ways the output grows: an inserted carriage return, a character
\* passed on, and one that stays in the wide buffer when showing it failed.
Inserted == /\ Appended(-(Passed + 1)) /\ ~crWritten /\ crWritten' = TRUE
            /\ UNCHANGED <<Passed, previousCR, failures, attached>>
            /\ Draining' /\ (device = "Serial" \/ attached)

PassedOn == /\ Appended(Passed + 1) /\ crWritten' = FALSE
            /\ text[Passed + 1] = "LF" => previousCR \/ crWritten
            /\ Passed' = Passed + 1
            /\ previousCR' = (text[Passed + 1] = "CR")
            /\ UNCHANGED failures

Kept == /\ device = "Console" /\ failures' > 0
        /\ Appended(Passed + 1) \/ Appended(-(Passed + 1))
        /\ crWritten' = FALSE
        /\ UNCHANGED <<Passed, previousCR>>

LEMMA GrownOrder ==
  ASSUME OrderInv, DeviceInv', Live, UNCHANGED <<device, text>>,
         Inserted \/ PassedOn \/ Kept
  PROVE  OrderInv'
<1>0. /\ Reached /\ NoneAhead /\ LastExact /\ InsertedIsLast
      /\ Passed \in Nat /\ Len(Output) \in Nat
      /\ \A i \in 1..Len(Output) : Output[i] \in Int
      /\ Output = <<>> <=> Len(Output) = 0
      /\ failures \in Nat /\ failures' \in Nat
  BY OutputLength DEF OrderInv, DeviceInv
<1>1. PICK c \in {Passed + 1, -(Passed + 1)} :
        /\ Appended(c)
        /\ \/ Inserted /\ c = -(Passed + 1)
           \/ PassedOn /\ c = Passed + 1
           \/ Kept
  BY DEF Inserted, PassedOn, Kept
<1>2. c \in Int
  BY <1>0
<1>3. CharacterOf(c) = Passed + 1
  BY <1>0 DEF CharacterOf
<1>4. OutputInOrder' /\ RepeatsOnlyAfterFailure'
  <2>1. failures' = failures \/ failures' > 0
    BY <1>1 DEF Inserted, PassedOn, Kept
  <2>2. ASSUME device = "Serial" \/ failures' = 0
        PROVE  /\ Exact
               /\ c > 0 /\ text[c] = "LF" => previousCR \/ crWritten
               /\ failures' = 0 => ~(crWritten /\ c < 0)
    <3>1. CASE Inserted /\ c = -(Passed + 1)
      BY <1>0, <2>2, <3>1 DEF Inserted, Exact
    <3>2. CASE PassedOn /\ c = Passed + 1
      BY <1>0, <2>2, <3>2 DEF PassedOn, Exact
    <3>. QED
      BY <1>1, <2>2, <3>1, <3>2 DEF Kept
  <2>. QED
    BY <1>1, <1>2, <2>1, <2>2, AppendedInOrder
<1>5. /\ Len(Output') = Len(Output) + 1
      /\ \A i \in 1..Len(Output) : Output'[i] = Output[i]
      /\ Output'[Len(Output) + 1] = c
      /\ \A i \in 1..Len(Output') : i \in 1..Len(Output) \/ i = Len(Output) + 1
  BY <1>0, <1>1 DEF Appended
<1>6. Output' # <<>> /\ LastOut' = c
  BY <1>0, <1>5 DEF LastOut
<1>7. Passed' \in Nat /\ Passed' \in {Passed, Passed + 1}
  BY <1>0, <1>1 DEF Inserted, PassedOn, Kept
<1>8. Reached'
  <2>1. CharacterOf(c) \in {Passed', Passed' + 1}
    BY <1>0, <1>3, <1>7
  <2>. QED
    BY <1>6, <2>1 DEF Reached, CharacterOf
<1>9. InsertedIsLast' /\ LastExact'
  <2>1. CASE Inserted /\ c = -(Passed + 1)
    BY <1>6, <2>1 DEF Inserted, InsertedIsLast, LastExact
  <2>2. CASE PassedOn /\ c = Passed + 1
    BY <1>6, <2>2 DEF PassedOn, InsertedIsLast, LastExact
  <2>3. CASE Kept
    BY <2>3 DEF Kept, InsertedIsLast, LastExact, Exact
  <2>. QED
    BY <1>1, <2>1, <2>2, <2>3
<1>10. NoneAhead'
  <2> SUFFICES ASSUME NEW i \in 1..Len(Output')
               PROVE  /\ CharacterOf(Output'[i]) <= Passed' + 1
                      /\ Exact' => Output'[i] <= Passed'
                      /\ failures' = 0 /\ ~crWritten' => CharacterOf(Output'[i]) <= Passed'
    BY DEF NoneAhead, CharacterOf
  <2>1. CASE i = Len(Output) + 1
    <3>1. Output'[i] = c
      BY <1>5, <2>1
    <3>2. CASE Inserted
      BY <1>0, <1>1, <1>3, <1>7, <3>1, <3>2 DEF Inserted, PassedOn, Kept
    <3>3. CASE PassedOn /\ c = Passed + 1
      BY <1>0, <1>3, <1>7, <3>1, <3>3 DEF PassedOn
    <3>4. CASE Kept
      BY <1>0, <1>3, <1>7, <3>1, <3>4 DEF Kept, Exact
    <3>. QED
      BY <1>1, <3>2, <3>3, <3>4
  <2>2. CASE i \in 1..Len(Output)
    <3>1. Output'[i] = Output[i] /\ Output[i] \in Int /\ CharacterOf(Output[i]) \in Int
      BY <1>0, <1>5, <2>2 DEF CharacterOf
    <3>2. /\ CharacterOf(Output[i]) <= Passed + 1
          /\ Exact => Output[i] <= Passed
          /\ failures = 0 /\ ~crWritten => CharacterOf(Output[i]) <= Passed
      BY <1>0, <2>2 DEF NoneAhead
    <3>3. CASE Inserted
      BY <1>0, <1>7, <3>1, <3>2, <3>3 DEF Inserted, Exact
    <3>4. CASE PassedOn
      BY <1>0, <1>7, <3>1, <3>2, <3>4 DEF PassedOn, Exact
    <3>5. CASE Kept
      BY <1>0, <1>7, <3>1, <3>2, <3>5 DEF Kept, Exact
    <3>. QED
      BY <1>1, <3>3, <3>4, <3>5
  <2>. QED
    BY <1>5, <2>1, <2>2
<1>11. /\ crWritten' \in BOOLEAN /\ previousCR' \in BOOLEAN
       /\ previousCR' => Passed' > 0 /\ text'[Passed'] = "CR"
       /\ crWritten' => Draining' /\ (device' = "Serial" \/ attached')
  <2>1. CASE Inserted
    BY <2>1 DEF Inserted, OrderInv
  <2>2. CASE PassedOn
    <3>1. /\ crWritten' \in BOOLEAN /\ previousCR' \in BOOLEAN /\ ~crWritten'
          /\ previousCR' => text'[Passed'] = "CR"
      BY <2>2, Zenon DEF PassedOn
    <3>2. Passed' > 0
      BY <1>0, <2>2 DEF PassedOn
    <3>. QED
      BY <3>1, <3>2, Zenon
  <2>3. CASE Kept
    BY <2>3 DEF Kept, OrderInv
  <2>. QED
    BY <2>1, <2>2, <2>3
<1>. QED
  BY <1>4, <1>7, <1>8, <1>9, <1>10, <1>11 DEF OrderInv

-----------------------------------------------------------------------------
\* A step of the pipeline keeps the output in order.
LEMMA PipelineOrder ==
  ASSUME PipelineInv, ContextsAgree, OrderInv, PipelineNext, UNCHANGED systemTable
  PROVE  OrderInv'
<1> USE DEF newline_vars, device_vars
<1>0. /\ PipelineInv' /\ UNCHANGED <<device, attached, text>>
      /\ DeviceInv /\ Passed \in Nat /\ Len(delivered) \in Nat /\ taken \in Nat
      /\ Live' = Live /\ crWritten \in BOOLEAN
      /\ crWritten => Draining /\ (device = "Serial" \/ attached)
  <2>1. PipelineInv' /\ UNCHANGED <<device, attached, text>>
    BY PipelineKeeps DEF PipelineStep, PipelineNext
  <2>. QED
    BY <2>1, AdapterTypes DEF OrderInv, Live
<1>1. ASSUME ~Draining, UNCHANGED <<newline_vars, device_vars, delivered>> PROVE OrderInv'
  <2>1. DeviceInv' /\ UNCHANGED <<Output, Passed>>
    BY <1>0, <1>1 DEF DeviceInv, Output, Passed
  <2>. QED
    BY <1>0, <1>1, <2>1, SameOrder
<1>2. CASE (WriteSome \/ Flush \/ Copy \/ Drained) /\ UNCHANGED <<newline_vars, device_vars>>
  <2>1. UNCHANGED delivered /\ ~Draining
    <3>1. CASE WriteSome \/ Flush
      <4>1. op = "None" /\ UNCHANGED delivered
        BY <3>1 DEF WriteSome, Flush, Begin
      <4>. QED
        BY <4>1 DEF PipelineInv, Inv, Control, Draining
    <3>2. CASE Copy
      BY <3>2 DEF Copy, Return, PipelineInv, Draining
    <3>3. CASE Drained
      <4>1. written = Len(buffer) /\ Len(buffer) \in Nat /\ UNCHANGED delivered
        BY <3>3, AdapterTypes DEF Drained
      <4>. QED
        BY <4>1 DEF Draining
    <3>. QED
      BY <1>2, <3>1, <3>2, <3>3
  <2>. QED
    BY <1>1, <1>2, <2>1
<1>3. ASSUME Draining PROVE At = Passed + 1 /\ At \in Int /\ -At \in Int
  BY <1>0, <1>3, AtIsNext, TakenBelow DEF Passed
<1>4. ASSUME device = "Serial" \/ attached, DeviceInv', Inserted \/ PassedOn \/ Kept
      PROVE  OrderInv'
  BY <1>0, <1>4, GrownOrder DEF Live
<1>5. CASE InsertCR
  <2>1. /\ Draining /\ DeviceAccepts(-At) /\ ~crWritten /\ crWritten' = TRUE
        /\ UNCHANGED <<taken, previousCR, buffered_vars>>
    BY <1>5 DEF InsertCR, NeedsCR
  <2>2. DeviceInv' /\ Appended(-At) /\ UNCHANGED failures /\ (device = "Serial" \/ attached)
    BY <1>0, <1>3, <2>1, AcceptsAppends
  <2>3. UNCHANGED Passed /\ Draining'
    BY <2>1 DEF buffered_vars, Passed, Draining
  <2>4. Inserted
    BY <1>0, <1>3, <2>1, <2>2, <2>3 DEF Inserted
  <2>. QED
    BY <1>4, <2>2, <2>4
<1>6. CASE PassOn
  <2>1. /\ Draining /\ DeviceAccepts(At) /\ ~NeedsCR /\ crWritten' = FALSE
        /\ previousCR' = (text[At] = "CR")
    BY <1>6 DEF PassOn
  <2>2. DeviceInv' /\ Appended(At) /\ UNCHANGED failures /\ (device = "Serial" \/ attached)
    BY <1>0, <1>3, <2>1, AcceptsAppends
  <2>3. Passed' = Passed + 1
    <3>1. CASE taken' = 0 /\ SinkTakes(taken + 1)
      <4>1. taken + 1 \in 1..(Len(buffer) - written)
        BY <1>0, <2>1, TakenBelow, AdapterTypes
      <4>2. PICK m \in 1..(Len(buffer) - written) : m = taken + 1 /\ SinkTakes(m)
        BY <3>1, <4>1
      <4>3. Len(delivered') = Len(delivered) + m
        BY <4>2, SinkTakesDelivers DEF PipelineInv
      <4>. QED
        BY <1>0, <3>1, <4>2, <4>3 DEF Passed
    <3>2. CASE taken' = taken + 1 /\ UNCHANGED buffered_vars
      <4>1. Len(delivered') = Len(delivered)
        BY <3>2 DEF buffered_vars
      <4>. QED
        BY <1>0, <3>2, <4>1 DEF Passed
    <3>. QED
      BY <1>6, <3>1, <3>2 DEF PassOn
  <2>4. PassedOn
    BY <1>3, <2>1, <2>2, <2>3, Zenon DEF PassedOn, NeedsCR
  <2>. QED
    BY <1>4, <2>2, <2>4
<1>7. CASE WriteFails
  <2>1. /\ Draining /\ taken' = 0 /\ crWritten' = FALSE /\ previousCR' = previousCR
        /\ \/ SinkTakes(taken) /\ taken > 0
           \/ SinkStops /\ taken = 0
    BY <1>7, Zenon DEF WriteFails
  <2>2. PICK c \in {At, -At} : DeviceFails(c)
    BY <1>7 DEF WriteFails
  <2>3. c \in Int
    BY <1>3, <2>1
  <2>4. /\ DeviceInv'
        /\ \/ Output' = Output /\ failures' > 0
           \/ device = "Console" /\ ~attached /\ UNCHANGED <<Output, failures>>
           \/ device = "Console" /\ attached /\ Appended(c) /\ failures' > 0
    BY <1>0, <2>2, <2>3, FailsAppends
  <2>5. Passed' = Passed
    <3>1. CASE SinkTakes(taken) /\ taken > 0
      <4>1. taken \in 1..(Len(buffer) - written)
        BY <1>0, <2>1, <3>1, TakenBelow, AdapterTypes
      <4>2. PICK m \in 1..(Len(buffer) - written) : m = taken /\ SinkTakes(m)
        BY <3>1, <4>1
      <4>3. Len(delivered') = Len(delivered) + m
        BY <4>2, SinkTakesDelivers DEF PipelineInv
      <4>. QED
        BY <1>0, <2>1, <4>2, <4>3 DEF Passed
    <3>2. CASE SinkStops /\ taken = 0
      <4>1. delivered' = delivered
        BY <3>2 DEF SinkStops, Return, PipelineInv
      <4>. QED
        BY <2>1, <3>2, <4>1 DEF Passed
    <3>. QED
      BY <2>1, <3>1, <3>2
  <2>6. CASE Output' = Output
    <3>1. failures' = failures \/ failures' > 0
      BY <2>4
    <3>2. crWritten => failures' > 0
      <4>1. CASE device = "Console" /\ ~attached
        BY <1>0, <4>1
      <4>2. CASE ~(device = "Console" /\ ~attached)
        BY <2>4, <4>2
      <4>. QED
        BY <4>1, <4>2
    <3>. QED
      BY <1>0, <2>1, <2>4, <2>5, <2>6, <3>1, <3>2, SameOrder
  <2>7. CASE device = "Console" /\ attached /\ Appended(c) /\ failures' > 0
    <3>1. Kept
      BY <1>3, <2>1, <2>2, <2>5, <2>7 DEF Kept
    <3>. QED
      BY <1>4, <2>4, <2>7, <3>1
  <2>. QED
    BY <2>4, <2>6, <2>7
<1>8. CASE FlushDevice
  <2>1. /\ SinkFlush /\ UNCHANGED newline_vars
        /\ \/ screen' = screen \o wide /\ wide' = <<>> /\ failures' = failures
           \/ FailOnce /\ UNCHANGED <<wide, screen>>
    BY <1>8 DEF FlushDevice
  <2>2. ~Draining /\ UNCHANGED delivered
    BY <2>1 DEF SinkFlush, Draining, Return, PipelineInv
  <2>3. failures' \in Nat /\ (failures' = failures \/ failures' > 0)
    BY <1>0, <2>1 DEF FailOnce, DeviceInv
  <2>4. DeviceInv' /\ Output' = Output
    <3>1. CASE screen' = screen \o wide /\ wide' = <<>>
      <4>1. Output \in Seq(Int) /\ screen' = Output
        BY <1>0, <3>1, OutputLength DEF Output, DeviceInv
      <4>2. Output' = screen' /\ wide' \in Seq(Int)
        BY <3>1, <4>1, ConcatEmptySeq DEF Output
      <4>. QED
        BY <1>0, <2>3, <3>1, <4>1, <4>2 DEF DeviceInv
    <3>2. CASE UNCHANGED <<wide, screen>>
      BY <1>0, <2>3, <3>2 DEF DeviceInv, Output
    <3>. QED
      BY <2>1, <3>1, <3>2
  <2>5. UNCHANGED <<Passed, crWritten, previousCR>>
    BY <2>1, <2>2 DEF Passed
  <2>. QED
    BY <1>0, <2>2, <2>3, <2>4, <2>5, SameOrder
<1>. QED
  BY <1>2, <1>5, <1>6, <1>7, <1>8 DEF PipelineNext
-----------------------------------------------------------------------------
(* The context.                                                            *)

\* A call of the context leaves the pipeline's own state alone.
LEMMA CallKeepsPipeline ==
  ASSUME PipelineInv, UNCHANGED <<device, taken, buffered_vars, screen>>,
         wide' = wide \/ wide' = <<>>
  PROVE  PipelineInv' /\ UNCHANGED <<buffer, op, delivered>>
<1>1. Inv'
  BY NextInv DEF buffered_vars, vars, PipelineInv
<1>2. UNCHANGED <<buffer, written, phase, op, delivered>>
  BY DEF buffered_vars
<1>. QED
  BY <1>1, <1>2, InEmpty DEF PipelineInv, TakenIsDraining, Draining

\* Attach, the first time and after: what waits for a console that is not
\* attached is nothing, so nothing is dropped.
LEMMA AttachKeeps ==
  ASSUME IInv, NEW table \in Tables \cup {None}, DoAttach(table),
         UNCHANGED <<device, taken, buffered_vars, screen, preparing, prepared>>
  PROVE  IInv' /\ (bootServices => bootServices')
<1>1. CASE UNCHANGED <<systemTable, bootServices, attached, wide>>
  <2>1. PipelineInv' /\ UNCHANGED <<buffer, op, delivered>>
    BY <1>1, CallKeepsPipeline DEF IInv
  <2>. QED
    BY <1>1, <2>1 DEF IInv, ContextInv, ContextsAgree, NothingDropped
<1>2. CASE /\ systemTable = None /\ table \in Usable
           /\ systemTable' = table /\ bootServices' = TRUE /\ AttachIO(table)
  <2>1. table # None /\ ~bootServices /\ ~attached
    BY <1>2, ContextAssumption DEF IInv, ContextInv, ContextsAgree
  <2>2. wide' = wide
    BY <1>2, <2>1 DEF AttachIO, ResetConsole, IInv, ContextInv, ContextsAgree
  <2>3. PipelineInv' /\ UNCHANGED <<buffer, op, delivered>>
    BY <2>2, CallKeepsPipeline DEF IInv
  <2>4. ContextsAgree'
    BY <1>2, <2>1, <2>2 DEF AttachIO, ResetConsole, IInv, ContextInv, ContextsAgree
  <2>. QED
    BY <1>2, <2>1, <2>2, <2>3, <2>4 DEF IInv, ContextInv, NothingDropped
<1>. QED
  BY <1>1, <1>2 DEF DoAttach, IsInitialized

LEMMA ContextStep == IInv /\ [ContextNext]_context_vars => IInv'
<1> SUFFICES ASSUME IInv, [ContextNext]_context_vars PROVE IInv'
  OBVIOUS
<1> USE DEF newline_vars
<1>1. CASE Attach
  <2>1. PICK table \in Tables \cup {None} : DoAttach(table)
    BY <1>1 DEF Attach
  <2>. QED
    BY <1>1, <2>1, AttachKeeps DEF Attach
<1>2. CASE Normalize
  <2>1. CASE \E table \in Tables \cup {None} : DoAttach(table)
    BY <1>2, <2>1, AttachKeeps DEF Normalize
  <2>2. CASE UNCHANGED <<systemTable, bootServices, imageHandle, attached, wide>>
    <3>1. PipelineInv' /\ UNCHANGED <<buffer, op, delivered>>
      BY <1>2, <2>2, CallKeepsPipeline DEF IInv, Normalize
    <3>. QED
      BY <1>2, <2>2, <3>1 DEF Normalize, IInv, ContextInv, ContextsAgree, NothingDropped
  <2>. QED
    BY <1>2, <2>1, <2>2 DEF Normalize
<1>3. CASE PrepareExitBootServices
  <2>1. CASE UNCHANGED <<buffered_vars, preparing>>
    <3>1. UNCHANGED <<device, taken, screen, wide>>
      BY <1>3 DEF PrepareExitBootServices, device_vars
    <3>2. PipelineInv' /\ UNCHANGED <<buffer, op, delivered>>
      BY <2>1, <3>1, CallKeepsPipeline DEF IInv
    <3>. QED
      BY <1>3, <2>1, <3>1, <3>2
      DEF PrepareExitBootServices, IInv, ContextInv, ContextsAgree, NothingDropped
  <2>2. CASE Flush /\ preparing' = TRUE
    <3>1. /\ Inv' /\ op = "None" /\ op' = "Flush" /\ UNCHANGED <<buffer, delivered>>
      BY <2>2, BeginInv DEF IInv, PipelineInv, Flush, Begin
    <3>2. UNCHANGED <<systemTable, bootServices, prepared, taken, wide, screen,
                      device, attached>>
      BY <1>3 DEF PrepareExitBootServices, device_vars
    <3>3. taken = 0
      BY <3>1, AdapterTypes
      DEF IInv, PipelineInv, TakenIsDraining, Draining, Inv, Control
    <3>. QED
      BY <2>2, <3>1, <3>2, <3>3
      DEF IInv, PipelineInv, TakenIsDraining, ContextInv, ContextsAgree, NothingDropped
  <2>. QED
    BY <1>3, <2>1, <2>2 DEF PrepareExitBootServices
<1>4. CASE ExitBootServicesSucceeded
  <2>1. /\ bootServices' = FALSE /\ attached' = FALSE
        /\ wide' = IF device = "Console" THEN <<>> ELSE wide
        /\ UNCHANGED <<systemTable, preparing, prepared, device, taken,
                       buffered_vars, screen>>
        /\ systemTable # None
    BY <1>4 DEF ExitBootServicesSucceeded, ResetConsole, IInv, ContextInv
  <2>2. PipelineInv' /\ UNCHANGED <<buffer, op, delivered>>
    BY <2>1, CallKeepsPipeline DEF IInv
  <2>. QED
    BY <2>1, <2>2 DEF IInv, ContextInv, ContextsAgree, NothingDropped
<1>5. CASE RunPipeline
  <2>1. PipelineStep
    BY <1>5, PipelineKeeps DEF RunPipeline, IInv, ContextInv
  <2>2. UNCHANGED <<systemTable, bootServices>>
    BY <1>5 DEF RunPipeline
  <2>3. ContextsAgree'
    BY <2>1, <2>2 DEF PipelineStep, IInv, ContextInv, ContextsAgree
  <2>4. NothingDropped'
    BY <2>1, <2>2 DEF PipelineStep, IInv, NothingDropped, Has
  <2>5. preparing' => op' = "Flush"
    BY <1>5, <2>1 DEF RunPipeline, PipelineStep, IInv, ContextInv
  <2>6. prepared' => op' \in {"None", "Flush"} /\ buffer' = <<>> /\ wide' = <<>>
    <3>1. CASE preparing /\ op' = "None"
      BY <1>5, <2>1, <3>1 DEF RunPipeline, FlushAnswer, PipelineStep, IInv, ContextInv
    <3>2. CASE ~(preparing /\ op' = "None")
      BY <1>5, <2>1, <3>2 DEF RunPipeline, PipelineStep, IInv, ContextInv
    <3>. QED
      BY <3>1, <3>2
  <2>. QED
    BY <2>1, <2>2, <2>3, <2>4, <2>5, <2>6 DEF PipelineStep, IInv, ContextInv
<1>6. CASE UNCHANGED context_vars
  <2>1. UNCHANGED <<systemTable, bootServices, attached, wide, device, taken,
                    buffered_vars, screen, preparing, prepared>>
    BY <1>6 DEF context_vars, context, pipeline_vars, device_vars
  <2>2. PipelineInv' /\ UNCHANGED <<buffer, op, delivered>>
    BY <2>1, CallKeepsPipeline DEF IInv
  <2>. QED
    BY <2>1, <2>2 DEF IInv, ContextInv, ContextsAgree, NothingDropped
<1>. QED
  BY <1>1, <1>2, <1>3, <1>4, <1>5, <1>6 DEF ContextNext

LEMMA ContextInitially == ContextInit => IInv
<1> SUFFICES ASSUME ContextInit PROVE IInv
  OBVIOUS
<1>1. PipelineInv
  BY InitInv, InEmpty DEF ContextInit, PipelineInit, Init, PipelineInv, TakenIsDraining
<1>2. ContextInv
  BY ContextAssumption DEF ContextInit, PipelineInit, ContextInv, ContextsAgree
<1>3. NothingDropped
  BY Empty DEF ContextInit, PipelineInit, Init, NothingDropped
<1>. QED
  BY <1>1, <1>2, <1>3 DEF IInv

\* The invariant of the context and of the pipeline under it.
THEOREM ContextInvariance == ContextSpec => []IInv
  BY ContextInitially, ContextStep, PTL DEF ContextSpec

\* The two contexts never disagree about the console.
THEOREM ContextsAgreeCorrect == ContextSpec => []ContextsAgree
  BY ContextInvariance, PTL DEF IInv, ContextInv

\* An image that leaves after a successful PrepareExitBootServices has shown
\* all that it ever wrote.
THEOREM PreparedExitCorrect == ContextSpec => PreparedExitShowsAll
<1>1. IInv /\ [ContextNext]_context_vars
        => [bootServices /\ ~bootServices' /\ prepared
             => \A n \in 1..acknowledged : \E i \in 1..Len(screen) : screen[i] = n]_context_vars
  <2> SUFFICES ASSUME IInv, [ContextNext]_context_vars, bootServices, ~bootServices', prepared
               PROVE  \A n \in 1..acknowledged : In(n, screen)
    BY DEF In
  <2>1. op = "None"
    <3>1. CASE ExitBootServicesSucceeded
      BY <3>1 DEF ExitBootServicesSucceeded
    <3>2. CASE Attach \/ Normalize
      BY <3>2 DEF Attach, Normalize, DoAttach
    <3>3. CASE PrepareExitBootServices \/ RunPipeline \/ UNCHANGED context_vars
      BY <3>3 DEF PrepareExitBootServices, RunPipeline, context_vars, context
    <3>. QED
      BY <3>1, <3>2, <3>3 DEF ContextNext
  <2>2. written = 0 /\ accepted = 0 /\ buffer = <<>> /\ wide = <<>> /\ taken = 0
    BY <2>1, AdapterTypes
    DEF IInv, ContextInv, PipelineInv, Inv, Control, TakenIsDraining, Draining
  <2>3. acknowledged = Len(delivered) + taken
    BY <2>2, Empty, AdapterTypes DEF IInv, PipelineInv, Inv, ExactlyOnceInOrder, Sent
  <2>. QED
    BY <2>2, <2>3, InEmpty DEF IInv, NothingDropped
<1>. QED
  BY <1>1, ContextInvariance, PTL DEF ContextSpec, PreparedExitShowsAll
-----------------------------------------------------------------------------
(* The order of the output, through the calls of the context.              *)

\* What waits for a console may be dropped: the output ends earlier, and
\* nothing is put out after it.
LEMMA DroppedOrder ==
  ASSUME OrderInv, ~Live', ~crWritten', wide' = <<>>, DeviceInv',
         UNCHANGED <<screen, Passed, device, text, crWritten, previousCR, failures>>
  PROVE  OrderInv'
<1>1. /\ Len(Output) = Len(screen) + Len(wide) /\ Len(screen) \in Nat /\ Len(wide) \in Nat
      /\ \A i \in 1..Len(Output) :
           Output[i] = IF i <= Len(screen) THEN screen[i] ELSE wide[i - Len(screen)]
      /\ OutputInOrder /\ RepeatsOnlyAfterFailure
  BY OutputLength, LenProperties DEF OrderInv, DeviceInv
<1>2. Output' = screen
  <2>1. screen' = screen /\ screen \in Seq(Int)
    BY DEF OrderInv, DeviceInv
  <2>. QED
    BY <2>1, ConcatEmptySeq DEF Output
<1>3. Len(Output') <= Len(Output) /\ \A i \in 1..Len(Output') : Output'[i] = Output[i]
  <2>1. \A i \in 1..Len(screen) : Output[i] = screen[i]
    BY <1>1
  <2>. QED
    BY <1>1, <1>2, <2>1
<1>4. NoneSkipped'
  <2>1. ASSUME Output' # <<>> PROVE CharacterOf(Output'[1]) = 1
    <3>1. Len(screen) # 0
      <4>1. screen \in Seq(Int)
        BY DEF OrderInv, DeviceInv
      <4>. QED
        BY <1>2, <2>1, <4>1, EmptySeq
    <3>2. 1 \in 1..Len(Output') /\ Output # <<>>
      BY <1>1, <1>2, <3>1
    <3>. QED
      BY <1>1, <1>3, <3>2 DEF OutputInOrder, NoneSkipped
  <2>2. ASSUME NEW i \in 1..(Len(Output') - 1)
        PROVE  CharacterOf(Output'[i + 1]) - CharacterOf(Output'[i]) \in {0, 1}
    <3>1. i \in 1..(Len(Output) - 1) /\ i \in 1..Len(Output') /\ i + 1 \in 1..Len(Output')
      BY <1>1, <1>2, <1>3
    <3>. QED
      BY <1>1, <1>3, <3>1 DEF OutputInOrder, NoneSkipped
  <2>. QED
    BY <2>1, <2>2 DEF NoneSkipped
<1>5. LineFeedAfterCR'
  <2> SUFFICES ASSUME device = "Serial" \/ failures = 0, NEW i \in 1..Len(Output'),
                      Output'[i] > 0, text[Output'[i]] = "LF"
               PROVE  i > 1 /\ IsCR(Output[i - 1])'
    BY DEF LineFeedAfterCR
  <2>1. i \in 1..Len(Output) /\ Output'[i] = Output[i]
    BY <1>1, <1>2, <1>3
  <2>2. i > 1 /\ IsCR(Output[i - 1])
    BY <1>1, <2>1 DEF OutputInOrder, LineFeedAfterCR
  <2>3. i - 1 \in 1..Len(Output')
    BY <1>1, <1>2, <2>2
  <2>. QED
    BY <1>3, <2>2, <2>3 DEF IsCR
<1>6. RepeatsOnlyAfterFailure'
  <2> SUFFICES ASSUME NEW i \in 1..Len(Output'), NEW j \in 1..Len(Output'),
                      i # j, Output'[i] = Output'[j]
               PROVE  failures' > 0 /\ (device' = "Serial" => Output'[i] < 0)
    BY DEF RepeatsOnlyAfterFailure
  <2>1. i \in 1..Len(Output) /\ j \in 1..Len(Output)
    BY <1>1, <1>2, <1>3
  <2>. QED
    BY <1>1, <1>3, <2>1 DEF RepeatsOnlyAfterFailure
<1>. QED
  BY <1>4, <1>5, <1>6 DEF OrderInv, OutputInOrder

\* Between two operations no carriage return has been inserted.
LEMMA IdleInsertsNothing ==
  ASSUME PipelineInv, OrderInv, op = "None"
  PROVE  ~Draining /\ ~crWritten
  BY DEF PipelineInv, Inv, Control, Draining, OrderInv

LEMMA AttachOrder ==
  ASSUME IInv, OrderInv, op = "None", NEW table \in Tables \cup {None}, DoAttach(table),
         UNCHANGED <<device, newline_vars, buffered_vars, screen, failures, text>>
  PROVE  OrderInv'
<1> USE DEF newline_vars
<1>1. ~Draining /\ ~crWritten /\ Passed' = Passed
  BY IdleInsertsNothing DEF IInv, buffered_vars, Passed
<1>2. CASE UNCHANGED <<systemTable, bootServices, attached, wide>>
  <2>1. DeviceInv' /\ Output' = Output /\ Live' = Live
    BY <1>2 DEF OrderInv, DeviceInv, Output, Live
  <2>. QED
    BY <1>1, <1>2, <2>1, SameOrder DEF OrderInv
<1>3. CASE systemTable = None /\ AttachIO(table)
  <2>1. ~attached
    BY <1>3 DEF IInv, ContextInv, ContextsAgree
  <2>2. wide' = wide
    BY <1>3, <2>1 DEF AttachIO, ResetConsole, IInv, ContextInv, ContextsAgree, OrderInv, DeviceInv
  <2>3. DeviceInv' /\ Output' = Output /\ (Live' => Live)
    BY <1>3, <2>2 DEF OrderInv, DeviceInv, Output, Live
  <2>. QED
    BY <1>1, <2>3, SameOrder DEF OrderInv
<1>. QED
  BY <1>2, <1>3 DEF DoAttach, IsInitialized

LEMMA ContextOrderStep ==
  ASSUME IInv, OrderInv, [ContextNext]_context_vars
  PROVE  OrderInv'
<1> USE DEF newline_vars
<1>1. CASE Attach
  BY <1>1, AttachOrder DEF Attach
<1>2. CASE Normalize
  <2>1. CASE \E table \in Tables \cup {None} : DoAttach(table)
    BY <1>2, <2>1, AttachOrder DEF Normalize
  <2>2. CASE UNCHANGED <<systemTable, bootServices, imageHandle, attached, wide>>
    <3>1. /\ ~Draining /\ ~crWritten /\ Passed' = Passed
          /\ UNCHANGED <<newline_vars, screen, failures, device, text>>
      BY <1>2, IdleInsertsNothing DEF Normalize, IInv, buffered_vars, Passed
    <3>2. DeviceInv' /\ Output' = Output /\ Live' = Live
      BY <2>2, <3>1 DEF OrderInv, DeviceInv, Output, Live
    <3>. QED
      BY <3>1, <3>2, SameOrder DEF OrderInv
  <2>. QED
    BY <1>2, <2>1, <2>2 DEF Normalize
<1>3. CASE PrepareExitBootServices
  <2>1. /\ op = "None" /\ UNCHANGED <<newline_vars, device_vars, device, attached,
                                      text, systemTable, delivered>>
    BY <1>3 DEF PrepareExitBootServices, Flush, Begin, buffered_vars
  <2>2. DeviceInv' /\ UNCHANGED <<Output, Passed, Live>> /\ ~crWritten
    BY <2>1, IdleInsertsNothing DEF OrderInv, DeviceInv, Output, Live, Passed, device_vars, IInv
  <2>. QED
    BY <2>1, <2>2, SameOrder DEF OrderInv, device_vars
<1>4. CASE ExitBootServicesSucceeded
  <2>1. /\ op = "None" /\ systemTable # None /\ attached' = FALSE
        /\ wide' = IF device = "Console" THEN <<>> ELSE wide
        /\ UNCHANGED <<systemTable, newline_vars, buffered_vars, screen, failures, device, text>>
    BY <1>4 DEF ExitBootServicesSucceeded, ResetConsole, IInv, ContextInv
  <2>2. ~Draining /\ ~crWritten /\ Passed' = Passed
    BY <2>1, IdleInsertsNothing DEF IInv, buffered_vars, Passed
  <2>3. wide' = <<>> /\ DeviceInv'
    BY <2>1 DEF OrderInv, DeviceInv
  <2>4. CASE device = "Console"
    BY <2>1, <2>2, <2>3, <2>4, DroppedOrder DEF Live
  <2>5. CASE device = "Serial"
    <3>1. Output' = Output /\ Live
      BY <2>1, <2>5 DEF Output, Live
    <3>. QED
      BY <2>1, <2>2, <2>3, <3>1, SameOrder DEF OrderInv
  <2>. QED
    BY <2>4, <2>5 DEF OrderInv, DeviceInv
<1>5. CASE RunPipeline
  BY <1>5, PipelineOrder DEF RunPipeline, IInv, ContextInv
<1>6. CASE UNCHANGED context_vars
  <2>1. UNCHANGED <<newline_vars, device_vars, device, attached, text, systemTable,
                    buffered_vars>>
    BY <1>6 DEF context_vars, context, pipeline_vars
  <2>2. /\ DeviceInv' /\ UNCHANGED <<Output, Passed, Live>> /\ Draining' = Draining
        /\ UNCHANGED failures
    BY <2>1 DEF OrderInv, DeviceInv, Output, Live, Passed, device_vars, buffered_vars, Draining
  <2>. QED
    BY <2>1, <2>2, SameOrder DEF OrderInv
<1>. QED
  BY <1>1, <1>2, <1>3, <1>4, <1>5, <1>6 DEF ContextNext

LEMMA OrderInitially == ContextInit => OrderInv
<1> SUFFICES ASSUME ContextInit PROVE OrderInv
  OBVIOUS
<1>1. /\ wide = <<>> /\ screen = <<>> /\ delivered = <<>> /\ taken = 0 /\ failures = 0
      /\ crWritten = FALSE /\ previousCR = FALSE /\ device \in {"Console", "Serial"}
  BY DEF ContextInit, PipelineInit, Init
<1>2. DeviceInv /\ Output = <<>> /\ Len(Output) = 0 /\ Passed = 0
  BY <1>1, InEmpty, OutputLength, Empty DEF DeviceInv, Passed, Output
<1>3. OutputInOrder /\ RepeatsOnlyAfterFailure
  BY <1>2 DEF OutputInOrder, NoneSkipped, LineFeedAfterCR, RepeatsOnlyAfterFailure
<1>4. Reached /\ NoneAhead /\ LastExact /\ InsertedIsLast
  BY <1>1, <1>2 DEF Reached, NoneAhead, LastExact, InsertedIsLast
<1>. QED
  BY <1>1, <1>2, <1>3, <1>4 DEF OrderInv

\* The invariant behind the order of the output.
THEOREM OutputOrderInvariance == ContextSpec => []OrderInv
<1>1. IInv /\ OrderInv /\ [ContextNext]_context_vars => OrderInv'
  BY ContextOrderStep
<1>. QED
  BY <1>1, OrderInitially, ContextInvariance, PTL DEF ContextSpec

\* However often the device fails, whatever the context is told and whenever
\* a write is tried again, the output is the text in order, with a carriage
\* return before each line feed where the device allows it.
THEOREM OutputInOrderCorrect == ContextSpec => []OutputInOrder
  BY OutputOrderInvariance, PTL DEF OrderInv

\* The output repeats a character only after a failure, and on the serial
\* port nothing but an inserted carriage return.
THEOREM RepeatsOnlyAfterFailureCorrect == ContextSpec => []RepeatsOnlyAfterFailure
  BY OutputOrderInvariance, PTL DEF OrderInv
-----------------------------------------------------------------------------
(* The adapters.                                                           *)

Sides == IF kind = "Tee" THEN {1, 2} ELSE {1}

\* How many bytes of the text a sink below has for certain: while a call of
\* the adapter goes on, also those it has passed on in that call.
Got(side) ==
  CASE side < adapter.side -> Len(delivered) + (Len(buffer) - written)
    [] side = adapter.side -> Len(delivered) + adapter.pos
    [] side > adapter.side -> Len(delivered)

\* The sink that took these bytes has the first n, and none was overtaken.
HasText(bytes, n, exact) ==
  /\ bytes \in Seq(Nat)
  /\ \A k \in 1..n : \E i \in 1..Len(bytes) : bytes[i] = k
  /\ \A i \in 1..Len(bytes) :
       bytes[i] = 1 \/ \E j \in 1..(i - 1) : bytes[j] = bytes[i] - 1
  /\ exact => Len(bytes) = n /\ \A i \in 1..n : bytes[i] = i

TextInv ==
  kind # "Ring" =>
    /\ Draining => adapter.pos < Len(buffer) - written
    /\ ~Draining => adapter.pos = 0 /\ adapter.side = 1
    /\ kind # "Tee" => adapter.side = 1
    /\ kind \notin {"Tee", "Prefix"} => adapter.pos = 0
    /\ \A side \in Sides : HasText(adapter.below[side], Got(side), ~adapter.halfway)

HashInv == kind = "Hashing" => adapter.hashed = adapter.below[1]

\* The next bytes of the text are passed on.
LEMMA HasTextGrows ==
  ASSUME NEW b \in Seq(Nat), NEW n \in Nat, NEW exact, HasText(b, n, exact),
         NEW more \in Seq(Nat), \A i \in 1..Len(more) : more[i] = n + i
  PROVE  HasText(b \o more, n + Len(more), exact)
<1> DEFINE c == b \o more
<1>1. /\ c \in Seq(Nat) /\ Len(c) = Len(b) + Len(more)
      /\ Len(b) \in Nat /\ Len(more) \in Nat
      /\ \A i \in 1..(Len(b) + Len(more)) :
           c[i] = IF i <= Len(b) THEN b[i] ELSE more[i - Len(b)]
  BY ConcatProperties, LenProperties
<1>. HIDE DEF c
<1>2. \A i \in 1..Len(b) : i \in 1..Len(c) /\ c[i] = b[i]
  BY <1>1
<1>3. \A i \in 1..Len(more) : Len(b) + i \in 1..Len(c) /\ c[Len(b) + i] = n + i
  <2>. SUFFICES ASSUME NEW i \in 1..Len(more)
                PROVE  Len(b) + i \in 1..Len(c) /\ c[Len(b) + i] = n + i
    OBVIOUS
  <2>1. /\ Len(b) + i \in 1..(Len(b) + Len(more)) /\ ~(Len(b) + i <= Len(b))
        /\ (Len(b) + i) - Len(b) = i
    BY <1>1
  <2>. QED
    BY <1>1, <2>1
<1>4. ASSUME NEW k \in 1..(n + Len(more)) PROVE \E i \in 1..Len(c) : c[i] = k
  <2>1. CASE k <= n
    <3>1. k \in 1..n
      BY <2>1
    <3>2. PICK i \in 1..Len(b) : b[i] = k
      BY <3>1 DEF HasText
    <3>. QED
      BY <1>2, <3>2
  <2>2. CASE k > n
    <3>1. k - n \in 1..Len(more) /\ n + (k - n) = k
      BY <1>1, <2>2
    <3>. QED
      BY <1>3, <3>1
  <2>. QED
    BY <2>1, <2>2
<1>5. ASSUME NEW i \in 1..Len(c)
      PROVE  c[i] = 1 \/ \E j \in 1..(i - 1) : c[j] = c[i] - 1
  <2>1. CASE i <= Len(b)
    <3>1. i \in 1..Len(b)
      BY <2>1
    <3>2. CASE b[i] = 1
      BY <1>2, <3>1, <3>2
    <3>3. CASE b[i] # 1
      <4>1. PICK j \in 1..(i - 1) : b[j] = b[i] - 1
        BY <3>1, <3>3 DEF HasText
      <4>2. j \in 1..Len(b)
        BY <1>1, <3>1, <4>1
      <4>. QED
        BY <1>2, <3>1, <4>1, <4>2
    <3>. QED
      BY <3>2, <3>3
  <2>2. CASE i > Len(b)
    <3>1. /\ i - Len(b) \in 1..Len(more) /\ Len(b) + (i - Len(b)) = i
      BY <1>1, <2>2
    <3>2. c[i] = n + (i - Len(b))
      BY <1>3, <3>1
    <3>0. i \in Nat /\ Len(b) \in Nat /\ Len(more) \in Nat
      BY <1>1
    <3>3. CASE i - Len(b) = 1
      <4>0. i = Len(b) + 1
        BY <3>0, <3>3
      <4>1. c[i] = n + 1
        BY <3>2, <3>3
      <4>2. CASE n = 0
        BY <4>1, <4>2
      <4>3. CASE n # 0
        <5>1. PICK j \in 1..Len(b) : b[j] = n
          BY <4>3 DEF HasText
        <5>2. j \in 1..(i - 1) /\ c[j] = n
          BY <3>0, <4>0, <1>2, <5>1
        <5>. QED
          BY <4>1, <5>2
      <4>. QED
        BY <4>2, <4>3
    <3>4. CASE i - Len(b) # 1
      <4>1. /\ (i - Len(b)) - 1 \in 1..Len(more) /\ Len(b) + ((i - Len(b)) - 1) = i - 1
            /\ i - 1 \in 1..(i - 1)
        <5>1. \A x \in 1..Len(more) : x # 1 => x > 1 /\ x <= Len(more)
          BY <3>0
        <5>2. i - Len(b) > 1 /\ i - Len(b) <= Len(more)
          BY <3>1, <3>4, <5>1
        <5>. QED
          BY <3>0, <5>2
      <4>2. c[i - 1] = n + ((i - Len(b)) - 1)
        BY <1>3, <4>1
      <4>3. n + ((i - Len(b)) - 1) = (n + (i - Len(b))) - 1
        BY <1>1
      <4>. QED
        BY <3>2, <4>1, <4>2, <4>3
    <3>. QED
      BY <3>3, <3>4
  <2>. QED
    BY <1>1, <2>1, <2>2
<1>6. ASSUME exact
      PROVE  Len(c) = n + Len(more) /\ \A i \in 1..(n + Len(more)) : c[i] = i
  <2>1. Len(b) = n /\ \A i \in 1..n : b[i] = i
    BY <1>6 DEF HasText
  <2>2. ASSUME NEW i \in 1..(n + Len(more)) PROVE c[i] = i
    <3>1. CASE i <= n
      BY <1>2, <2>1, <3>1
    <3>2. CASE i > n
      <4>1. i - n \in 1..Len(more) /\ Len(b) + (i - n) = i /\ n + (i - n) = i
        BY <1>1, <2>1, <3>2
      <4>. QED
        BY <1>3, <4>1
    <3>. QED
      BY <3>1, <3>2
  <2>. QED
    BY <1>1, <2>1, <2>2
<1>7. HasText(c, n + Len(more), exact)
  BY <1>1, <1>4, <1>5, <1>6 DEF HasText
<1>. QED
  BY <1>7 DEF c

\* What is known of fewer bytes, or with a failure half-way.
LEMMA HasTextFewer ==
  ASSUME NEW b, NEW n \in Nat, NEW exact, HasText(b, n, exact),
         NEW m \in 0..n, NEW still, still => exact /\ m = n
  PROVE  HasText(b, m, still)
<1>1. \A k \in 1..m : k \in 1..n
  OBVIOUS
<1>. QED
  BY <1>1 DEF HasText

LEMMA HasNoText ==
  ASSUME NEW exact
  PROVE  HasText(<<>>, 0, exact)
  BY Empty DEF HasText

-----------------------------------------------------------------------------
AdapterRecords ==
  [pos : Nat, side : {1, 2}, prefixed : Nat, lineStart : BOOLEAN,
   remaining : Nat, started : BOOLEAN, windowStart : Nat,
   cells : [0..(RingSize - 1) -> Nat], start : 0..(RingSize - 1), size : 0..RingSize,
   hashed : Seq(Nat), below : [1..2 -> Seq(Nat)], lines : Seq(Nat),
   stamps : Seq(Nat), cleared : Nat, halfway : BOOLEAN, failures : Nat]

LEMMA Counts ==
  ASSUME Inv
  PROVE  /\ Len(delivered) \in Nat /\ Len(buffer) \in Nat /\ written \in Nat
         /\ written <= Len(buffer) /\ Len(buffer) - written \in Nat
         /\ Draining <=> phase = "Drain" /\ Len(buffer) - written > 0
         /\ delivered \in Seq(Nat) /\ \A i \in 1..Len(delivered) : delivered[i] = i
  BY LenProperties DEF Inv, TypeOK, Draining, ExactlyOnceInOrder

\* The same of the next state.
LEMMA CountsNext ==
  ASSUME Inv'
  PROVE  Len(delivered') \in Nat /\ (Draining' => 0 < Len(buffer') - written')
  BY LenProperties DEF Inv, TypeOK, Draining

\* The bytes that are offered to the adapter are the next ones of the text.
LEMMA UnsentText ==
  ASSUME Inv
  PROVE  /\ Unsent \in Seq(Nat) /\ Len(Unsent) = Len(buffer) - written
         /\ \A k \in 1..Len(Unsent) : Unsent[k] = Len(delivered) + k
<1>1. /\ Unsent \in Seq(Nat) /\ Len(Unsent) = Len(buffer) - written
      /\ \A k \in 1..Len(Unsent) : Unsent[k] = buffer[written + k]
  BY UnsentProperties DEF Inv
<1>2. ASSUME NEW k \in 1..Len(Unsent) PROVE Unsent[k] = Len(delivered) + k
  <2>1. written + k \in (written + 1)..Len(buffer) /\ (written + k) - written = k
    BY <1>1, Counts
  <2>2. buffer[written + k] = Len(delivered) + ((written + k) - written)
    BY <2>1 DEF Inv, ExactlyOnceInOrder
  <2>. QED
    BY <1>1, <2>1, <2>2
<1>. QED
  BY <1>1, <1>2

LEMMA OfferedText ==
  ASSUME Inv, NEW first \in Nat, NEW n \in Nat, first + n <= Len(buffer) - written
  PROVE  LET more == SubSeq(Unsent, first + 1, first + n)
         IN /\ more \in Seq(Nat) /\ Len(more) = n
            /\ \A i \in 1..Len(more) : more[i] = (Len(delivered) + first) + i
<1> DEFINE more == SubSeq(Unsent, first + 1, first + n)
<1>1. /\ Unsent \in Seq(Nat) /\ Len(Unsent) \in Nat /\ first + n <= Len(Unsent)
      /\ \A k \in 1..Len(Unsent) : Unsent[k] \in Nat /\ Unsent[k] = Len(delivered) + k
  BY UnsentText, Counts
<1>2. \A i \in (first + 1)..(first + n) : Unsent[i] \in Nat
  BY <1>1
<1>3. /\ more \in Seq(Nat)
      /\ Len(more) = IF first + 1 <= first + n THEN (first + n) - (first + 1) + 1 ELSE 0
      /\ \A i \in 1..((first + n) - (first + 1) + 1) : more[i] = Unsent[(first + 1) + i - 1]
  BY <1>1, <1>2, SubSeqProperties
<1>. HIDE DEF more
<1>4. Len(more) = n
  BY <1>3
<1>5. ASSUME NEW i \in 1..Len(more) PROVE more[i] = (Len(delivered) + first) + i
  <2>1. /\ i \in 1..((first + n) - (first + 1) + 1) /\ (first + 1) + i - 1 = first + i
        /\ first + i \in 1..Len(Unsent)
    BY <1>1, <1>4
  <2>2. more[i] = Unsent[first + i] /\ Unsent[first + i] = Len(delivered) + (first + i)
    BY <1>1, <1>3, <2>1
  <2>. QED
    BY <1>4, <2>2, Counts
<1>. QED
  BY <1>3, <1>4, <1>5 DEF more

LEMMA OfferedFirst ==
  ASSUME Inv, NEW n \in 1..(Len(buffer) - written)
  PROVE  /\ Offered(n) \in Seq(Nat) /\ Len(Offered(n)) = n
         /\ \A i \in 1..Len(Offered(n)) : Offered(n)[i] = Len(delivered) + i
<1>1. /\ n \in Nat /\ 0 + n <= Len(buffer) - written /\ 0 + 1 = 1 /\ 0 + n = n
      /\ Len(delivered) \in Nat /\ Len(delivered) + 0 = Len(delivered)
  BY Counts
<1> DEFINE more == SubSeq(Unsent, 0 + 1, 0 + n)
<1>2. /\ more \in Seq(Nat) /\ Len(more) = n
      /\ \A i \in 1..Len(more) : more[i] = (Len(delivered) + 0) + i
  BY <1>1, OfferedText
<1>3. more = Offered(n)
  BY <1>1 DEF Offered
<1>. HIDE DEF more
<1>. QED
  BY <1>1, <1>2, <1>3

\* What the adapter reports leaves the buffer.
LEMMA Taking ==
  ASSUME Inv, NEW n \in 1..(Len(buffer) - written), SinkTakes(n)
  PROVE  /\ Inv' /\ Len(delivered') = Len(delivered) + n
         /\ Len(buffer') - written' = (Len(buffer) - written) - n
         /\ op' = op /\ phase' = phase /\ phase = "Drain" /\ sinkOpen' = sinkOpen
<1>1. Len(delivered') = Len(delivered) + n
  BY SinkTakesDelivers
<1>. QED
  BY <1>1, SinkTakesInv, Counts DEF SinkTakes, Draining

LEMMA Stopping ==
  ASSUME Inv, SinkStops
  PROVE  /\ Inv' /\ ~Draining' /\ op' = "None"
         /\ op = "Assign" => delivered' = <<>>
         /\ op # "Assign" => delivered' = delivered
  BY SinkStopsInv DEF SinkStops, Return, Draining

-----------------------------------------------------------------------------
(* What a call of the adapter does to the text.                            *)

\* The call returns: the sinks below have what it reports.
LEMMA TextReturned ==
  ASSUME Inv, TextInv, kind # "Ring", kind' = kind,
         NEW n \in 1..(Len(buffer) - written), SinkTakes(n),
         adapter'.pos = 0, adapter'.side = 1,
         \A side \in Sides :
           HasText(adapter'.below[side], Len(delivered) + n, ~adapter'.halfway)
  PROVE  TextInv'
<1>1. /\ Inv' /\ Len(delivered') = Len(delivered) + n /\ Len(delivered') \in Nat
      /\ Draining' => 0 < Len(buffer') - written'
  <2>1. Inv'
    BY Taking
  <2>. QED
    BY <2>1, Taking, CountsNext
<1>2. Sides' = Sides /\ Sides \subseteq {1, 2}
  BY DEF Sides
<1>3. \A side \in Sides : Got(side)' = Len(delivered) + n
  BY <1>1, <1>2 DEF Got
<1>. QED
  BY <1>1, <1>2, <1>3 DEF TextInv

\* The call stops: half-way, it has passed on what it does not report.
LEMMA TextStopped ==
  ASSUME Inv, TextInv, kind # "Ring", kind' = kind, SinkStops, Draining,
         IF op = "Assign" THEN adapter' = Fresh
         ELSE /\ adapter'.pos = 0 /\ adapter'.side = 1
              /\ adapter'.below = adapter.below
              /\ ~adapter'.halfway =>
                   ~adapter.halfway /\ adapter.pos = 0 /\ adapter.side = 1,
         adapter \in AdapterRecords
  PROVE  TextInv'
<1>1. /\ Inv' /\ ~Draining' /\ Len(delivered) \in Nat
  BY Stopping, Counts
<1>2. Sides' = Sides /\ Sides \subseteq {1, 2}
  BY DEF Sides
<1>3. CASE op = "Assign"
  <2>1. /\ adapter' = Fresh /\ delivered' = <<>> /\ Len(delivered') = 0
    BY <1>3, Stopping, Empty
  <2>2. /\ adapter'.pos = 0 /\ adapter'.side = 1
        /\ \A side \in {1, 2} : adapter'.below[side] = <<>>
    BY <2>1 DEF Fresh
  <2>3. \A side \in {1, 2} : Got(side)' = 0
    BY <2>1, <2>2 DEF Got
  <2>. QED
    BY <1>1, <1>2, <2>2, <2>3, HasNoText DEF TextInv
<1>4. CASE op # "Assign"
  <2>1. delivered' = delivered
    BY <1>4, Stopping
  <2>2. \A side \in Sides : Got(side)' = Len(delivered)
    BY <1>1, <1>2, <1>4, <2>1 DEF Got
  <2>3. ASSUME NEW side \in Sides
        PROVE  HasText(adapter'.below[side], Len(delivered), ~adapter'.halfway)
    <3>1. HasText(adapter.below[side], Got(side), ~adapter.halfway)
      BY DEF TextInv
    <3>2. Got(side) \in Nat /\ Len(delivered) \in 0..Got(side)
      <4>1. adapter.pos \in Nat /\ adapter.side \in {1, 2} /\ side \in {1, 2}
        BY <1>2 DEF AdapterRecords
      <4>2. /\ side < adapter.side => Got(side) = Len(delivered) + (Len(buffer) - written)
            /\ side = adapter.side => Got(side) = Len(delivered) + adapter.pos
            /\ side > adapter.side => Got(side) = Len(delivered)
        BY <4>1 DEF Got
      <4>. QED
        BY <4>1, <4>2, Counts
    <3>3. ~adapter'.halfway => ~adapter.halfway /\ Len(delivered) = Got(side)
      BY <1>2, <1>4, Counts DEF Got
    <3>. QED
      BY <1>4, <3>1, <3>2, <3>3, HasTextFewer
  <2>. QED
    BY <1>1, <1>2, <1>4, <2>2, <2>3 DEF TextInv
<1>. QED
  BY <1>3, <1>4

\* A step that is no call of the adapter.
LEMMA TextQuiet ==
  ASSUME Inv, Inv', TextInv, ~Draining, UNCHANGED <<kind, adapter, delivered>>
  PROVE  TextInv'
<1>1. Draining' => 0 < Len(buffer') - written'
  BY CountsNext
<1>2. Len(delivered) \in Nat
  BY Counts
<1>. SUFFICES ASSUME kind # "Ring" PROVE TextInv'
  BY DEF TextInv
<1>3. Sides' = Sides /\ Sides \subseteq {1, 2}
  BY DEF Sides
<1>4. adapter.pos = 0 /\ adapter.side = 1
  BY DEF TextInv
<1>5. \A side \in Sides : Got(side)' = Got(side)
  BY <1>2, <1>3, <1>4 DEF Got
<1>. QED
  BY <1>1, <1>3, <1>4, <1>5 DEF TextInv

LEMMA TextFresh ==
  ASSUME Inv', ~Draining', delivered' = <<>>, adapter' = Fresh, kind' = kind
  PROVE  TextInv'
<1>1. Len(delivered') = 0
  BY Empty
<1>2. Sides' \subseteq {1, 2}
  BY DEF Sides
<1>3. /\ adapter'.pos = 0 /\ adapter'.side = 1
      /\ \A side \in {1, 2} : adapter'.below[side] = <<>>
  BY DEF Fresh
<1>4. \A side \in {1, 2} : Got(side)' = 0
  BY <1>1, <1>3 DEF Got
<1>. QED
  BY <1>2, <1>3, <1>4, HasNoText DEF TextInv

-----------------------------------------------------------------------------
(* The members of an adapter keep their types.                             *)

LEMMA AdapterConstants ==
  /\ PrefixSize \in Nat \ {0} /\ RingSize \in Nat \ {0}
  /\ BytesPerWindow \in Nat /\ WindowTicks \in Nat /\ MaxTicks \in Nat
  /\ FixedSize \in Nat /\ MaxHalfway \in Nat /\ MaxBytes \in Nat
  BY AdaptersAssumption, BufferedSinkAssumption

LEMMA FreshTypes == Fresh \in AdapterRecords
<1>0. \A s \in Seq(Nat) : <<s, s>> \in [1..2 -> Seq(Nat)]
  OBVIOUS
<1>1. /\ <<>> \in Seq(Nat) /\ <<<<>>, <<>>>> \in [1..2 -> Seq(Nat)]
  BY <1>0, Empty
<1>2. /\ [i \in 0..(RingSize - 1) |-> 0] \in [0..(RingSize - 1) -> Nat]
      /\ 0 \in 0..(RingSize - 1) /\ 0 \in 0..RingSize
  BY AdapterConstants
<1>. QED
  BY <1>1, <1>2, AdapterConstants DEF Fresh, AdapterRecords

\* Only what the sinks below have taken may differ.
OnlyBelow(a, b) ==
  /\ b.pos = a.pos /\ b.side = a.side /\ b.prefixed = a.prefixed
  /\ b.lineStart = a.lineStart /\ b.remaining = a.remaining /\ b.started = a.started
  /\ b.windowStart = a.windowStart /\ b.cells = a.cells /\ b.start = a.start
  /\ b.size = a.size /\ b.hashed = a.hashed /\ b.lines = a.lines /\ b.stamps = a.stamps
  /\ b.cleared = a.cleared /\ b.halfway = a.halfway /\ b.failures = a.failures

\* What changes with Put.
LEMMA PutProperties ==
  ASSUME NEW a \in AdapterRecords, NEW side \in {1, 2}, NEW bytes \in Seq(Nat)
  PROVE  LET b == Put(a, side, bytes)
         IN /\ b \in AdapterRecords
            /\ OnlyBelow(a, b)
            /\ b.below[side] = a.below[side] \o bytes
            /\ \A other \in {1, 2} : other # side => b.below[other] = a.below[other]
<1> DEFINE below == [a.below EXCEPT ![side] = @ \o bytes]
<1>1. a.below \in [1..2 -> Seq(Nat)] /\ side \in 1..2
  BY DEF AdapterRecords
<1>2. a.below[side] \o bytes \in Seq(Nat)
  BY <1>1, ConcatProperties
<1>3. /\ below \in [1..2 -> Seq(Nat)] /\ below[side] = a.below[side] \o bytes
      /\ \A other \in {1, 2} : other # side => below[other] = a.below[other]
  BY <1>1, <1>2
<1>4. Put(a, side, bytes) = [a EXCEPT !.below = below]
  BY DEF Put
<1>. HIDE DEF below
<1>5. Put(a, side, bytes) \in AdapterRecords /\ Put(a, side, bytes).below = below
      /\ OnlyBelow(a, Put(a, side, bytes))
  BY <1>3, <1>4 DEF AdapterRecords, OnlyBelow
<1>. QED
  BY <1>3, <1>4, <1>5

LEMMA WindowTypes ==
  ASSUME adapter \in AdapterRecords, clock \in Nat
  PROVE  /\ Window \in AdapterRecords
         /\ Window.below = adapter.below /\ Window.pos = adapter.pos
         /\ Window.side = adapter.side /\ Window.halfway = adapter.halfway
         /\ Window.stamps = adapter.stamps /\ Window.started = TRUE
         /\ Window.windowStart = IF ~adapter.started \/ Refills THEN clock
                                 ELSE adapter.windowStart
         /\ Window.remaining = IF Refills THEN BytesPerWindow ELSE adapter.remaining
  BY AdapterConstants DEF Window, AdapterRecords

-----------------------------------------------------------------------------
(* What the adapters pass on.                                              *)

AdapterBase ==
  /\ Inv
  /\ adapter \in AdapterRecords
  /\ kind \in AdapterKinds
  /\ newlines \in SUBSET Nat
  /\ clock \in Nat
  /\ TextInv
  /\ HashInv

\* What every step of an adapter that is not a RingBufferSink preserves.
TextKept == Inv' /\ adapter' \in AdapterRecords /\ TextInv' /\ HashInv'

\* The kinds whose WriteSome is one call below.
Plain == {"Hashing", "Limited", "Faulty", "Fixed", "Memory"}

LEMMA PlainReturns ==
  ASSUME AdapterBase, kind \in Plain, kind' = kind,
         NEW n \in 1..(Len(buffer) - written), SinkTakes(n),
         adapter'.below[1] = adapter.below[1] \o Offered(n),
         adapter'.pos = adapter.pos, adapter'.side = adapter.side,
         adapter'.halfway = adapter.halfway
  PROVE  TextInv'
<1>1. kind \notin {"Ring", "Tee", "Prefix"} /\ Sides = {1}
  BY DEF Plain, Sides
<1>2. adapter.pos = 0 /\ adapter.side = 1
  BY <1>1 DEF AdapterBase, TextInv
<1>3. HasText(adapter.below[1], Len(delivered), ~adapter.halfway)
  <2>1. Got(1) = Len(delivered)
    BY <1>2, Counts DEF Got, AdapterBase
  <2>. QED
    BY <1>1, <2>1 DEF AdapterBase, TextInv
<1>4. /\ Offered(n) \in Seq(Nat) /\ Len(Offered(n)) = n
      /\ \A i \in 1..Len(Offered(n)) : Offered(n)[i] = Len(delivered) + i
  BY OfferedFirst DEF AdapterBase
<1>5. adapter.below[1] \in Seq(Nat) /\ adapter.halfway \in BOOLEAN /\ Len(delivered) \in Nat
  BY Counts DEF AdapterBase, AdapterRecords
<1>6. HasText(adapter.below[1] \o Offered(n), Len(delivered) + Len(Offered(n)),
              ~adapter.halfway)
  BY <1>3, <1>4, <1>5, HasTextGrows
<1>. QED
  BY <1>1, <1>2, <1>4, <1>6, TextReturned DEF AdapterBase

LEMMA PlainStops ==
  ASSUME AdapterBase, kind \in Plain, kind' = kind, NEW a \in AdapterRecords, Stops(a),
         a.below = adapter.below, a.pos = adapter.pos, a.side = adapter.side,
         a.halfway = adapter.halfway, a.hashed = adapter.hashed
  PROVE  TextKept
<1>1. kind \notin {"Ring", "Tee", "Prefix"}
  BY DEF Plain
<1>2. adapter.pos = 0 /\ adapter.side = 1
  BY <1>1 DEF AdapterBase, TextInv
<1>3. SinkStops /\ Draining /\ adapter' = IF op = "Assign" THEN Fresh ELSE a
  BY DEF Stops, SinkStops
<1>4. TextInv'
  BY <1>1, <1>2, <1>3, TextStopped DEF AdapterBase
<1>5. HashInv'
  BY <1>3 DEF HashInv, AdapterBase, Fresh
<1>6. Inv' /\ adapter' \in AdapterRecords
  BY <1>3, Stopping, FreshTypes DEF AdapterBase
<1>. QED
  BY <1>4, <1>5, <1>6 DEF TextKept

LEMMA HashingKeeps ==
  ASSUME AdapterBase, HashingWrites, kind' = kind
  PROVE  TextKept
<1>1. kind = "Hashing" /\ kind \in Plain /\ adapter \in AdapterRecords
  BY DEF HashingWrites, Plain, AdapterBase
<1>2. CASE Stops(adapter)
  BY <1>1, <1>2, PlainStops
<1>3. ASSUME NEW n \in 1..Len(Unsent),
             Returns(n, [Put(adapter, 1, Offered(n)) EXCEPT !.hashed = @ \o Hashes(n)])
      PROVE  TextKept
  <2>1. n \in 1..(Len(buffer) - written) /\ n \in Nat /\ Inv
    BY <1>3, UnsentText DEF AdapterBase
  <2>2. Offered(n) \in Seq(Nat)
    BY <2>1, OfferedFirst
  <2> DEFINE b == Put(adapter, 1, Offered(n))
  <2>3. /\ b \in AdapterRecords /\ OnlyBelow(adapter, b)
        /\ b.below[1] = adapter.below[1] \o Offered(n)
    BY <1>1, <2>2, PutProperties
  <2>4. SinkTakes(n) /\ adapter' = [b EXCEPT !.hashed = b.hashed \o Offered(n)]
    BY <1>3, <2>3 DEF Returns, Hashes, AdapterRecords
  <2>. HIDE DEF b
  <2>5. b.hashed \o Offered(n) \in Seq(Nat)
    <3>1. b.hashed \in Seq(Nat)
      BY <2>3 DEF AdapterRecords
    <3>. QED
      BY <2>2, <3>1, ConcatProperties
  <2>6. /\ adapter' \in AdapterRecords /\ adapter'.below = b.below
        /\ adapter'.hashed = b.hashed \o Offered(n)
        /\ adapter'.pos = b.pos /\ adapter'.side = b.side /\ adapter'.halfway = b.halfway
    BY <2>3, <2>4, <2>5 DEF AdapterRecords
  <2>7. /\ b.hashed = adapter.hashed /\ b.pos = adapter.pos /\ b.side = adapter.side
        /\ b.halfway = adapter.halfway
    BY <1>1, <2>3 DEF OnlyBelow
  <2>8. TextInv'
    BY <1>1, <2>1, <2>3, <2>4, <2>6, <2>7, PlainReturns
  <2>9. HashInv'
    BY <1>1, <2>3, <2>6, <2>7 DEF HashInv, AdapterBase
  <2>10. Inv'
    BY <2>1, <2>4, Taking
  <2>. QED
    BY <2>6, <2>8, <2>9, <2>10 DEF TextKept
<1>. QED
  BY <1>2, <1>3 DEF HashingWrites

LEMMA MinimumBounds ==
  ASSUME NEW a \in Nat, NEW b \in Nat, NEW n \in 1..Minimum(a, b)
  PROVE  n \in 1..a /\ n <= b
  BY DEF Minimum

LEMMA BudgetedTypes ==
  ASSUME NEW a \in AdapterRecords, clock \in Nat, Inv,
         NEW n \in 1..Minimum(Len(Unsent), a.remaining)
  PROVE  LET b == Put(a, 1, Offered(n))
             c == [b EXCEPT !.remaining = @ - n, !.stamps = @ \o [i \in 1..n |-> clock]]
         IN  /\ c \in AdapterRecords /\ n \in 1..(Len(buffer) - written)
             /\ c.below[1] = a.below[1] \o Offered(n) /\ c.pos = a.pos /\ c.side = a.side
             /\ c.halfway = a.halfway /\ c.hashed = a.hashed /\ c.started = a.started
             /\ c.windowStart = a.windowStart /\ c.remaining = a.remaining - n
             /\ c.stamps = a.stamps \o [i \in 1..n |-> clock]
             /\ n \in Nat /\ n <= a.remaining
<1> DEFINE b == Put(a, 1, Offered(n))
           c == [b EXCEPT !.remaining = @ - n, !.stamps = @ \o [i \in 1..n |-> clock]]
<1>1. n \in 1..(Len(buffer) - written) /\ n \in Nat /\ n <= a.remaining /\ a.remaining \in Nat
      /\ a.stamps \in Seq(Nat)
  <2>1. a.remaining \in Nat /\ Len(Unsent) \in Nat /\ Len(Unsent) = Len(buffer) - written
        /\ a.stamps \in Seq(Nat)
    BY UnsentText, Counts DEF AdapterRecords
  <2>. QED
    BY <2>1, MinimumBounds
<1>2. Offered(n) \in Seq(Nat)
  BY <1>1, OfferedFirst
<1>3. /\ b \in AdapterRecords /\ OnlyBelow(a, b)
      /\ b.below[1] = a.below[1] \o Offered(n)
  BY <1>2, PutProperties
<1>4. [i \in 1..n |-> clock] \in Seq(Nat)
  <2>1. [i \in 1..n |-> clock] \in [1..n -> Nat]
    OBVIOUS
  <2>. QED
    BY <1>1, <2>1, FunctionIsSeq
<1>5. a.stamps \o [i \in 1..n |-> clock] \in Seq(Nat) /\ a.remaining - n \in Nat
  BY <1>1, <1>4, ConcatProperties
<1>. HIDE DEF b
<1>6. /\ b.remaining = a.remaining /\ b.stamps = a.stamps /\ b.pos = a.pos
      /\ b.side = a.side /\ b.halfway = a.halfway /\ b.hashed = a.hashed
      /\ b.started = a.started /\ b.windowStart = a.windowStart
  BY <1>3 DEF OnlyBelow
<1>7. c = [b EXCEPT !.remaining = a.remaining - n,
                    !.stamps = a.stamps \o [i \in 1..n |-> clock]]
  BY <1>3, <1>6 DEF AdapterRecords
<1> DEFINE stamps == a.stamps \o [i \in 1..n |-> clock]
           remaining == a.remaining - n
<1>8. stamps \in Seq(Nat) /\ remaining \in Nat
  BY <1>5
<1>9. c = [b EXCEPT !.remaining = remaining, !.stamps = stamps]
  BY <1>7
<1>. HIDE DEF stamps, remaining, c
<1>10. /\ c \in AdapterRecords /\ c.remaining = remaining /\ c.stamps = stamps
       /\ c.below = b.below /\ c.pos = b.pos /\ c.side = b.side /\ c.halfway = b.halfway
       /\ c.hashed = b.hashed /\ c.started = b.started /\ c.windowStart = b.windowStart
  BY <1>3, <1>8, <1>9 DEF AdapterRecords
<1>11. /\ c \in AdapterRecords /\ n \in 1..(Len(buffer) - written)
       /\ c.below[1] = a.below[1] \o Offered(n) /\ c.pos = a.pos /\ c.side = a.side
       /\ c.halfway = a.halfway /\ c.hashed = a.hashed /\ c.started = a.started
       /\ c.windowStart = a.windowStart /\ c.remaining = a.remaining - n
       /\ c.stamps = a.stamps \o [i \in 1..n |-> clock]
       /\ n \in Nat /\ n <= a.remaining
  BY <1>1, <1>3, <1>6, <1>10 DEF stamps, remaining
<1>. QED
  BY <1>11 DEF b, c

LEMMA BudgetedKeeps ==
  ASSUME AdapterBase, kind \in {"Limited", "Faulty"}, kind' = kind,
         NEW a \in AdapterRecords, Budgeted(a),
         a.below = adapter.below, a.pos = adapter.pos, a.side = adapter.side,
         a.halfway = adapter.halfway, a.hashed = adapter.hashed
  PROVE  TextKept
<1>1. kind \in Plain /\ kind # "Hashing"
  BY DEF Plain
<1>2. CASE Stops(a)
  BY <1>1, <1>2, PlainStops
<1>3. ASSUME NEW n \in 1..Minimum(Len(Unsent), a.remaining),
             Returns(n, [Put(a, 1, Offered(n)) EXCEPT
                           !.remaining = @ - n,
                           !.stamps = @ \o [i \in 1..n |-> clock]])
      PROVE  TextKept
  <2> DEFINE c == [Put(a, 1, Offered(n)) EXCEPT !.remaining = @ - n,
                                                !.stamps = @ \o [i \in 1..n |-> clock]]
  <2>1. SinkTakes(n) /\ adapter' = c
    BY <1>3 DEF Returns
  <2>2. /\ c \in AdapterRecords /\ n \in 1..(Len(buffer) - written)
        /\ c.below[1] = a.below[1] \o Offered(n) /\ c.pos = a.pos /\ c.side = a.side
        /\ c.halfway = a.halfway
    BY <1>3, BudgetedTypes DEF AdapterBase
  <2>. HIDE DEF c
  <2>3. TextInv'
    BY <1>1, <2>1, <2>2, PlainReturns
  <2>4. Inv' /\ HashInv'
    BY <1>1, <2>1, <2>2, Taking DEF AdapterBase, HashInv
  <2>. QED
    BY <2>1, <2>2, <2>3, <2>4 DEF TextKept
<1>. QED
  BY <1>2, <1>3 DEF Budgeted

LEMMA LimitedKeeps ==
  ASSUME AdapterBase, LimitedWrites \/ FaultyWrites, kind' = kind
  PROVE  TextKept
<1>1. CASE LimitedWrites
  <2>1. /\ kind \in {"Limited", "Faulty"} /\ Budgeted(Window)
        /\ Window \in AdapterRecords
        /\ Window.below = adapter.below /\ Window.pos = adapter.pos
        /\ Window.side = adapter.side /\ Window.halfway = adapter.halfway
    BY <1>1, WindowTypes DEF LimitedWrites, AdapterBase
  <2>2. Window.hashed = adapter.hashed
    BY DEF Window, AdapterBase, AdapterRecords
  <2>. QED
    BY <2>1, <2>2, BudgetedKeeps
<1>2. CASE FaultyWrites
  BY <1>2, BudgetedKeeps DEF FaultyWrites, AdapterBase
<1>. QED
  BY <1>1, <1>2

LEMMA BufferKeeps ==
  ASSUME AdapterBase, FixedWrites \/ MemoryWrites, kind' = kind
  PROVE  TextKept
<1>1. kind \in Plain /\ kind # "Hashing" /\ adapter \in AdapterRecords /\ Inv
  BY DEF Plain, FixedWrites, MemoryWrites, AdapterBase
<1>2. CASE Stops(adapter)
  BY <1>1, <1>2, PlainStops
<1>3. ASSUME NEW n \in 1..(Len(buffer) - written), Returns(n, Put(adapter, 1, Offered(n)))
      PROVE  TextKept
  <2>1. Offered(n) \in Seq(Nat)
    BY <1>1, OfferedFirst
  <2> DEFINE b == Put(adapter, 1, Offered(n))
  <2>2. /\ b \in AdapterRecords /\ OnlyBelow(adapter, b)
        /\ b.below[1] = adapter.below[1] \o Offered(n)
    BY <1>1, <2>1, PutProperties
  <2>3. SinkTakes(n) /\ adapter' = b
    BY <1>3 DEF Returns
  <2>. HIDE DEF b
  <2>4. b.pos = adapter.pos /\ b.side = adapter.side /\ b.halfway = adapter.halfway
    BY <1>1, <2>2 DEF OnlyBelow
  <2>5. TextInv'
    BY <1>1, <2>2, <2>3, <2>4, PlainReturns
  <2>6. Inv' /\ HashInv'
    BY <1>1, <2>3, Taking DEF HashInv
  <2>. QED
    BY <2>2, <2>3, <2>5, <2>6 DEF TextKept
<1>4. Draining => Len(Unsent) \in 1..(Len(buffer) - written) /\ Offered(Len(Unsent)) = Unsent
  <2>1. Unsent \in Seq(Nat) /\ Len(Unsent) = Len(buffer) - written /\ Len(Unsent) \in Nat
    BY <1>1, UnsentText, LenProperties
  <2>2. Offered(Len(Unsent)) = Unsent
    BY <2>1, SubSeqFull DEF Offered
  <2>. QED
    BY <1>1, <2>1, <2>2, Counts
<1>5. CASE FixedWrites
  <2> DEFINE available == FixedSize - Len(adapter.below[1])
             count == Minimum(Len(Unsent), available)
  <2>1. CASE available > 0 /\ Returns(count, Put(adapter, 1, Offered(count)))
    <3>1. Draining
      BY <2>1 DEF Returns, SinkTakes
    <3>2. available \in Nat
      <4>1. adapter.below[1] \in Seq(Nat)
        BY <1>1 DEF AdapterRecords
      <4>. QED
        BY <2>1, <4>1, LenProperties, AdapterConstants
    <3>3. count \in 1..(Len(buffer) - written)
      <4>1. Len(Unsent) = Len(buffer) - written /\ Len(Unsent) \in Nat /\ Len(Unsent) > 0
        BY <1>1, <1>4, <3>1, UnsentText, Counts
      <4>. QED
        BY <2>1, <3>2, <4>1 DEF Minimum
    <3>. QED
      BY <1>3, <2>1, <3>3
  <2>2. CASE available = 0 /\ Stops(adapter)
    BY <1>2, <2>2
  <2>. QED
    BY <1>5, <2>1, <2>2 DEF FixedWrites
<1>6. CASE MemoryWrites
  <2>1. CASE Returns(Len(Unsent), Put(adapter, 1, Unsent))
    <3>1. Draining
      BY <2>1 DEF Returns, SinkTakes
    <3>. QED
      BY <1>3, <1>4, <2>1, <3>1
  <2>. QED
    BY <1>2, <1>6, <2>1 DEF MemoryWrites
<1>. QED
  BY <1>5, <1>6

\* The call goes on, and the sinks below have what it has passed on.
LEMMA TextGoesOn ==
  ASSUME Inv, TextInv, kind \in {"Tee", "Prefix"}, kind' = kind, UNCHANGED vars, Draining,
         adapter'.pos < Len(buffer) - written,
         kind # "Tee" => adapter'.side = 1,
         \A side \in Sides : HasText(adapter'.below[side], Got(side)', ~adapter'.halfway)
  PROVE  TextInv' /\ Inv'
<1>1. /\ Draining' /\ Sides' = Sides /\ buffer' = buffer /\ written' = written
      /\ Inv'
  BY DEF vars, Draining, Sides, Inv, TypeOK, Control, ExactlyOnceInOrder, Sent,
         LossNeedsFailure
<1>. QED
  BY <1>1 DEF TextInv

\* What the sink a call is at has after n more bytes.
LEMMA PutText ==
  ASSUME AdapterBase, kind # "Ring", Draining, adapter.side \in Sides,
         NEW n \in Nat, adapter.pos + n <= Len(buffer) - written
  PROVE  LET more == SubSeq(Unsent, adapter.pos + 1, adapter.pos + n)
             b == Put(adapter, adapter.side, more)
         IN /\ more \in Seq(Nat) /\ b \in AdapterRecords
            /\ OnlyBelow(adapter, b)
            /\ b.below[adapter.side] = adapter.below[adapter.side] \o more
            /\ \A other \in {1, 2} : other # adapter.side => b.below[other] = adapter.below[other]
            /\ HasText(b.below[adapter.side], Len(delivered) + (adapter.pos + n),
                       ~adapter.halfway)
<1> DEFINE more == SubSeq(Unsent, adapter.pos + 1, adapter.pos + n)
           b == Put(adapter, adapter.side, more)
<1>1. /\ adapter \in AdapterRecords /\ adapter.pos \in Nat /\ adapter.side \in {1, 2}
      /\ adapter.below[adapter.side] \in Seq(Nat) /\ Len(delivered) \in Nat
  <2>1. {1, 2} \subseteq 1..2
    OBVIOUS
  <2>. QED
    BY <2>1, Counts DEF AdapterBase, AdapterRecords
<1>2. /\ more \in Seq(Nat) /\ Len(more) = n
      /\ \A i \in 1..Len(more) : more[i] = (Len(delivered) + adapter.pos) + i
  BY <1>1, OfferedText DEF AdapterBase
<1>. HIDE DEF more
<1>3. /\ b \in AdapterRecords /\ OnlyBelow(adapter, b)
      /\ b.below[adapter.side] = adapter.below[adapter.side] \o more
      /\ \A other \in {1, 2} : other # adapter.side => b.below[other] = adapter.below[other]
  <2> DEFINE a == adapter
             side == adapter.side
             c == Put(a, side, more)
  <2>1. a \in AdapterRecords /\ side \in {1, 2} /\ more \in Seq(Nat)
    BY <1>1, <1>2
  <2>. HIDE DEF a, side
  <2>2. /\ c \in AdapterRecords /\ OnlyBelow(a, c)
        /\ c.below[side] = a.below[side] \o more
        /\ \A other \in {1, 2} : other # side => c.below[other] = a.below[other]
    BY <2>1, PutProperties
  <2>. HIDE DEF c
  <2>3. b = c
    BY DEF a, side, c
  <2>. QED
    BY <2>2, <2>3 DEF a, side
<1>. HIDE DEF b
<1>4. Got(adapter.side) = Len(delivered) + adapter.pos
  BY <1>1 DEF Got
<1>5. HasText(adapter.below[adapter.side], Len(delivered) + adapter.pos, ~adapter.halfway)
  BY <1>4 DEF AdapterBase, TextInv
<1>6. HasText(adapter.below[adapter.side] \o more,
              (Len(delivered) + adapter.pos) + Len(more), ~adapter.halfway)
  <2>1. Len(delivered) + adapter.pos \in Nat
    BY <1>1
  <2>. QED
    BY <1>1, <1>2, <1>5, <2>1, HasTextGrows
<1>7. (Len(delivered) + adapter.pos) + Len(more) = Len(delivered) + (adapter.pos + n)
  BY <1>1, <1>2
<1>8. /\ more \in Seq(Nat) /\ b \in AdapterRecords
      /\ OnlyBelow(adapter, b)
      /\ b.below[adapter.side] = adapter.below[adapter.side] \o more
      /\ \A other \in {1, 2} : other # adapter.side => b.below[other] = adapter.below[other]
      /\ HasText(b.below[adapter.side], Len(delivered) + (adapter.pos + n), ~adapter.halfway)
  BY <1>2, <1>3, <1>6, <1>7
<1>. QED
  BY <1>8 DEF b, more

LEMMA HalfwayKeeps ==
  ASSUME AdapterBase, kind \in {"Tee", "Prefix"}, kind' = kind,
         NEW some \in BOOLEAN, FailsHalfway(some),
         ~some => adapter.pos = 0 /\ adapter.side = 1
  PROVE  TextKept
<1> DEFINE left == some \/ adapter.prefixed > 0
           count == IF left THEN adapter.failures + 1 ELSE adapter.failures
           halfway == adapter.halfway \/ some
           b == [adapter EXCEPT !.pos = 0, !.side = 1, !.prefixed = 0,
                                !.halfway = halfway, !.failures = count]
<1>1. Stops(b)
  BY DEF FailsHalfway, AdapterBase, AdapterRecords
<1>2. count \in Nat /\ halfway \in BOOLEAN /\ (~halfway => ~adapter.halfway /\ ~some)
  BY DEF AdapterBase, AdapterRecords
<1>. HIDE DEF count, halfway, left
<1>3. /\ b \in AdapterRecords /\ b.pos = 0 /\ b.side = 1 /\ b.below = adapter.below
      /\ b.halfway = halfway
  BY <1>2 DEF AdapterBase, AdapterRecords
<1>. HIDE DEF b
<1>4. SinkStops /\ Draining /\ adapter' = IF op = "Assign" THEN Fresh ELSE b
  BY <1>1 DEF Stops, SinkStops
<1>5. TextInv'
  BY <1>2, <1>3, <1>4, TextStopped DEF AdapterBase
<1>6. HashInv' /\ Inv' /\ adapter' \in AdapterRecords
  BY <1>3, <1>4, Stopping, FreshTypes DEF AdapterBase, HashInv
<1>. QED
  BY <1>5, <1>6 DEF TextKept

LEMMA TeeKeeps ==
  ASSUME AdapterBase, TeeWrites, kind' = kind
  PROVE  TextKept
<1>1. /\ kind = "Tee" /\ Sides = {1, 2} /\ adapter \in AdapterRecords /\ Inv /\ TextInv
      /\ adapter.pos \in Nat /\ adapter.side \in {1, 2} /\ Len(delivered) \in Nat
      /\ Len(buffer) - written \in Nat /\ Len(Unsent) = Len(buffer) - written
  BY Counts, UnsentText DEF AdapterBase, AdapterRecords, TeeWrites, Sides
<1>2. \A side \in {1, 2} : HasText(adapter.below[side], Got(side), ~adapter.halfway)
  BY <1>1 DEF TextInv
<1>3. PICK n \in 1..(Len(Unsent) - adapter.pos) :
        LET end == adapter.pos + n
            a == Put(adapter, adapter.side, SubSeq(Unsent, adapter.pos + 1, end))
        IN \/ end < Len(Unsent) /\ GoesOn([a EXCEPT !.pos = end])
           \/ /\ end = Len(Unsent) /\ adapter.side = 1
              /\ GoesOn([a EXCEPT !.pos = 0, !.side = 2])
           \/ /\ end = Len(Unsent) /\ adapter.side = 2
              /\ Returns(end, [a EXCEPT !.pos = 0, !.side = 1])
  BY DEF TeeWrites
<1> DEFINE end == adapter.pos + n
           a == Put(adapter, adapter.side, SubSeq(Unsent, adapter.pos + 1, end))
<1>4. n \in Nat /\ end \in Nat /\ end <= Len(buffer) - written /\ end >= 1
  BY <1>1
<1>5. Draining
  BY <1>3 DEF GoesOn, Returns, SinkTakes
<1>6. /\ a \in AdapterRecords /\ OnlyBelow(adapter, a)
      /\ \A other \in {1, 2} : other # adapter.side => a.below[other] = adapter.below[other]
      /\ HasText(a.below[adapter.side], Len(delivered) + end, ~adapter.halfway)
  BY <1>1, <1>4, <1>5, PutText
<1>7. \/ end < Len(buffer) - written /\ GoesOn([a EXCEPT !.pos = end])
      \/ /\ end = Len(buffer) - written /\ adapter.side = 1
         /\ GoesOn([a EXCEPT !.pos = 0, !.side = 2])
      \/ /\ end = Len(buffer) - written /\ adapter.side = 2
         /\ Returns(end, [a EXCEPT !.pos = 0, !.side = 1])
  BY <1>1, <1>3
<1>. HIDE DEF a, end
<1>8. a.halfway = adapter.halfway /\ a.pos = adapter.pos /\ a.side = adapter.side
  BY <1>1, <1>6 DEF OnlyBelow
<1>9. HashInv'
  BY <1>1 DEF HashInv
<1>10. CASE end < Len(buffer) - written /\ GoesOn([a EXCEPT !.pos = end])
  <2>1. /\ adapter' \in AdapterRecords /\ adapter'.pos = end /\ adapter'.side = adapter.side
        /\ adapter'.below = a.below /\ adapter'.halfway = adapter.halfway
        /\ UNCHANGED vars /\ delivered' = delivered
    BY <1>4, <1>6, <1>8, <1>10 DEF GoesOn, AdapterRecords, vars
  <2>2. /\ Got(adapter.side)' = Len(delivered) + end
        /\ \A other \in {1, 2} : other # adapter.side => Got(other)' = Got(other)
    BY <1>1, <2>1 DEF Got, vars
  <2>3. \A side \in Sides : HasText(adapter'.below[side], Got(side)', ~adapter'.halfway)
    BY <1>1, <1>2, <1>6, <2>1, <2>2
  <2>4. TextInv' /\ Inv'
    BY <1>1, <1>5, <1>10, <2>1, <2>3, TextGoesOn
  <2>. QED
    BY <1>9, <2>1, <2>4 DEF TextKept
<1>11. CASE /\ end = Len(buffer) - written /\ adapter.side = 1
            /\ GoesOn([a EXCEPT !.pos = 0, !.side = 2])
  <2>1. /\ adapter' \in AdapterRecords /\ adapter'.pos = 0 /\ adapter'.side = 2
        /\ adapter'.below = a.below /\ adapter'.halfway = adapter.halfway
        /\ UNCHANGED vars /\ delivered' = delivered
    BY <1>6, <1>8, <1>11 DEF GoesOn, AdapterRecords, vars
  <2>2. /\ Got(1)' = Len(delivered) + end /\ Got(2)' = Got(2)
    BY <1>1, <1>11, <2>1 DEF Got, vars
  <2>3. \A side \in Sides : HasText(adapter'.below[side], Got(side)', ~adapter'.halfway)
    <3>1. HasText(adapter'.below[1], Got(1)', ~adapter'.halfway)
      BY <1>6, <1>11, <2>1, <2>2
    <3>2. adapter'.below[2] = adapter.below[2]
      BY <1>6, <1>11, <2>1
    <3>3. HasText(adapter'.below[2], Got(2)', ~adapter'.halfway)
      BY <1>2, <2>1, <2>2, <3>2
    <3>. QED
      BY <1>1, <3>1, <3>3
  <2>4. adapter'.pos < Len(buffer) - written
    BY <1>1, <1>4, <1>11, <2>1
  <2>5. TextInv' /\ Inv'
    BY <1>1, <1>5, <2>1, <2>3, <2>4, TextGoesOn
  <2>. QED
    BY <1>9, <2>1, <2>5 DEF TextKept
<1>12. CASE /\ end = Len(buffer) - written /\ adapter.side = 2
            /\ Returns(end, [a EXCEPT !.pos = 0, !.side = 1])
  <2>1. /\ adapter' \in AdapterRecords /\ adapter'.pos = 0 /\ adapter'.side = 1
        /\ adapter'.below = a.below /\ adapter'.halfway = adapter.halfway
        /\ SinkTakes(end)
    BY <1>6, <1>8, <1>12 DEF Returns, AdapterRecords
  <2>2. Got(1) = Len(delivered) + end
    BY <1>1, <1>12 DEF Got
  <2>3. end \in 1..(Len(buffer) - written)
    BY <1>1, <1>4
  <2>4. \A side \in Sides :
          HasText(adapter'.below[side], Len(delivered) + end, ~adapter'.halfway)
    BY <1>1, <1>2, <1>6, <1>12, <2>1, <2>2
  <2>5. TextInv'
    BY <1>1, <2>1, <2>3, <2>4, TextReturned
  <2>6. Inv'
    BY <1>1, <2>1, <2>3, Taking
  <2>. QED
    BY <1>9, <2>1, <2>5, <2>6 DEF TextKept
<1>. QED
  BY <1>7, <1>10, <1>11, <1>12

LEMMA TeeFailsKeeps ==
  ASSUME AdapterBase, TeeFails, kind' = kind
  PROVE  TextKept
<1> DEFINE some == adapter.pos > 0 \/ adapter.side = 2
<1>1. some \in BOOLEAN /\ FailsHalfway(some) /\ kind = "Tee"
  BY DEF TeeFails
<1>2. ~some => adapter.pos = 0 /\ adapter.side = 1
  BY DEF AdapterBase, AdapterRecords
<1>. HIDE DEF some
<1>. QED
  BY <1>1, <1>2, HalfwayKeeps

LEMMA PrefixKeeps ==
  ASSUME AdapterBase, PrefixWritten \/ PrefixedByte, kind' = kind
  PROVE  TextKept
<1>1. /\ kind = "Prefix" /\ Sides = {1} /\ adapter \in AdapterRecords /\ Inv /\ TextInv
      /\ adapter.pos \in Nat /\ adapter.side = 1 /\ Len(delivered) \in Nat
      /\ Len(buffer) - written \in Nat /\ Len(Unsent) = Len(buffer) - written
      /\ adapter.below \in [1..2 -> Seq(Nat)]
  <2>1. kind = "Prefix"
    BY DEF PrefixWritten, PrefixedByte
  <2>. QED
    BY <2>1, Counts, UnsentText DEF AdapterBase, AdapterRecords, Sides, TextInv
<1>2. HasText(adapter.below[1], Len(delivered) + adapter.pos, ~adapter.halfway)
  <2>1. Got(1) = Len(delivered) + adapter.pos
    BY <1>1 DEF Got
  <2>. QED
    BY <1>1, <2>1 DEF TextInv
<1>3. HashInv'
  BY <1>1 DEF HashInv
<1>4. CASE PrefixWritten
  <2>1. PICK n \in 1..(PrefixSize - adapter.prefixed) :
          LET whole == adapter.prefixed + n = PrefixSize
          IN GoesOn([adapter EXCEPT !.lines = @ \o [i \in 1..n |-> 0],
                                    !.prefixed = IF whole THEN 0 ELSE @ + n,
                                    !.lineStart = ~whole])
    BY <1>4 DEF PrefixWritten
  <2> DEFINE whole == adapter.prefixed + n = PrefixSize
             lines == adapter.lines \o [i \in 1..n |-> 0]
             prefixed == IF whole THEN 0 ELSE adapter.prefixed + n
             b == [adapter EXCEPT !.lines = lines, !.prefixed = prefixed,
                                  !.lineStart = ~whole]
  <2>2. GoesOn(b)
    BY <1>1, <2>1 DEF AdapterRecords
  <2>3. lines \in Seq(Nat)
    <3>1. [i \in 1..n |-> 0] \in [1..n -> Nat] /\ n \in Nat
      BY AdapterConstants, <1>1 DEF AdapterRecords
    <3>2. [i \in 1..n |-> 0] \in Seq(Nat)
      BY <3>1, FunctionIsSeq
    <3>3. adapter.lines \in Seq(Nat)
      BY <1>1 DEF AdapterRecords
    <3>. QED
      BY <3>2, <3>3, ConcatProperties
  <2>4. prefixed \in Nat /\ whole \in BOOLEAN
    <3>1. adapter.prefixed \in Nat
      BY <1>1 DEF AdapterRecords
    <3>2. n \in Nat /\ 0 \in Nat
      BY <3>1, AdapterConstants
    <3>. QED
      BY <3>1, <3>2
  <2>. HIDE DEF lines, prefixed, whole
  <2>5. /\ b \in AdapterRecords /\ b.pos = adapter.pos /\ b.side = adapter.side
        /\ b.below = adapter.below /\ b.halfway = adapter.halfway
    BY <1>1, <2>3, <2>4 DEF AdapterRecords
  <2>. HIDE DEF b
  <2>6. adapter' = b /\ UNCHANGED vars /\ Draining /\ delivered' = delivered
    BY <2>2 DEF GoesOn, vars
  <2>7. Got(1)' = Len(delivered) + adapter.pos
    BY <1>1, <2>5, <2>6 DEF Got
  <2>8. adapter.pos < Len(buffer) - written
    BY <1>1, <2>6 DEF TextInv
  <2>9. TextInv' /\ Inv'
    BY <1>1, <1>2, <2>5, <2>6, <2>7, <2>8, TextGoesOn
  <2>. QED
    BY <1>3, <2>5, <2>6, <2>9 DEF TextKept
<1>5. CASE PrefixedByte
  <2> DEFINE byte == Unsent[adapter.pos + 1]
             c == [Put(adapter, 1, <<byte>>) EXCEPT !.lines = Append(@, byte),
                                                    !.lineStart = StartsLine(byte)]
  <2>1. /\ Draining
        /\ \/ adapter.pos + 1 < Len(Unsent) /\ GoesOn([c EXCEPT !.pos = @ + 1])
           \/ adapter.pos + 1 = Len(Unsent) /\ Returns(Len(Unsent), [c EXCEPT !.pos = 0])
    BY <1>5 DEF PrefixedByte
  <2>2. adapter.pos + 1 <= Len(buffer) - written
    BY <1>1, <2>1
  <2>3. /\ Unsent \in Seq(Nat) /\ adapter.pos + 1 \in 1..Len(Unsent) /\ byte \in Nat
        /\ SubSeq(Unsent, adapter.pos + 1, adapter.pos + 1) = <<byte>>
    <3>1. Unsent \in Seq(Nat) /\ adapter.pos + 1 \in 1..Len(Unsent)
      BY <1>1, <2>2, UnsentText
    <3>2. byte \in Nat
      BY <3>1, ElementOfSeq
    <3>3. SubSeq(Unsent, adapter.pos + 1, adapter.pos + 1) = <<byte>>
      <4> DEFINE p == adapter.pos + 1
      <4>1. p \in Int /\ p \in Nat /\ \A i \in p..p : Unsent[i] \in Nat
        BY <1>1, <3>2
      <4>. HIDE DEF p
      <4>2. /\ SubSeq(Unsent, p, p) \in Seq(Nat)
            /\ Len(SubSeq(Unsent, p, p)) = IF p <= p THEN p - p + 1 ELSE 0
            /\ \A i \in 1..(p - p + 1) : SubSeq(Unsent, p, p)[i] = Unsent[p + i - 1]
        BY <4>1, SubSeqProperties
      <4>3. p - p + 1 = 1 /\ p <= p /\ p + 1 - 1 = p /\ 1 \in 1..1
        BY <4>1
      <4>4. Len(SubSeq(Unsent, p, p)) = 1 /\ SubSeq(Unsent, p, p)[1] = Unsent[p]
        BY <4>2, <4>3
      <4>5. SubSeq(Unsent, p, p) = <<Unsent[p]>>
        <5>1. ASSUME NEW s \in Seq(Nat), Len(s) = 1
              PROVE  s = <<s[1]>>
          <6>1. <<s[1]>> \in Seq(Nat) /\ Len(<<s[1]>>) = 1 /\ <<s[1]>>[1] = s[1]
            BY <5>1, ElementOfSeq
          <6>2. \A i \in 1..Len(s) : s[i] = <<s[1]>>[i]
            BY <5>1, <6>1
          <6>. QED
            BY <5>1, <6>1, <6>2, SeqEqual
        <5>. QED
          BY <4>2, <4>4, <5>1
      <4>. QED
        BY <4>5 DEF p
    <3>. QED
      BY <3>1, <3>2, <3>3
  <2> DEFINE a == Put(adapter, 1, <<byte>>)
  <2>4. /\ a \in AdapterRecords /\ OnlyBelow(adapter, a)
        /\ HasText(a.below[1], Len(delivered) + (adapter.pos + 1), ~adapter.halfway)
    <3>1. 1 \in Nat /\ adapter.side \in Sides /\ kind # "Ring"
      BY <1>1
    <3> DEFINE n == 1
    <3>2. n \in Nat /\ adapter.pos + n <= Len(buffer) - written
      BY <2>2
    <3>3. n = 1
      OBVIOUS
    <3>. HIDE DEF n
    <3>4. LET more == SubSeq(Unsent, adapter.pos + 1, adapter.pos + n)
              b == Put(adapter, adapter.side, more)
          IN /\ b \in AdapterRecords
             /\ OnlyBelow(adapter, b)
             /\ HasText(b.below[adapter.side], Len(delivered) + (adapter.pos + n),
                        ~adapter.halfway)
      BY <2>1, <3>1, <3>2, PutText
    <3>. QED
      BY <1>1, <2>3, <3>3, <3>4
  <2>5. Append(a.lines, byte) \in Seq(Nat) /\ StartsLine(byte) \in BOOLEAN
    <3>1. a.lines \in Seq(Nat)
      BY <2>4 DEF AdapterRecords
    <3>. QED
      BY <2>3, <3>1, AppendProperties DEF StartsLine
  <2>. HIDE DEF byte, a
  <2>6. /\ c \in AdapterRecords /\ c.pos = a.pos /\ c.side = a.side
        /\ c.below = a.below /\ c.halfway = a.halfway
    BY <2>4, <2>5 DEF AdapterRecords, a
  <2>7. a.pos = adapter.pos /\ a.side = 1 /\ a.halfway = adapter.halfway
    BY <1>1, <2>4 DEF OnlyBelow
  <2>. HIDE DEF c
  <2>8. CASE adapter.pos + 1 < Len(Unsent) /\ GoesOn([c EXCEPT !.pos = @ + 1])
    <3>1. /\ adapter' \in AdapterRecords /\ adapter'.pos = adapter.pos + 1
          /\ adapter'.side = 1 /\ adapter'.below = a.below
          /\ adapter'.halfway = adapter.halfway
          /\ UNCHANGED vars /\ delivered' = delivered
      <4>1. adapter' = [c EXCEPT !.pos = c.pos + 1] /\ UNCHANGED vars /\ delivered' = delivered
        BY <2>8 DEF GoesOn, vars
      <4>2. c.pos + 1 = adapter.pos + 1 /\ adapter.pos + 1 \in Nat
        BY <1>1, <2>6, <2>7
      <4>. QED
        BY <2>6, <2>7, <4>1, <4>2 DEF AdapterRecords
    <3>2. Got(1)' = Len(delivered) + (adapter.pos + 1)
      BY <3>1 DEF Got
    <3>3. adapter'.pos < Len(buffer) - written
      BY <1>1, <2>8, <3>1
    <3>4. TextInv' /\ Inv'
      BY <1>1, <2>1, <2>4, <3>1, <3>2, <3>3, TextGoesOn
    <3>. QED
      BY <1>3, <3>1, <3>4 DEF TextKept
  <2>9. CASE adapter.pos + 1 = Len(Unsent) /\ Returns(Len(Unsent), [c EXCEPT !.pos = 0])
    <3>1. /\ adapter' \in AdapterRecords /\ adapter'.pos = 0
          /\ adapter'.side = 1 /\ adapter'.below = a.below
          /\ adapter'.halfway = adapter.halfway
          /\ SinkTakes(adapter.pos + 1)
      BY <2>6, <2>7, <2>9 DEF Returns, AdapterRecords
    <3>2. adapter.pos + 1 \in 1..(Len(buffer) - written)
      BY <1>1, <2>2
    <3>3. TextInv'
      BY <1>1, <2>4, <3>1, <3>2, TextReturned
    <3>4. Inv'
      BY <1>1, <3>1, <3>2, Taking
    <3>. QED
      BY <1>3, <3>1, <3>3, <3>4 DEF TextKept
  <2>. QED
    BY <2>1, <2>8, <2>9 DEF c
<1>. QED
  BY <1>4, <1>5

LEMMA PrefixFailsKeeps ==
  ASSUME AdapterBase, PrefixFails \/ PrefixedByteFails, kind' = kind
  PROVE  TextKept
<1>1. /\ kind = "Prefix" /\ Sides = {1} /\ adapter \in AdapterRecords /\ Inv /\ TextInv
      /\ adapter.pos \in Nat /\ adapter.side = 1 /\ Len(delivered) \in Nat
      /\ Len(buffer) - written \in Nat
  <2>1. kind = "Prefix"
    BY DEF PrefixFails, PrefixedByteFails
  <2>. QED
    BY <2>1, Counts DEF AdapterBase, AdapterRecords, Sides, TextInv
<1>2. HashInv'
  BY <1>1 DEF HashInv
<1>3. CASE PrefixFails
  <2> DEFINE some == adapter.pos > 0
  <2>1. some \in BOOLEAN /\ FailsHalfway(some)
    BY <1>3 DEF PrefixFails
  <2>2. ~some => adapter.pos = 0 /\ adapter.side = 1
    BY <1>1
  <2>. HIDE DEF some
  <2>. QED
    BY <1>1, <2>1, <2>2, HalfwayKeeps
<1>4. CASE adapter.pos > 0 /\ Returns(adapter.pos, [adapter EXCEPT !.pos = 0])
  <2>1. /\ adapter' \in AdapterRecords /\ adapter'.pos = 0 /\ adapter'.side = 1
        /\ adapter'.below = adapter.below /\ adapter'.halfway = adapter.halfway
        /\ SinkTakes(adapter.pos) /\ Draining
    BY <1>1, <1>4 DEF Returns, AdapterRecords, SinkTakes
  <2>2. adapter.pos \in 1..(Len(buffer) - written)
    BY <1>1, <1>4, <2>1 DEF TextInv
  <2>3. HasText(adapter.below[1], Len(delivered) + adapter.pos, ~adapter.halfway)
    <3>1. Got(1) = Len(delivered) + adapter.pos
      BY <1>1 DEF Got
    <3>. QED
      BY <1>1, <3>1 DEF TextInv
  <2>4. TextInv'
    BY <1>1, <2>1, <2>2, <2>3, TextReturned
  <2>5. Inv'
    BY <1>1, <2>1, <2>2, Taking
  <2>. QED
    BY <1>2, <2>1, <2>4, <2>5 DEF TextKept
<1>5. CASE adapter.pos = 0 /\ Stops(adapter)
  <2>1. SinkStops /\ Draining /\ adapter' = IF op = "Assign" THEN Fresh ELSE adapter
    BY <1>5 DEF Stops, SinkStops
  <2>2. TextInv'
    BY <1>1, <1>5, <2>1, TextStopped
  <2>3. Inv' /\ adapter' \in AdapterRecords
    BY <1>1, <2>1, Stopping, FreshTypes
  <2>. QED
    BY <1>2, <2>2, <2>3 DEF TextKept
<1>. QED
  BY <1>3, <1>4, <1>5 DEF PrefixedByteFails

-----------------------------------------------------------------------------
(* RingBufferSink.                                                         *)

\* The ring has the latest of d bytes, as many as fit.
RingHolds(a, d) ==
  /\ a.cleared <= d
  /\ a.size = Minimum(RingSize, d - a.cleared)
  /\ \A i \in 1..a.size : a.cells[(a.start + i - 1) % RingSize] = d - a.size + i

RingInv == kind = "Ring" => RingHolds(adapter, Len(delivered))

LEMMA Wraps ==
  ASSUME NEW x \in 0..(RingSize + RingSize - 1)
  PROVE  /\ x % RingSize = IF x < RingSize THEN x ELSE x - RingSize
         /\ x % RingSize \in 0..(RingSize - 1)
<1>1. RingSize \in Nat \ {0}
  BY AdapterConstants
<1>2. CASE x < RingSize
  <2>1. x \in 0..(RingSize - 1)
    BY <1>1, <1>2
  <2>2. x % RingSize = x
    BY <1>1, <2>1
  <2>. QED
    BY <1>2, <2>1, <2>2
<1>3. CASE x >= RingSize
  <2>1. x \in RingSize..(RingSize + RingSize - 1)
    BY <1>1, <1>3
  <2>2. x % RingSize = x - RingSize
    BY <1>1, <2>1
  <2>3. ~(x < RingSize) /\ x - RingSize \in 0..(RingSize - 1)
    BY <1>1, <2>1
  <2>. QED
    BY <2>2, <2>3
<1>. QED
  BY <1>1, <1>2, <1>3

\* One byte more.
LEMMA RingPutHolds ==
  ASSUME NEW a \in AdapterRecords, NEW d \in Nat, RingHolds(a, d)
  PROVE  RingPut(a, d + 1) \in AdapterRecords /\ RingHolds(RingPut(a, d + 1), d + 1)
<1> DEFINE R == RingSize
           Cell(x) == x % RingSize
           free == Cell(a.start + a.size)
           cells == [a.cells EXCEPT ![free] = d + 1]
           b == RingPut(a, d + 1)
<1>1. /\ R \in Nat \ {0} /\ a.start \in 0..(R - 1) /\ a.size \in 0..R
  BY AdapterConstants DEF AdapterRecords
<1>0. /\ a.cells \in [0..(R - 1) -> Nat] /\ a.cleared \in Nat
      /\ a.cleared <= d /\ a.size = Minimum(R, d - a.cleared)
  BY AdapterConstants DEF AdapterRecords, RingHolds
<1>10. \A i \in 1..a.size : a.cells[Cell(a.start + i - 1)] = d - a.size + i
  BY DEF RingHolds
<1>2. \A x \in 0..(R + R - 1) : /\ Cell(x) = IF x < R THEN x ELSE x - R
                                /\ Cell(x) \in 0..(R - 1)
  BY Wraps
<1>3. /\ b.size = IF a.size < R THEN a.size + 1 ELSE a.size
      /\ b.start = IF a.size < R THEN a.start ELSE Cell(a.start + 1)
      /\ b.cells = cells /\ b.cleared = a.cleared
  BY DEF RingPut, AdapterRecords
<1>4. /\ b.size \in 0..R /\ b.start \in 0..(R - 1) /\ b.cells \in [0..(R - 1) -> Nat]
      /\ b.cleared \in Nat
      => b \in AdapterRecords
  <2>1. b = [a EXCEPT !.cells = b.cells, !.size = b.size, !.start = b.start]
    BY DEF RingPut, AdapterRecords
  <2>. HIDE DEF b
  <2>. QED
    BY <2>1 DEF AdapterRecords
<1>5. \A d1 \in Nat : RingHolds(b, d1) <=>
         /\ b.cleared <= d1 /\ b.size = Minimum(R, d1 - b.cleared)
         /\ \A i \in 1..b.size : b.cells[Cell(b.start + i - 1)] = d1 - b.size + i
  BY DEF RingHolds
<1>. HIDE DEF Cell, R, b
<1>6. /\ a.start + a.size \in 0..(R + R - 1) /\ free \in 0..(R - 1)
      /\ free = IF a.start + a.size < R THEN a.start + a.size ELSE a.start + a.size - R
  <2>1. a.start + a.size \in 0..(R + R - 1)
    BY <1>1
  <2>. QED
    BY <1>1, <1>2, <2>1
<1>. HIDE DEF free
<1>7. /\ cells \in [0..(R - 1) -> Nat] /\ cells[free] = d + 1
      /\ \A x \in 0..(R - 1) : x # free => cells[x] = a.cells[x]
  <2>1. a.cells \in [0..(R - 1) -> Nat] /\ free \in 0..(R - 1) /\ d + 1 \in Nat
    BY <1>0, <1>6
  <2>. QED
    BY <2>1
<1>. HIDE DEF cells
<1>8. CASE a.size < R
  <2>1. b.size = a.size + 1 /\ b.start = a.start
    BY <1>3, <1>8
  <2>2. b.size \in 0..R /\ b.cleared <= d + 1 /\ b.size = Minimum(R, (d + 1) - b.cleared)
    BY <1>0, <1>1, <1>3, <1>8, <2>1 DEF Minimum
  <2>3. ASSUME NEW i \in 1..b.size
        PROVE  b.cells[Cell(b.start + i - 1)] = (d + 1) - b.size + i
    <3>1. /\ a.start + i - 1 \in 0..(R + R - 1)
          /\ Cell(a.start + i - 1) \in 0..(R - 1)
          /\ Cell(a.start + i - 1) = IF a.start + i - 1 < R THEN a.start + i - 1
                                   ELSE a.start + i - 1 - R
      <4>1. a.start + i - 1 \in 0..(R + R - 1)
        BY <1>1, <1>8, <2>1
      <4>. QED
        BY <1>1, <1>2, <4>1
    <3>2. CASE i = a.size + 1
      <4>1. a.start + i - 1 = a.start + a.size
        BY <1>1, <2>1, <3>2
      <4>2. Cell(a.start + i - 1) = free
        BY <4>1 DEF free
      <4>3. Cell(b.start + i - 1) = free /\ b.cells[free] = d + 1
        BY <1>3, <1>7, <2>1, <4>2
      <4>4. i \in Nat /\ b.size = i
        BY <1>1, <2>1, <3>2
      <4>. QED
        BY <4>3, <4>4
    <3>3. CASE i # a.size + 1
      <4>1. i \in 1..a.size
        BY <1>1, <2>1, <3>3
      <4>2. Cell(a.start + i - 1) # free
        BY <1>1, <1>6, <1>8, <3>1, <4>1
      <4>3. cells[Cell(a.start + i - 1)] = d - a.size + i
        BY <1>7, <1>10, <3>1, <4>1, <4>2
      <4>4. d - a.size + i = (d + 1) - (a.size + 1) + i
        BY <1>1, <4>1
      <4>. QED
        BY <1>3, <2>1, <4>3, <4>4
    <3>. QED
      BY <3>2, <3>3
  <2>4. d + 1 \in Nat
    OBVIOUS
  <2>5. RingHolds(b, d + 1)
    BY <1>5, <2>2, <2>3, <2>4
  <2>6. b \in AdapterRecords
    BY <1>0, <1>1, <1>3, <1>4, <1>7, <2>1, <2>2
  <2>. QED
    BY <2>5, <2>6 DEF b
<1>9. CASE a.size = R
  <2>1. /\ b.size = R /\ b.start = Cell(a.start + 1) /\ a.start + 1 \in 0..(R + R - 1)
    BY <1>1, <1>3, <1>9
  <2>2. /\ b.start \in 0..(R - 1)
        /\ b.start = IF a.start + 1 < R THEN a.start + 1 ELSE a.start + 1 - R
    BY <1>1, <1>2, <2>1
  <2>3. b.size \in 0..R /\ b.cleared <= d + 1 /\ b.size = Minimum(R, (d + 1) - b.cleared)
    BY <1>0, <1>1, <1>3, <1>9, <2>1 DEF Minimum
  <2>4. free = a.start
    BY <1>1, <1>6, <1>9
  <2>5. ASSUME NEW i \in 1..b.size
        PROVE  b.cells[Cell(b.start + i - 1)] = (d + 1) - b.size + i
    <3>1. /\ b.start + i - 1 \in 0..(R + R - 1)
          /\ Cell(b.start + i - 1) \in 0..(R - 1)
          /\ Cell(b.start + i - 1) = IF b.start + i - 1 < R THEN b.start + i - 1
                                   ELSE b.start + i - 1 - R
      <4> DEFINE x == b.start + i - 1
      <4>1. x \in 0..(R + R - 1)
        BY <1>1, <2>1, <2>2
      <4>. HIDE DEF x
      <4>2. Cell(x) \in 0..(R - 1) /\ Cell(x) = IF x < R THEN x ELSE x - R
        BY <1>1, <1>2, <4>1
      <4>3. b.start \in Int /\ i \in Int /\ R \in Int
        BY <1>1, <2>1, <2>2
      <4>. QED
        BY <4>1, <4>2, <4>3 DEF x
    <3>2. CASE i = R
      <4>1. Cell(b.start + i - 1) = free
        BY <1>1, <2>2, <2>4, <3>1, <3>2
      <4>. QED
        BY <1>1, <1>3, <1>7, <2>1, <3>2, <4>1
    <3>3. CASE i # R
      <4>1. i \in 1..R /\ i + 1 \in 1..R /\ a.start + (i + 1) - 1 = a.start + i
        BY <1>1, <2>1, <3>3
      <4>2. a.start + i \in 0..(R + R - 1)
        BY <1>1, <4>1
      <4>3. /\ Cell(a.start + i) \in 0..(R - 1)
            /\ Cell(a.start + i) = IF a.start + i < R THEN a.start + i ELSE a.start + i - R
        BY <1>1, <1>2, <4>2
      <4>4. a.cells[Cell(a.start + i)] = d - R + (i + 1)
        BY <1>9, <1>10, <4>1
      <4>5. Cell(b.start + i - 1) = Cell(a.start + i)
        BY <1>1, <2>2, <3>1, <4>1, <4>3
      <4>6. Cell(a.start + i) # free
        BY <1>1, <2>4, <3>3, <4>1, <4>3
      <4>7. cells[Cell(a.start + i)] = d - R + (i + 1)
        BY <1>7, <4>3, <4>4, <4>6
      <4>8. d - R + (i + 1) = (d + 1) - R + i
        BY <1>1, <4>1
      <4>. QED
        BY <1>3, <2>1, <4>5, <4>7, <4>8
    <3>. QED
      BY <3>2, <3>3
  <2>6. d + 1 \in Nat
    OBVIOUS
  <2>7. RingHolds(b, d + 1)
    BY <1>5, <2>3, <2>5, <2>6
  <2>8. b \in AdapterRecords
    BY <1>0, <1>3, <1>4, <1>7, <2>2, <2>3
  <2>. QED
    BY <2>7, <2>8 DEF b
<1>. QED
  BY <1>1, <1>8, <1>9

LEMMA LeastNatural ==
  ASSUME NEW T \in SUBSET Nat, T # {}
  PROVE  \E m \in T : \A n \in T : m <= n
<1>1. PICK m \in T : \A n \in T : <<n, m>> \notin OpToRel(<, Nat)
  BY NatLessThanWellFounded, WFMin
<1>2. \A n \in T : n \in Nat /\ m \in Nat /\ ~(n < m)
  BY <1>1 DEF OpToRel
<1>3. \A n \in T : m <= n
  BY <1>2
<1>. QED
  BY <1>3

\* An interval without its last number.
LEMMA IntervalFront ==
  ASSUME NEW n \in Nat, n # 0
  PROVE  /\ (1 .. n) \ {n} = 1 .. (n - 1) /\ n \in 1 .. n
         /\ \A s \in SUBSET (1 .. n) : n \in s => Max(s) = n
<1>1. ASSUME NEW s \in SUBSET (1 .. n), n \in s
      PROVE  Max(s) = n
  <2>1. \A y \in s : n >= y
    OBVIOUS
  <2>2. \A x \in s : (\A y \in s : x >= y) => x = n
    BY <1>1
  <2>. QED
    BY <1>1, <2>1, <2>2 DEF Max
<1>. QED
  BY <1>1

\* The bytes are put one after the other.
LEMMA RingFold ==
  ASSUME Inv, adapter \in AdapterRecords, RingHolds(adapter, Len(delivered))
  PROVE  LET a == FoldLeft(RingPut, adapter, Unsent)
         IN a \in AdapterRecords /\ RingHolds(a, Len(delivered) + Len(Unsent))
<1> DEFINE N == Len(Unsent)
           d == Len(delivered)
           Puts(g, n) ==
             g = [s \in SUBSET (1 .. n) |->
                    IF s = {} THEN adapter
                    ELSE RingPut(g[s \ {Max(s)}], Unsent[Max(s)])]
           Good(a, k) == a \in AdapterRecords /\ RingHolds(a, d + k)
<1>0. /\ N \in Nat /\ DOMAIN Unsent = 1 .. N /\ d \in Nat
      /\ \A i \in 1 .. N : Unsent[i] = d + i
  BY UnsentText, LenProperties, Counts
<1>1. FoldLeft(RingPut, adapter, Unsent) = (CHOOSE g : Puts(g, N))[1 .. N]
  BY <1>0 DEF FoldLeft, MapThenFoldSet
<1>2. ASSUME NEW a, NEW k \in 1 .. N, Good(a, k - 1)
      PROVE  Good(RingPut(a, Unsent[k]), k)
  <2>1. /\ d + (k - 1) \in Nat /\ (d + (k - 1)) + 1 = d + k
    BY <1>0
  <2>2. Unsent[k] = d + k
    BY <1>0
  <2> DEFINE n == d + (k - 1)
  <2>3. n \in Nat /\ n + 1 = d + k /\ a \in AdapterRecords /\ RingHolds(a, n)
    BY <1>2, <2>1
  <2>. HIDE DEF n
  <2>4. RingPut(a, n + 1) \in AdapterRecords /\ RingHolds(RingPut(a, n + 1), n + 1)
    BY <2>3, RingPutHolds
  <2>. QED
    BY <2>2, <2>3, <2>4
<1>3. Good(adapter, 0)
  <2>1. d + 0 = d
    BY <1>0
  <2>. QED
    BY <2>1
<1>. HIDE DEF Good
<1>4. \A n \in Nat : \E g : Puts(g, n)
  <2> DEFINE T == {n \in Nat : ~ \E g : Puts(g, n)}
  <2>. SUFFICES ASSUME T # {} PROVE FALSE
    OBVIOUS
  <2>1. PICK n \in T : \A k \in T : n <= k
    BY LeastNatural
  <2>2. n # 0
    <3> DEFINE g == [s \in SUBSET (1 .. 0) |-> adapter]
    <3>1. \A s \in SUBSET (1 .. 0) : s = {}
      OBVIOUS
    <3>2. Puts(g, 0)
      BY <3>1
    <3>. QED
      BY <2>1, <3>2
  <2>3. n \in Nat /\ n - 1 \in Nat /\ n - 1 \notin T
    <3>1. n \in Nat
      BY <2>1
    <3>. HIDE DEF T
    <3>2. n - 1 \in Nat /\ ~(n <= n - 1)
      BY <2>2, <3>1
    <3>. QED
      BY <2>1, <3>1, <3>2
  <2>4. PICK f : Puts(f, n - 1)
    BY <2>3
  <2> DEFINE g == [s \in SUBSET (1 .. n) |->
                     IF n \in s THEN RingPut(f[s \ {n}], Unsent[n]) ELSE f[s]]
  <2>5. \A s \in SUBSET (1 .. n) :
          /\ n \in s => s \ {n} \in SUBSET (1 .. n - 1) /\ s \ {n} \in SUBSET (1 .. n)
                        /\ Max(s) = n
          /\ n \notin s => s \in SUBSET (1 .. n - 1)
    BY <2>2, <2>3, IntervalFront
  <2>6. ASSUME NEW s \in SUBSET (1 .. n)
        PROVE  g[s] = IF s = {} THEN adapter
                      ELSE RingPut(g[s \ {Max(s)}], Unsent[Max(s)])
    <3>1. CASE n \in s
      <4>1. g[s] = RingPut(f[s \ {n}], Unsent[n])
        BY <3>1
      <4>2. g[s \ {n}] = f[s \ {n}]
        BY <2>5, <3>1
      <4>. QED
        BY <2>5, <3>1, <4>1, <4>2
    <3>2. CASE n \notin s
      <4>1. g[s] = f[s] /\ s \in SUBSET (1 .. n - 1)
        BY <2>5, <3>2
      <4>2. f[s] = IF s = {} THEN adapter
                   ELSE RingPut(f[s \ {Max(s)}], Unsent[Max(s)])
        BY <2>4, <4>1
      <4>3. g[s \ {Max(s)}] = f[s \ {Max(s)}]
        <5>1. s \ {Max(s)} \in SUBSET (1 .. n) /\ n \notin s \ {Max(s)}
          BY <3>2
        <5>. QED
          BY <5>1
      <4>. QED
        BY <4>1, <4>2, <4>3
    <3>. QED
      BY <3>1, <3>2
  <2>7. Puts(g, n)
    BY <2>6
  <2>. QED
    BY <2>1, <2>7
<1> DEFINE g == CHOOSE g : Puts(g, N)
<1>5. Puts(g, N)
  BY <1>0, <1>4
<1>. HIDE DEF g
<1>6. \A k \in 0 .. N : Good(g[1 .. k], k)
  <2> DEFINE T == {k \in 0 .. N : ~Good(g[1 .. k], k)}
  <2>. SUFFICES ASSUME T # {} PROVE FALSE
    OBVIOUS
  <2>1. PICK k \in T : \A i \in T : k <= i
    <3>1. T \in SUBSET Nat
      BY <1>0
    <3>. HIDE DEF T
    <3>. QED
      BY <3>1, LeastNatural
  <2>2. k # 0
    <3>1. 1 .. 0 = {} /\ 1 .. 0 \in SUBSET (1 .. N)
      OBVIOUS
    <3>2. g[1 .. 0] = adapter
      BY <1>5, <3>1
    <3>. QED
      BY <1>3, <2>1, <3>2
  <2>3. k \in Nat /\ k \in 1 .. N /\ k - 1 \in 0 .. N /\ k - 1 \notin T
    BY <1>0, <2>1, <2>2
  <2>4. Good(g[1 .. k - 1], k - 1)
    BY <2>3
  <2>5. /\ 1 .. k \in SUBSET (1 .. N) /\ 1 .. k # {} /\ Max(1 .. k) = k
        /\ (1 .. k) \ {k} = 1 .. k - 1
    <3>1. 1 .. k \in SUBSET (1 .. N) /\ 1 .. k \in SUBSET (1 .. k)
      BY <1>0, <2>3
    <3>2. /\ (1 .. k) \ {k} = 1 .. k - 1 /\ k \in 1 .. k
          /\ \A s \in SUBSET (1 .. k) : k \in s => Max(s) = k
      BY <2>2, <2>3, IntervalFront
    <3>. QED
      BY <3>1, <3>2
  <2>6. g[1 .. k] = RingPut(g[1 .. k - 1], Unsent[k])
    BY <1>5, <2>5
  <2>7. Good(RingPut(g[1 .. k - 1], Unsent[k]), k)
    BY <1>2, <2>3, <2>4
  <2>. QED
    BY <2>1, <2>6, <2>7
<1>7. Good(FoldLeft(RingPut, adapter, Unsent), N)
  <2>1. FoldLeft(RingPut, adapter, Unsent) = g[1 .. N]
    BY <1>1 DEF g
  <2>2. N \in 0 .. N
    BY <1>0
  <2>. HIDE DEF N
  <2>3. Good(g[1 .. N], N)
    BY <1>6, <2>2
  <2>. QED
    BY <2>1, <2>3
<1>. QED
  BY <1>7 DEF Good

-----------------------------------------------------------------------------
(* PrefixSink's lines.                                                     *)

\* The byte at i is where LinesKeepTheirPrefix allows it.
KeepsPrefix(out, i) ==
  \/ /\ out[i] = 0
     /\ i = 1 \/ out[i - 1] = 0 \/ out[i - 1] \in newlines
  \/ /\ out[i] # 0
     /\ \/ i > 1 /\ out[i - 1] # 0 /\ out[i - 1] \notin newlines
        \/ i > PrefixSize /\ \A j \in (i - PrefixSize)..(i - 1) : out[j] = 0

\* The last n bytes are of the prefix.
EndsInPrefix(out, n) ==
  n <= Len(out) /\ \A j \in (Len(out) - n + 1)..Len(out) : out[j] = 0

\* At the start of a line so much of the prefix is there, and in a line the
\* whole of it or a byte that goes on.
LinesHold(a) ==
  /\ \A i \in 1..Len(a.lines) : KeepsPrefix(a.lines, i)
  /\ a.lineStart =>
       /\ a.prefixed < PrefixSize /\ EndsInPrefix(a.lines, a.prefixed)
       /\ Len(a.lines) = 0 \/ a.lines[Len(a.lines)] = 0 \/ a.lines[Len(a.lines)] \in newlines
  /\ ~a.lineStart =>
       /\ a.prefixed = 0
       /\ \/ /\ Len(a.lines) > 0 /\ a.lines[Len(a.lines)] # 0
             /\ a.lines[Len(a.lines)] \notin newlines
          \/ EndsInPrefix(a.lines, PrefixSize)

LinesInv == kind = "Prefix" => LinesHold(adapter)

LEMMA LinesFresh == LinesHold(Fresh)
<1>1. Fresh.lines = <<>> /\ Fresh.lineStart = TRUE /\ Fresh.prefixed = 0 /\ Len(<<>>) = 0
  BY Empty DEF Fresh
<1>2. 0 < PrefixSize /\ \A j \in (0 - 0 + 1)..0 : FALSE
  BY AdapterConstants
<1>. QED
  BY <1>1, <1>2 DEF LinesHold, EndsInPrefix

\* n bytes of the prefix more.
LEMMA PrefixGrows ==
  ASSUME NEW out \in Seq(Nat), NEW n \in Nat \ {0}, NEW p \in Nat,
         \A i \in 1..Len(out) : KeepsPrefix(out, i),
         EndsInPrefix(out, p),
         Len(out) = 0 \/ out[Len(out)] = 0 \/ out[Len(out)] \in newlines
  PROVE  LET more == out \o [i \in 1..n |-> 0]
         IN /\ more \in Seq(Nat) /\ Len(more) > 0 /\ more[Len(more)] = 0
            /\ \A i \in 1..Len(more) : KeepsPrefix(more, i)
            /\ EndsInPrefix(more, p + n)
<1> DEFINE zeros == [i \in 1..n |-> 0]
           more == out \o zeros
           L == Len(out)
<1>1. zeros \in Seq(Nat) /\ Len(zeros) = n /\ \A i \in 1..n : zeros[i] = 0
  <2>1. zeros \in [1..n -> Nat]
    OBVIOUS
  <2>. QED
    BY <2>1, FunctionIsSeq
<1>. HIDE DEF zeros
<1>2. /\ more \in Seq(Nat) /\ Len(more) = L + n /\ L \in Nat
      /\ \A i \in 1..(L + n) : more[i] = IF i <= L THEN out[i] ELSE zeros[i - L]
  <2>1. /\ more \in Seq(Nat) /\ Len(more) = L + Len(zeros)
        /\ \A i \in 1..(L + Len(zeros)) : more[i] = IF i <= L THEN out[i] ELSE zeros[i - L]
    BY <1>1, ConcatProperties
  <2>2. L \in Nat
    BY LenProperties
  <2>. QED
    BY <1>1, <2>1, <2>2
<1>. HIDE DEF more
<1>3. \A i \in 1..L : more[i] = out[i] /\ i \in 1..(L + n)
  BY <1>2
<1>4. \A i \in (L + 1)..(L + n) : more[i] = 0 /\ i \in 1..(L + n)
  <2>. SUFFICES ASSUME NEW i \in (L + 1)..(L + n) PROVE more[i] = 0 /\ i \in 1..(L + n)
    OBVIOUS
  <2>1. i \in 1..(L + n) /\ ~(i <= L) /\ i - L \in 1..n
    BY <1>2
  <2>. QED
    BY <1>1, <1>2, <2>1
<1>5. ASSUME NEW i \in 1..(L + n) PROVE KeepsPrefix(more, i)
  <2>1. CASE i <= L
    <3>1. i \in 1..L /\ KeepsPrefix(out, i)
      BY <2>1
    <3>2. more[i] = out[i] /\ (i # 1 => more[i - 1] = out[i - 1])
      <4>1. i # 1 => i - 1 \in 1..L
        BY <1>2, <3>1
      <4>. QED
        BY <1>3, <3>1, <4>1
    <3>3. i > PrefixSize => \A j \in (i - PrefixSize)..(i - 1) : more[j] = out[j]
      <4>1. i > PrefixSize => \A j \in (i - PrefixSize)..(i - 1) : j \in 1..L
        BY <1>2, <3>1, AdapterConstants
      <4>. QED
        BY <1>3, <4>1
    <3>. QED
      BY <3>1, <3>2, <3>3 DEF KeepsPrefix
  <2>2. CASE i > L
    <3>1. more[i] = 0
      BY <1>2, <1>4, <2>2
    <3>2. i = 1 \/ more[i - 1] = 0 \/ more[i - 1] \in newlines
      <4>1. CASE i = L + 1
        <5>1. L = 0 => i = 1
          BY <4>1
        <5>2. L # 0 => i - 1 = L /\ L \in 1..L
          BY <1>2, <4>1
        <5>. QED
          BY <1>3, <5>1, <5>2
      <4>2. CASE i # L + 1
        <5>1. i - 1 \in (L + 1)..(L + n)
          BY <1>2, <2>2, <4>2
        <5>. QED
          BY <1>4, <5>1
      <4>. QED
        BY <4>1, <4>2
    <3>. QED
      BY <3>1, <3>2 DEF KeepsPrefix
  <2>. QED
    BY <1>2, <2>1, <2>2
<1>6. EndsInPrefix(more, p + n)
  <2>1. p <= L /\ \A j \in (L - p + 1)..L : out[j] = 0
    BY DEF EndsInPrefix
  <2>2. p + n <= L + n /\ (L + n) - (p + n) + 1 = L - p + 1
    BY <1>2, <2>1
  <2>3. ASSUME NEW j \in (L - p + 1)..(L + n) PROVE more[j] = 0
    <3>1. CASE j <= L
      <4>1. j \in (L - p + 1)..L /\ j \in 1..L
        BY <1>2, <2>1, <3>1
      <4>. QED
        BY <1>3, <2>1, <4>1
    <3>2. CASE j > L
      <4>1. j \in (L + 1)..(L + n)
        BY <1>2, <2>1, <3>2
      <4>. QED
        BY <1>4, <4>1
    <3>. QED
      BY <1>2, <2>1, <3>1, <3>2
  <2>. QED
    BY <1>2, <2>2, <2>3 DEF EndsInPrefix
<1>7. L + n \in (L + 1)..(L + n) /\ L + n > 0
  BY <1>2
<1>8. /\ more \in Seq(Nat) /\ Len(more) > 0 /\ more[Len(more)] = 0
      /\ \A i \in 1..Len(more) : KeepsPrefix(more, i)
      /\ EndsInPrefix(more, p + n)
  BY <1>2, <1>4, <1>5, <1>6, <1>7
<1>. QED
  BY <1>8 DEF more, zeros

\* A byte of the text more.
LEMMA LineGrows ==
  ASSUME NEW out \in Seq(Nat), NEW byte \in Nat \ {0},
         \A i \in 1..Len(out) : KeepsPrefix(out, i),
         \/ Len(out) > 0 /\ out[Len(out)] # 0 /\ out[Len(out)] \notin newlines
         \/ EndsInPrefix(out, PrefixSize)
  PROVE  LET more == Append(out, byte)
         IN /\ more \in Seq(Nat) /\ Len(more) > 0 /\ more[Len(more)] = byte
            /\ \A i \in 1..Len(more) : KeepsPrefix(more, i)
<1> DEFINE more == Append(out, byte)
           L == Len(out)
<1>1. /\ more \in Seq(Nat) /\ Len(more) = L + 1 /\ L \in Nat
      /\ \A i \in 1..L : more[i] = out[i]
      /\ more[L + 1] = byte
  BY AppendProperties, LenProperties
<1>. HIDE DEF more
<1>2. ASSUME NEW i \in 1..(L + 1) PROVE KeepsPrefix(more, i)
  <2>1. CASE i <= L
    <3>1. i \in 1..L /\ KeepsPrefix(out, i)
      BY <2>1
    <3>2. more[i] = out[i] /\ (i # 1 => more[i - 1] = out[i - 1])
      <4>1. i # 1 => i - 1 \in 1..L
        BY <1>1, <3>1
      <4>. QED
        BY <1>1, <3>1, <4>1
    <3>3. i > PrefixSize => \A j \in (i - PrefixSize)..(i - 1) : more[j] = out[j]
      <4>1. i > PrefixSize => \A j \in (i - PrefixSize)..(i - 1) : j \in 1..L
        BY <1>1, <3>1, AdapterConstants
      <4>. QED
        BY <1>1, <4>1
    <3>. QED
      BY <3>1, <3>2, <3>3 DEF KeepsPrefix
  <2>2. CASE i > L
    <3>1. i = L + 1 /\ i - 1 = L /\ more[i] = byte
      BY <1>1, <2>2
    <3>2. CASE L > 0 /\ out[L] # 0 /\ out[L] \notin newlines
      <4>1. i > 1 /\ more[i - 1] = out[L]
        BY <1>1, <3>1, <3>2
      <4>. QED
        BY <3>1, <3>2, <4>1 DEF KeepsPrefix
    <3>3. CASE EndsInPrefix(out, PrefixSize)
      <4>1. PrefixSize <= L /\ \A j \in (L - PrefixSize + 1)..L : out[j] = 0
        BY <3>3 DEF EndsInPrefix
      <4>2. i > PrefixSize /\ i - PrefixSize = L - PrefixSize + 1
            /\ \A j \in (L - PrefixSize + 1)..L : j \in 1..L
        BY <1>1, <3>1, <4>1, AdapterConstants
      <4>3. \A j \in (i - PrefixSize)..(i - 1) : more[j] = 0
        BY <1>1, <3>1, <4>1, <4>2
      <4>. QED
        BY <3>1, <4>2, <4>3 DEF KeepsPrefix
    <3>. QED
      BY <3>2, <3>3
  <2>. QED
    BY <1>1, <2>1, <2>2
<1>3. /\ more \in Seq(Nat) /\ Len(more) > 0 /\ more[Len(more)] = byte
      /\ \A i \in 1..Len(more) : KeepsPrefix(more, i)
  BY <1>1, <1>2
<1>. QED
  BY <1>3 DEF more

\* What holds of the adapter's next record holds in the next state.
LEMMA LinesNext ==
  ASSUME newlines' = newlines, LinesHold(adapter')
  PROVE  LinesHold(adapter)'
  BY DEF LinesHold, KeepsPrefix, EndsInPrefix

\* A failure leaves the lines alone, and the prefix starts anew.
LEMMA LinesKept ==
  ASSUME NEW a, NEW b \in AdapterRecords, LinesHold(a), a.lines \in Seq(Nat),
         b.lines = a.lines, b.lineStart = a.lineStart, b.prefixed \in {0, a.prefixed}
  PROVE  LinesHold(b)
<1>1. Len(a.lines) \in Nat /\ PrefixSize \in Nat \ {0}
  BY LenProperties, AdapterConstants
<1>2. EndsInPrefix(a.lines, 0) /\ 0 < PrefixSize
  BY <1>1 DEF EndsInPrefix
<1>. QED
  BY <1>2 DEF LinesHold

LEMMA PrefixLines ==
  ASSUME AdapterBase, LinesHold(adapter), newlines' = newlines,
         PrefixWritten \/ PrefixedByte \/ PrefixFails \/ PrefixedByteFails
  PROVE  LinesHold(adapter)'
<1>1. /\ adapter \in AdapterRecords /\ adapter.lines \in Seq(Nat) /\ adapter.pos \in Nat
      /\ adapter.prefixed \in Nat /\ adapter.lineStart \in BOOLEAN /\ Inv
      /\ newlines \in SUBSET Nat /\ Len(adapter.lines) \in Nat
  BY LenProperties DEF AdapterBase, AdapterRecords
<1>2. CASE PrefixWritten
  <2>1. adapter.lineStart = TRUE
    BY <1>1, <1>2 DEF PrefixWritten
  <2>2. PICK n \in 1..(PrefixSize - adapter.prefixed) :
          LET whole == adapter.prefixed + n = PrefixSize
          IN GoesOn([adapter EXCEPT !.lines = @ \o [i \in 1..n |-> 0],
                                    !.prefixed = IF whole THEN 0 ELSE @ + n,
                                    !.lineStart = ~whole])
    BY <1>2 DEF PrefixWritten
  <2> DEFINE whole == adapter.prefixed + n = PrefixSize
             more == adapter.lines \o [i \in 1..n |-> 0]
             prefixed == IF whole THEN 0 ELSE adapter.prefixed + n
  <2>3. adapter' = [adapter EXCEPT !.lines = more, !.prefixed = prefixed,
                                   !.lineStart = ~whole]
    BY <1>1, <2>2 DEF GoesOn, AdapterRecords
  <2>4. /\ n \in Nat \ {0} /\ adapter.prefixed + n <= PrefixSize /\ PrefixSize \in Nat \ {0}
        /\ adapter.prefixed + n \in Nat
    BY <1>1, AdapterConstants
  <2>5. /\ EndsInPrefix(adapter.lines, adapter.prefixed)
        /\ \A i \in 1..Len(adapter.lines) : KeepsPrefix(adapter.lines, i)
        /\ \/ Len(adapter.lines) = 0 \/ adapter.lines[Len(adapter.lines)] = 0
           \/ adapter.lines[Len(adapter.lines)] \in newlines
    BY <2>1 DEF LinesHold
  <2>6. /\ more \in Seq(Nat) /\ Len(more) > 0 /\ more[Len(more)] = 0
        /\ \A i \in 1..Len(more) : KeepsPrefix(more, i)
        /\ EndsInPrefix(more, adapter.prefixed + n)
    BY <1>1, <2>4, <2>5, PrefixGrows
  <2>. HIDE DEF more
  <2>7. /\ whole \in BOOLEAN
        /\ whole => prefixed = 0 /\ EndsInPrefix(more, PrefixSize)
        /\ ~whole => prefixed < PrefixSize /\ EndsInPrefix(more, prefixed)
    BY <2>4, <2>6
  <2>. HIDE DEF whole, prefixed
  <2>8. adapter'.lines = more /\ adapter'.prefixed = prefixed /\ adapter'.lineStart = ~whole
    BY <1>1, <2>3 DEF AdapterRecords
  <2>9. LinesHold(adapter')
    BY <2>6, <2>7, <2>8 DEF LinesHold
  <2>. QED
    BY <2>9, LinesNext
<1>3. CASE PrefixedByte
  <2> DEFINE byte == Unsent[adapter.pos + 1]
             more == Append(adapter.lines, byte)
             put == Put(adapter, 1, <<byte>>)
             c == [put EXCEPT !.lines = Append(@, byte), !.lineStart = StartsLine(byte)]
  <2>1. /\ Draining /\ ~adapter.lineStart
        /\ \/ adapter.pos + 1 < Len(Unsent) /\ GoesOn([c EXCEPT !.pos = @ + 1])
           \/ adapter.pos + 1 = Len(Unsent) /\ Returns(Len(Unsent), [c EXCEPT !.pos = 0])
    BY <1>3 DEF PrefixedByte
  <2>2. /\ adapter.pos + 1 \in 1..Len(Unsent) /\ byte = Len(delivered) + (adapter.pos + 1)
        /\ Len(delivered) \in Nat /\ byte \in Nat \ {0}
    <3>1. Len(Unsent) \in Nat /\ Len(delivered) \in Nat
      BY <1>1, UnsentText, LenProperties, Counts
    <3>2. adapter.pos + 1 \in 1..Len(Unsent)
      BY <1>1, <2>1, <3>1
    <3>3. byte = Len(delivered) + (adapter.pos + 1)
      BY <1>1, <3>2, UnsentText
    <3>. QED
      BY <1>1, <3>1, <3>2, <3>3
  <2>3. /\ \A i \in 1..Len(adapter.lines) : KeepsPrefix(adapter.lines, i)
        /\ \/ /\ Len(adapter.lines) > 0 /\ adapter.lines[Len(adapter.lines)] # 0
              /\ adapter.lines[Len(adapter.lines)] \notin newlines
           \/ EndsInPrefix(adapter.lines, PrefixSize)
        /\ adapter.prefixed = 0
    BY <2>1 DEF LinesHold
  <2>4. /\ more \in Seq(Nat) /\ Len(more) > 0 /\ more[Len(more)] = byte
        /\ \A i \in 1..Len(more) : KeepsPrefix(more, i)
    BY <1>1, <2>2, <2>3, LineGrows
  <2>5. put \in AdapterRecords /\ OnlyBelow(adapter, put)
    <3>1. <<byte>> \in Seq(Nat) /\ 1 \in {1, 2}
      BY <2>2
    <3>. QED
      BY <1>1, <3>1, PutProperties
  <2>6. put.lines = adapter.lines /\ put.prefixed = 0
    BY <2>3, <2>5 DEF OnlyBelow
  <2>. HIDE DEF put, byte
  <2> DEFINE starts == StartsLine(byte)
  <2>7. c = [put EXCEPT !.lines = more, !.lineStart = starts]
    BY <2>5, <2>6 DEF AdapterRecords
  <2>8. starts \in BOOLEAN /\ (starts <=> byte \in newlines)
    BY DEF StartsLine
  <2>. HIDE DEF more, c, starts
  <2>9. /\ c \in AdapterRecords /\ c.lines = more /\ c.lineStart = starts /\ c.prefixed = 0
    BY <2>4, <2>5, <2>6, <2>7, <2>8 DEF AdapterRecords
  <2>10. adapter' = [c EXCEPT !.pos = c.pos + 1] \/ adapter' = [c EXCEPT !.pos = 0]
    BY <2>1, <2>9 DEF GoesOn, Returns, AdapterRecords, c, put, byte
  <2>11. adapter'.lines = more /\ adapter'.lineStart = starts /\ adapter'.prefixed = 0
    BY <2>9, <2>10 DEF AdapterRecords
  <2>12. EndsInPrefix(more, 0) /\ 0 < PrefixSize
    <3>1. Len(more) \in Nat
      BY <2>4, LenProperties
    <3>. QED
      BY <3>1, AdapterConstants DEF EndsInPrefix
  <2>13. LinesHold(adapter')
    BY <2>2, <2>4, <2>8, <2>11, <2>12 DEF LinesHold
  <2>. QED
    BY <2>13, LinesNext
<1>4. ASSUME NEW b \in AdapterRecords, Stops(b) \/ adapter' = b,
             b.lines = adapter.lines, b.lineStart = adapter.lineStart,
             b.prefixed \in {0, adapter.prefixed}
      PROVE  LinesHold(adapter)'
  <2>1. adapter' = b \/ adapter' = Fresh
    BY <1>4 DEF Stops
  <2>2. LinesHold(adapter')
    BY <1>1, <1>4, <2>1, LinesKept, LinesFresh
  <2>. QED
    BY <2>2, LinesNext
<1>5. CASE PrefixFails
  <2> DEFINE some == adapter.pos > 0
             left == some \/ adapter.prefixed > 0
             count == IF left THEN adapter.failures + 1 ELSE adapter.failures
             halfway == adapter.halfway \/ some
             b == [adapter EXCEPT !.pos = 0, !.side = 1, !.prefixed = 0,
                                  !.halfway = halfway, !.failures = count]
  <2>1. Stops(b)
    BY <1>1, <1>5 DEF PrefixFails, FailsHalfway, AdapterRecords
  <2>2. count \in Nat /\ halfway \in BOOLEAN
    BY <1>1 DEF AdapterRecords
  <2>. HIDE DEF count, halfway
  <2>3. /\ b \in AdapterRecords /\ b.lines = adapter.lines /\ b.prefixed = 0
        /\ b.lineStart = adapter.lineStart
    BY <1>1, <2>2 DEF AdapterRecords
  <2>. HIDE DEF b
  <2>. QED
    BY <1>4, <2>1, <2>3
<1>6. CASE PrefixedByteFails
  <2> DEFINE b == [adapter EXCEPT !.pos = 0]
  <2>1. adapter' = b \/ Stops(adapter)
    BY <1>6 DEF PrefixedByteFails, Returns
  <2>2. /\ b \in AdapterRecords /\ b.lines = adapter.lines /\ b.prefixed = adapter.prefixed
        /\ b.lineStart = adapter.lineStart
    BY <1>1 DEF AdapterRecords
  <2>. HIDE DEF b
  <2>. QED
    BY <1>1, <1>4, <2>1, <2>2
<1>. QED
  BY <1>2, <1>3, <1>5, <1>6

-----------------------------------------------------------------------------
(* The budgets.                                                            *)

\* The bytes a stamp of which is not before from, and those before to.
Since(stamps, from) == {i \in 1..Len(stamps) : from <= stamps[i]}
Between(stamps, from, to) ==
  {i \in 1..Len(stamps) : from <= stamps[i] /\ stamps[i] < to}

\* What RateLimitedSink has left, and what it has passed on in its window
\* and in any time that reaches into it, and in any time of its length.
LimitedHolds(a, now) ==
  /\ a.windowStart <= now
  /\ ~a.started => a.stamps = <<>>
  /\ \A i \in 1..Len(a.stamps) :
       a.stamps[i] <= now /\ (WindowTicks > 0 => a.stamps[i] < a.windowStart + WindowTicks)
  /\ a.remaining + Cardinality(Since(a.stamps, a.windowStart)) <= BytesPerWindow
  /\ \A t \in Nat : t + WindowTicks > a.windowStart =>
       Cardinality(Between(a.stamps, t, a.windowStart)) <= BytesPerWindow
  /\ \A t \in Nat :
       Cardinality(Between(a.stamps, t, t + WindowTicks)) <= 2 * BytesPerWindow

\* FaultInjectingSink has passed on what is gone from its budget.
FaultyHolds(a) == Len(a.below[1]) + a.remaining = BytesPerWindow

LEMMA Parts ==
  ASSUME NEW stamps \in Seq(Nat), NEW from, NEW to
  PROVE  /\ IsFiniteSet(1..Len(stamps)) /\ Len(stamps) \in Nat
         /\ IsFiniteSet(Since(stamps, from)) /\ IsFiniteSet(Between(stamps, from, to))
         /\ Cardinality(Since(stamps, from)) \in Nat
         /\ Cardinality(Between(stamps, from, to)) \in Nat
<1>1. IsFiniteSet(1..Len(stamps)) /\ Len(stamps) \in Nat
  BY LenProperties, FS_Interval
<1>2. Since(stamps, from) \subseteq 1..Len(stamps)
      /\ Between(stamps, from, to) \subseteq 1..Len(stamps)
  BY DEF Since, Between
<1>3. IsFiniteSet(Since(stamps, from)) /\ IsFiniteSet(Between(stamps, from, to))
  BY <1>1, <1>2, FS_Subset
<1>. QED
  BY <1>1, <1>3, FS_CardinalityType

LEMMA NotMore ==
  ASSUME NEW S, IsFiniteSet(S), NEW T \in SUBSET S, NEW n \in Nat, Cardinality(S) <= n
  PROVE  Cardinality(T) <= n
<1>1. Cardinality(T) <= Cardinality(S) /\ IsFiniteSet(T)
  BY FS_Subset
<1>2. Cardinality(T) \in Nat /\ Cardinality(S) \in Nat
  BY <1>1, FS_CardinalityType
<1>. QED
  BY <1>1, <1>2

\* Both parts of a set.
LEMMA TogetherNotMore ==
  ASSUME NEW S, IsFiniteSet(S), NEW T, IsFiniteSet(T), NEW m \in Nat, NEW n \in Nat,
         Cardinality(S) <= m, Cardinality(T) <= n
  PROVE  IsFiniteSet(S \cup T) /\ Cardinality(S \cup T) <= m + n
<1>1. /\ IsFiniteSet(S \cup T) /\ IsFiniteSet(S \cap T)
      /\ Cardinality(S \cup T) = Cardinality(S) + Cardinality(T) - Cardinality(S \cap T)
  BY FS_Union, FS_Intersection
<1>2. /\ Cardinality(S) \in Nat /\ Cardinality(T) \in Nat /\ Cardinality(S \cap T) \in Nat
      /\ Cardinality(S \cup T) \in Nat
  BY <1>1, FS_CardinalityType
<1>. QED
  BY <1>1, <1>2

LEMMA NoStamps ==
  ASSUME NEW from, NEW to
  PROVE  Cardinality(Since(<<>>, from)) = 0 /\ Cardinality(Between(<<>>, from, to)) = 0
<1>1. Since(<<>>, from) = {} /\ Between(<<>>, from, to) = {}
  BY Empty DEF Since, Between
<1>. QED
  BY <1>1, FS_EmptySet

LEMMA LimitedFresh == \A now \in Nat : LimitedHolds(Fresh, now)
<1>1. /\ Fresh.stamps = <<>> /\ Fresh.started = FALSE /\ Fresh.windowStart = 0
      /\ Fresh.remaining = BytesPerWindow
  BY DEF Fresh
<1>2. Len(<<>>) = 0 /\ BytesPerWindow \in Nat /\ WindowTicks \in Nat
  BY Empty, AdapterConstants
<1>. QED
  BY <1>1, <1>2, NoStamps DEF LimitedHolds

LEMMA LimitedIf ==
  ASSUME NEW a, NEW now, NEW s, NEW w, NEW r,
         a.stamps = s, a.windowStart = w, a.remaining = r,
         w <= now, a.started \/ s = <<>>,
         \A i \in 1..Len(s) : s[i] <= now /\ (WindowTicks > 0 => s[i] < w + WindowTicks),
         r + Cardinality(Since(s, w)) <= BytesPerWindow,
         \A t \in Nat : t + WindowTicks > w =>
           Cardinality(Between(s, t, w)) <= BytesPerWindow,
         \A t \in Nat : Cardinality(Between(s, t, t + WindowTicks)) <= 2 * BytesPerWindow
  PROVE  LimitedHolds(a, now)
  BY Zenon DEF LimitedHolds

\* Time goes by.
LEMMA LimitedLater ==
  ASSUME NEW a \in AdapterRecords, NEW now \in Nat, LimitedHolds(a, now)
  PROVE  LimitedHolds(a, now + 1)
<1>1. /\ a.windowStart \in Nat /\ a.stamps \in Seq(Nat)
      /\ \A i \in 1..Len(a.stamps) : a.stamps[i] \in Nat
  BY ElementOfSeq DEF AdapterRecords
<1>2. a.windowStart <= now + 1 /\ \A i \in 1..Len(a.stamps) : a.stamps[i] <= now + 1
  BY <1>1 DEF LimitedHolds
<1>. QED
  BY <1>2 DEF LimitedHolds

\* RateLimitedSink looks at the clock, and begins a new window if one is over.
LEMMA WindowHolds ==
  ASSUME adapter \in AdapterRecords, clock \in Nat, LimitedHolds(adapter, clock)
  PROVE  LimitedHolds(Window, clock) /\ (WindowTicks > 0 => clock < Window.windowStart + WindowTicks)
<1> DEFINE a == adapter
           w == a.windowStart
           W == WindowTicks
           B == BytesPerWindow
<1>1. /\ w \in Nat /\ a.stamps \in Seq(Nat) /\ a.remaining \in Nat /\ a.started \in BOOLEAN
      /\ \A i \in 1..Len(a.stamps) : a.stamps[i] \in Nat
      /\ W \in Nat /\ B \in Nat /\ w <= clock
  BY ElementOfSeq, AdapterConstants DEF AdapterRecords, LimitedHolds
<1>2. /\ Window.stamps = a.stamps /\ Window.started = TRUE
      /\ Window.windowStart = IF ~a.started \/ Refills THEN clock ELSE w
      /\ Window.remaining = IF Refills THEN B ELSE a.remaining
  BY WindowTypes
<1>3. CASE ~a.started
  <2>1. ~Refills /\ a.stamps = <<>>
    BY <1>3 DEF Refills, LimitedHolds
  <2>2. a.remaining + 0 <= B
    BY <2>1, NoStamps DEF LimitedHolds
  <2>. HIDE DEF a
  <2>3. /\ Window.stamps = <<>> /\ Window.windowStart = clock /\ Window.started = TRUE
        /\ Window.remaining = a.remaining
    BY <1>2, <1>3, <2>1
  <2> DEFINE s == <<>>
  <2>4. /\ \A from, to : /\ Cardinality(Since(s, from)) = 0
                        /\ Cardinality(Between(s, from, to)) = 0
        /\ Len(s) = 0
    BY NoStamps, Empty
  <2>5. Window.stamps = s /\ a.remaining + Cardinality(Since(s, clock)) <= B
    BY <2>2, <2>3, <2>4
  <2>. HIDE DEF s
  <2>6. clock <= clock /\ \A i \in 1..Len(s) : FALSE
    BY <2>4
  <2>7. \A t \in Nat : /\ Cardinality(Between(s, t, clock)) <= B
                      /\ Cardinality(Between(s, t, t + W)) <= 2 * B
    BY <1>1, <2>4
  <2>8. LimitedHolds(Window, clock)
    BY <2>3, <2>5, <2>6, <2>7, LimitedIf
  <2>9. W > 0 => clock < clock + W
    BY <1>1
  <2>. QED
    BY <2>3, <2>8, <2>9
<1>4. CASE a.started /\ Refills
  <2>1. W > 0 /\ clock - w >= W /\ w + W <= clock
    BY <1>1, <1>4 DEF Refills
  <2>2. \A i \in 1..Len(a.stamps) : a.stamps[i] < w + W /\ a.stamps[i] < clock
    <3>1. \A i \in 1..Len(a.stamps) : a.stamps[i] < w + W
      BY <2>1 DEF LimitedHolds
    <3>. QED
      BY <1>1, <2>1, <3>1
  <2>3. Since(a.stamps, clock) = {}
    BY <1>1, <2>2 DEF Since
  <2>4. ASSUME NEW t \in Nat, t + W > clock
        PROVE  Cardinality(Between(a.stamps, t, clock)) <= B
    <3>1. Between(a.stamps, t, clock) \subseteq Since(a.stamps, w)
      BY <1>1, <2>1, <2>4 DEF Between, Since
    <3>2. IsFiniteSet(Since(a.stamps, w)) /\ Cardinality(Since(a.stamps, w)) \in Nat
      BY <1>1, Parts
    <3>3. a.remaining + Cardinality(Since(a.stamps, w)) <= B
      BY DEF LimitedHolds
    <3>4. Cardinality(Since(a.stamps, w)) <= B
      BY <1>1, <3>2, <3>3
    <3>. QED
      BY <1>1, <3>1, <3>2, <3>4, NotMore
  <2>5. /\ Window.stamps = a.stamps /\ Window.windowStart = clock /\ Window.started = TRUE
        /\ Window.remaining = B
    BY <1>2, <1>4
  <2>6. \A i \in 1..Len(a.stamps) : a.stamps[i] <= clock /\ a.stamps[i] < clock + W
    <3>1. \A x \in Nat : x < clock => x <= clock /\ x < clock + W
      BY <1>1
    <3>. QED
      BY <1>1, <2>2, <3>1
  <2>7. B + Cardinality(Since(a.stamps, clock)) <= B
    BY <1>1, <2>3, FS_EmptySet
  <2>8. \A t \in Nat : Cardinality(Between(a.stamps, t, t + W)) <= 2 * B
    BY DEF LimitedHolds
  <2>. HIDE DEF a
  <2>9. LimitedHolds(Window, clock)
    <3>1. clock <= clock
      BY <1>1
    <3>. QED
      BY <2>4, <2>5, <2>6, <2>7, <2>8, <3>1, LimitedIf
  <2>. QED
    BY <1>1, <2>1, <2>5, <2>9
<1>5. CASE a.started /\ ~Refills
  <2>1. /\ Window.stamps = a.stamps /\ Window.windowStart = w /\ Window.started = TRUE
        /\ Window.remaining = a.remaining
    BY <1>2, <1>5
  <2>2. LimitedHolds(Window, clock)
    BY <2>1 DEF LimitedHolds
  <2>3. W > 0 => clock < w + W
    BY <1>1, <1>5 DEF Refills
  <2>. QED
    BY <2>1, <2>2, <2>3
<1>. QED
  BY <1>1, <1>3, <1>4, <1>5

\* n bytes are passed on, and their stamps are in the window.
LEMMA PassedOnInWindow ==
  ASSUME NEW a \in AdapterRecords, NEW c, NEW n \in Nat, NEW now \in Nat,
         LimitedHolds(a, now), a.started = TRUE,
         WindowTicks > 0 => now < a.windowStart + WindowTicks, n <= a.remaining,
         c.stamps = a.stamps \o [i \in 1..n |-> now], c.started = TRUE,
         c.windowStart = a.windowStart, c.remaining = a.remaining - n
  PROVE  LimitedHolds(c, now)
<1> DEFINE s == a.stamps
           w == a.windowStart
           W == WindowTicks
           B == BytesPerWindow
           L == Len(s)
           stamps == [i \in 1..n |-> now]
           more == s \o stamps
<1>1. /\ w \in Nat /\ s \in Seq(Nat) /\ a.remaining \in Nat /\ L \in Nat
      /\ W \in Nat /\ B \in Nat /\ w <= now /\ \A i \in 1..L : s[i] \in Nat
  BY ElementOfSeq, AdapterConstants, LenProperties DEF AdapterRecords, LimitedHolds
<1>2. stamps \in Seq(Nat) /\ Len(stamps) = n /\ \A i \in 1..n : stamps[i] = now
  <2>1. stamps \in [1..n -> Nat]
    OBVIOUS
  <2>. QED
    BY <2>1, FunctionIsSeq
<1>3. a.remaining + Cardinality(Since(s, w)) <= B
  BY DEF LimitedHolds
<1>4. /\ \A t \in Nat : t + W > w => Cardinality(Between(s, t, w)) <= B
      /\ \A t \in Nat : Cardinality(Between(s, t, t + W)) <= 2 * B
  BY DEF LimitedHolds
<1>5. \A i \in 1..L : s[i] <= now /\ (W > 0 => s[i] < w + W)
  BY DEF LimitedHolds
<1>6. c.stamps = more /\ c.windowStart = w /\ c.remaining = a.remaining - n
  OBVIOUS
<1>7. W > 0 => now < w + W
  OBVIOUS
<1>. HIDE DEF stamps, s, w, W, B
<1>8. /\ more \in Seq(Nat) /\ Len(more) = L + n
      /\ \A i \in 1..L : more[i] = s[i] /\ i \in 1..(L + n)
      /\ \A i \in (L + 1)..(L + n) : more[i] = now
  <2>1. /\ more \in Seq(Nat) /\ Len(more) = L + Len(stamps)
        /\ \A i \in 1..(L + Len(stamps)) : more[i] = IF i <= L THEN s[i] ELSE stamps[i - L]
    <3>1. s \in Seq(Nat) /\ stamps \in Seq(Nat)
      BY <1>1, <1>2
    <3>. QED
      BY <3>1, ConcatProperties
  <2>2. \A i \in 1..L : more[i] = s[i] /\ i \in 1..(L + n)
    BY <1>1, <1>2, <2>1
  <2>3. ASSUME NEW i \in (L + 1)..(L + n) PROVE more[i] = now
    <3>1. i \in 1..(L + n) /\ ~(i <= L) /\ i - L \in 1..n
      BY <1>1
    <3>. QED
      BY <1>2, <2>1, <3>1
  <2>. QED
    BY <1>2, <2>1, <2>2, <2>3
<1>. HIDE DEF more
<1>9. /\ IsFiniteSet((L + 1)..(L + n)) /\ Cardinality((L + 1)..(L + n)) <= n
  <2>1. L + 1 \in Int /\ L + n \in Int
    BY <1>1
  <2>2. /\ IsFiniteSet((L + 1)..(L + n))
        /\ Cardinality((L + 1)..(L + n)) =
             IF L + 1 > L + n THEN 0 ELSE (L + n) - (L + 1) + 1
    BY <2>1, FS_Interval
  <2>. QED
    BY <1>1, <2>2
<1>10. \A i \in 1..(L + n) : i \in 1..L \/ i \in (L + 1)..(L + n)
  BY <1>1
<1>11. (a.remaining - n) + Cardinality(Since(more, w)) <= B
  <2>1. Since(more, w) \subseteq Since(s, w) \cup ((L + 1)..(L + n))
    BY <1>8, <1>10 DEF Since
  <2> DEFINE k == Cardinality(Since(s, w))
  <2>2. IsFiniteSet(Since(s, w)) /\ k \in Nat
    BY <1>1, Parts
  <2>3. /\ IsFiniteSet(Since(s, w) \cup ((L + 1)..(L + n)))
        /\ Cardinality(Since(s, w) \cup ((L + 1)..(L + n))) <= k + n
    <3>1. k <= k /\ Cardinality(Since(s, w)) <= k
      BY <2>2
    <3>. HIDE DEF k
    <3>. QED
      BY <1>9, <2>2, <3>1, TogetherNotMore
  <2>4. k + n \in Nat
    BY <2>2
  <2>5. Cardinality(Since(more, w)) <= k + n
    BY <2>1, <2>3, <2>4, NotMore
  <2>6. Cardinality(Since(more, w)) \in Nat /\ a.remaining + k <= B
    BY <1>3, <1>8, Parts
  <2>. HIDE DEF k
  <2>7. \A m \in Nat : m <= k + n => (a.remaining - n) + m <= B
    BY <1>1, <2>2, <2>6
  <2>. QED
    BY <2>5, <2>6, <2>7
<1>12. ASSUME NEW t \in Nat, t + W > w
       PROVE  Cardinality(Between(more, t, w)) <= B
  <2>1. Between(more, t, w) \subseteq Between(s, t, w)
    <3>1. \A i \in (L + 1)..(L + n) : ~(more[i] < w)
      BY <1>1, <1>8
    <3>. QED
      BY <1>8, <1>10, <3>1 DEF Between
  <2>2. IsFiniteSet(Between(s, t, w)) /\ Cardinality(Between(s, t, w)) <= B
    BY <1>1, <1>4, <1>12, Parts
  <2>. QED
    BY <1>1, <2>1, <2>2, NotMore
<1>13. ASSUME NEW t \in Nat
       PROVE  Cardinality(Between(more, t, t + W)) <= 2 * B
  <2>1. CASE t + W > w
    <3>1. Between(more, t, t + W) \subseteq Between(more, t, w) \cup Since(more, w)
      <4>1. \A i \in 1..Len(more) : more[i] \in Nat
        BY <1>8, ElementOfSeq
      <4>. QED
        BY <1>1, <4>1 DEF Between, Since
    <3>2. IsFiniteSet(Between(more, t, w)) /\ Cardinality(Between(more, t, w)) <= B
      BY <1>8, <1>12, <2>1, Parts
    <3>3. IsFiniteSet(Since(more, w)) /\ Cardinality(Since(more, w)) <= B
      <4>1. Cardinality(Since(more, w)) \in Nat /\ IsFiniteSet(Since(more, w))
        BY <1>8, Parts
      <4>2. a.remaining - n \in Nat
        BY <1>1
      <4>. QED
        BY <1>1, <1>11, <4>1, <4>2
    <3>4. /\ IsFiniteSet(Between(more, t, w) \cup Since(more, w))
          /\ Cardinality(Between(more, t, w) \cup Since(more, w)) <= B + B
      BY <1>1, <3>2, <3>3, TogetherNotMore
    <3>5. B + B = 2 * B /\ B + B \in Nat
      BY <1>1
    <3>6. Cardinality(Between(more, t, t + W)) <= B + B
      BY <3>1, <3>4, <3>5, NotMore
    <3>. QED
      BY <3>5, <3>6
  <2>2. CASE ~(t + W > w)
    <3>1. Between(more, t, t + W) \subseteq Between(s, t, t + W)
      <4>1. ~(now < t + W)
        BY <1>1, <2>2
      <4>. QED
        BY <1>1, <1>8, <1>10, <4>1 DEF Between
    <3>2. /\ IsFiniteSet(Between(s, t, t + W)) /\ Cardinality(Between(s, t, t + W)) <= 2 * B
          /\ 2 * B \in Nat
      <4>1. IsFiniteSet(Between(s, t, t + W))
        BY <1>1, Parts
      <4>2. 2 * B \in Nat
        BY <1>1
      <4>. QED
        BY <1>4, <4>1, <4>2
    <3>. QED
      BY <3>1, <3>2, NotMore
  <2>. QED
    BY <2>1, <2>2
<1>14. \A i \in 1..Len(more) : more[i] <= now /\ (W > 0 => more[i] < w + W)
  <2>. SUFFICES ASSUME NEW i \in 1..(L + n)
                PROVE  more[i] <= now /\ (W > 0 => more[i] < w + W)
    BY <1>8
  <2>1. CASE i \in 1..L
    BY <1>5, <1>8, <2>1
  <2>2. CASE i \in (L + 1)..(L + n)
    <3>1. more[i] = now /\ now <= now
      BY <1>8, <2>2
    <3>. QED
      BY <1>7, <3>1
  <2>. QED
    BY <1>10, <2>1, <2>2
<1>. QED
  BY <1>1, <1>6, <1>11, <1>12, <1>13, <1>14, LimitedIf DEF W, B

LEMMA LimitedWritesHold ==
  ASSUME AdapterBase, LimitedHolds(adapter, clock), LimitedWrites
  PROVE  LimitedHolds(adapter', clock)
<1>1. /\ adapter \in AdapterRecords /\ clock \in Nat /\ Inv
      /\ Window \in AdapterRecords /\ Window.started = TRUE
  BY WindowTypes DEF AdapterBase
<1>2. /\ LimitedHolds(Window, clock)
      /\ WindowTicks > 0 => clock < Window.windowStart + WindowTicks
  BY <1>1, WindowHolds
<1>3. CASE Stops(Window)
  BY <1>1, <1>2, <1>3, LimitedFresh DEF Stops
<1>4. ASSUME NEW n \in 1..Minimum(Len(Unsent), Window.remaining),
             Returns(n, [Put(Window, 1, Offered(n)) EXCEPT
                           !.remaining = @ - n,
                           !.stamps = @ \o [i \in 1..n |-> clock]])
      PROVE  LimitedHolds(adapter', clock)
  <2> DEFINE a == Window
             c == [Put(a, 1, Offered(n)) EXCEPT !.remaining = @ - n,
                                                !.stamps = @ \o [i \in 1..n |-> clock]]
  <2>1. adapter' = c
    BY <1>4 DEF Returns
  <2>2. a \in AdapterRecords /\ n \in 1..Minimum(Len(Unsent), a.remaining)
        /\ a.started = TRUE /\ LimitedHolds(a, clock)
        /\ (WindowTicks > 0 => clock < a.windowStart + WindowTicks)
    BY <1>1, <1>2, <1>4
  <2>. HIDE DEF a
  <2>3. /\ c.started = a.started /\ c.windowStart = a.windowStart
        /\ c.remaining = a.remaining - n
        /\ c.stamps = a.stamps \o [i \in 1..n |-> clock]
        /\ n \in Nat /\ n <= a.remaining
    BY <1>1, <2>2, BudgetedTypes
  <2>. HIDE DEF c
  <2>4. LimitedHolds(c, clock)
    BY <1>1, <2>2, <2>3, PassedOnInWindow
  <2>. QED
    BY <2>1, <2>4
<1>. QED
  BY <1>3, <1>4 DEF LimitedWrites, Budgeted

LEMMA FaultyFresh == FaultyHolds(Fresh)
  BY Empty, AdapterConstants DEF FaultyHolds, Fresh

LEMMA FaultyWritesHold ==
  ASSUME AdapterBase, FaultyHolds(adapter), FaultyWrites
  PROVE  FaultyHolds(adapter')
<1>1. adapter \in AdapterRecords /\ clock \in Nat /\ Inv /\ adapter.remaining \in Nat
      /\ adapter.below[1] \in Seq(Nat) /\ Len(adapter.below[1]) \in Nat
  <2>1. adapter \in AdapterRecords /\ clock \in Nat /\ Inv /\ adapter.remaining \in Nat
        /\ adapter.below[1] \in Seq(Nat)
    BY DEF AdapterBase, AdapterRecords
  <2>. QED
    BY <2>1, LenProperties
<1>2. CASE Stops(adapter)
  BY <1>2, FaultyFresh DEF Stops
<1>3. ASSUME NEW n \in 1..Minimum(Len(Unsent), adapter.remaining),
             Returns(n, [Put(adapter, 1, Offered(n)) EXCEPT
                           !.remaining = @ - n,
                           !.stamps = @ \o [i \in 1..n |-> clock]])
      PROVE  FaultyHolds(adapter')
  <2> DEFINE c == [Put(adapter, 1, Offered(n)) EXCEPT !.remaining = @ - n,
                                                !.stamps = @ \o [i \in 1..n |-> clock]]
  <2>1. adapter' = c
    BY <1>3 DEF Returns
  <2>2. /\ c.below[1] = adapter.below[1] \o Offered(n) /\ c.remaining = adapter.remaining - n
        /\ n \in Nat /\ n <= adapter.remaining /\ n \in 1..(Len(buffer) - written)
    BY <1>1, <1>3, BudgetedTypes
  <2>. HIDE DEF c
  <2>3. Offered(n) \in Seq(Nat) /\ Len(Offered(n)) = n
    BY <1>1, <2>2, OfferedFirst
  <2>4. Len(c.below[1]) = Len(adapter.below[1]) + n
    <3>1. Len(adapter.below[1] \o Offered(n)) = Len(adapter.below[1]) + Len(Offered(n))
      BY <1>1, <2>3, ConcatProperties
    <3>. QED
      BY <2>2, <2>3, <3>1
  <2>. QED
    BY <1>1, <2>1, <2>2, <2>4, AdapterConstants DEF FaultyHolds
<1>. QED
  BY <1>2, <1>3 DEF FaultyWrites, Budgeted

-----------------------------------------------------------------------------
(* The adapters' invariant.                                                *)

LimitedInv == kind = "Limited" => LimitedHolds(adapter, clock)
FaultyInv == kind = "Faulty" => FaultyHolds(adapter)

KindsInv == RingInv /\ LinesInv /\ LimitedInv /\ FaultyInv

AdapterInv == AdapterBase /\ KindsInv

LEMMA RingFresh == RingHolds(Fresh, 0)
<1>1. Fresh.cleared = 0 /\ Fresh.size = 0
  BY DEF Fresh
<1>2. Minimum(RingSize, 0 - 0) = 0
  BY AdapterConstants DEF Minimum
<1>. QED
  BY <1>1, <1>2 DEF RingHolds

\* Whatever kind it is, the adapter is a fresh one.
LEMMA KindsFresh ==
  ASSUME kind' = kind, newlines' = newlines, clock' = clock, clock \in Nat,
         adapter' = Fresh, delivered' = <<>>
  PROVE  KindsInv'
<1>1. RingInv'
  <2>1. Len(delivered') = 0
    BY Empty
  <2>. QED
    BY <2>1, RingFresh DEF RingInv
<1>2. LinesInv'
  <2>1. LinesHold(adapter)'
    BY LinesFresh, LinesNext
  <2>. QED
    BY <2>1 DEF LinesInv
<1>3. LimitedInv'
  BY LimitedFresh DEF LimitedInv
<1>4. FaultyInv'
  BY FaultyFresh DEF FaultyInv
<1>. QED
  BY <1>1, <1>2, <1>3, <1>4 DEF KindsInv

LEMMA KindsSame ==
  ASSUME KindsInv, UNCHANGED <<kind, newlines, clock, adapter, delivered>>
  PROVE  KindsInv'
<1>1. LinesInv'
  <2>1. kind = "Prefix" => LinesHold(adapter)'
    BY LinesNext DEF KindsInv, LinesInv
  <2>. QED
    BY <2>1 DEF LinesInv
<1>2. RingInv' /\ LimitedInv' /\ FaultyInv'
  BY DEF KindsInv, RingInv, LimitedInv, FaultyInv
<1>. QED
  BY <1>1, <1>2 DEF KindsInv

\* The kinds of which only the text is asked.
LEMMA KindsOther ==
  ASSUME kind' = kind, kind \notin {"Ring", "Prefix", "Limited", "Faulty"}
  PROVE  KindsInv'
  BY DEF KindsInv, RingInv, LinesInv, LimitedInv, FaultyInv

LEMMA BaseKept ==
  ASSUME AdapterBase, TextKept, UNCHANGED <<kind, newlines>>, clock' \in Nat
  PROVE  AdapterBase'
  BY DEF AdapterBase, TextKept

LEMMA NothingToCloseInv ==
  ASSUME Inv, NothingToClose
  PROVE  Inv'
<1>1. /\ buffer = <<>> /\ written = 0 /\ op # "Write"
  BY DEF NothingToClose, Inv, Control
<1>2. Len(buffer) = 0 /\ buffer \in Seq(Nat) /\ Len(buffer) = Len(buffer) - written
  BY <1>1, Empty
<1>3. sinkOpen \in BOOLEAN /\ drainFailed \in BOOLEAN
  BY DEF Inv, TypeOK
<1>4. \A k \in 1..Len(buffer) : buffer[k] = buffer[written + k]
  BY <1>2
<1>5. Return("Ok", buffer, sinkOpen) /\ drainFailed' = drainFailed /\ "Ok" \in {"Ok", "Failure"}
  BY DEF NothingToClose
<1>. QED
  BY <1>1, <1>2, <1>3, <1>4, <1>5, ReturnInv

\* A step that is no call of the adapter's WriteSome.
LEMMA QuietStep ==
  ASSUME AdapterInv, UNCHANGED <<kind, newlines, clock>>, Inv', ~Draining,
         \/ adapter' = adapter /\ delivered' = delivered
         \/ adapter' = Fresh /\ delivered' = <<>> /\ ~Draining'
  PROVE  AdapterInv'
<1>1. AdapterBase /\ KindsInv /\ Inv /\ clock \in Nat
  BY DEF AdapterInv, AdapterBase
<1>2. CASE adapter' = adapter /\ delivered' = delivered
  <2>1. TextInv' /\ HashInv' /\ adapter' \in AdapterRecords
    BY <1>1, <1>2, TextQuiet DEF AdapterBase, HashInv
  <2>2. KindsInv'
    BY <1>1, <1>2, KindsSame
  <2>. QED
    BY <1>1, <2>1, <2>2, BaseKept DEF AdapterInv, TextKept
<1>3. CASE adapter' = Fresh /\ delivered' = <<>> /\ ~Draining'
  <2>1. TextInv' /\ adapter' \in AdapterRecords
    BY <1>3, TextFresh, FreshTypes
  <2>2. HashInv'
    BY <1>3 DEF HashInv, Fresh
  <2>3. KindsInv'
    BY <1>1, <1>3, KindsFresh
  <2>. QED
    BY <1>1, <2>1, <2>2, <2>3, BaseKept DEF AdapterInv, TextKept
<1>. QED
  BY <1>2, <1>3

LEMMA ReturnTells ==
  ASSUME NEW outcome, NEW left, NEW open, Return(outcome, left, open)
  PROVE  /\ op' = "None" /\ ~Draining'
         /\ op = "Assign" => delivered' = <<>>
         /\ op # "Assign" => delivered' = delivered
  BY DEF Return, Draining

LEMMA FlushesKeep ==
  ASSUME AdapterInv, AdapterFlushes, UNCHANGED <<kind, newlines, clock>>
  PROVE  AdapterInv'
<1>1. Inv
  BY DEF AdapterInv, AdapterBase
<1>2. /\ SinkFlush \/ SinkClose \/ NothingToClose
      /\ adapter' = IF op = "Assign" /\ op' = "None" THEN Fresh ELSE adapter
  BY DEF AdapterFlushes
<1>3. Inv' /\ ~Draining
  BY <1>1, <1>2, SinkFlushCloseInv, NothingToCloseInv
     DEF SinkFlush, SinkClose, NothingToClose, Draining
<1>4. \/ \E outcome, left, open : Return(outcome, left, open)
      \/ op' = op /\ op # "None" /\ delivered' = delivered
  BY <1>1, <1>2 DEF SinkFlush, SinkClose, NothingToClose, Inv, Control
<1>5. \/ adapter' = adapter /\ delivered' = delivered
      \/ adapter' = Fresh /\ delivered' = <<>> /\ ~Draining'
  BY <1>2, <1>4, ReturnTells
<1>. QED
  BY <1>3, <1>5, QuietStep

LEMMA BufferKeepsAdapter ==
  ASSUME AdapterInv, Call \/ Copy \/ Drained, UNCHANGED <<kind, newlines, clock, adapter>>
  PROVE  AdapterInv'
<1>1. Inv
  BY DEF AdapterInv, AdapterBase
<1>2. Inv'
  BY <1>1, BeginInv, CopyInv, DrainedInv DEF Call
<1>3. CASE Call
  <2>1. ~Draining /\ delivered' = delivered
    BY <1>1, <1>3
       DEF Call, WriteSome, Flush, Close, Assign, Begin, Inv, Control, Draining
  <2>. QED
    BY <1>2, <2>1, QuietStep
<1>4. CASE Copy
  <2>1. ~Draining /\ delivered' = delivered
    BY <1>4, ReturnTells DEF Copy, Draining
  <2>. QED
    BY <1>2, <2>1, QuietStep
<1>5. CASE Drained
  <2>1. ~Draining /\ delivered' = delivered
    BY <1>1, <1>5, Counts DEF Drained, Draining
  <2>. QED
    BY <1>2, <2>1, QuietStep
<1>. QED
  BY <1>3, <1>4, <1>5

LEMMA RingKeeps ==
  ASSUME AdapterInv, RingWrites, UNCHANGED <<kind, newlines, clock>>
  PROVE  AdapterInv'
<1>1. /\ kind = "Ring" /\ Inv /\ adapter \in AdapterRecords
      /\ RingHolds(adapter, Len(delivered)) /\ clock \in Nat /\ AdapterBase
  BY DEF RingWrites, AdapterInv, AdapterBase, KindsInv, RingInv
<1> DEFINE a == FoldLeft(RingPut, adapter, Unsent)
           n == Len(Unsent)
<1>2. SinkTakes(n) /\ adapter' = a
  BY DEF RingWrites, Returns
<1>3. a \in AdapterRecords /\ RingHolds(a, Len(delivered) + n)
  BY <1>1, RingFold
<1>. HIDE DEF a
<1>4. n \in 1..(Len(buffer) - written)
  <2>1. Draining /\ Len(Unsent) = Len(buffer) - written
    BY <1>1, <1>2, UnsentText DEF SinkTakes
  <2>. QED
    BY <1>1, <2>1, Counts
<1>5. Inv' /\ Len(delivered') = Len(delivered) + n
  BY <1>1, <1>2, <1>4, Taking
<1>6. RingInv' /\ TextInv' /\ HashInv'
  BY <1>1, <1>2, <1>3, <1>5 DEF RingInv, TextInv, HashInv
<1>7. KindsInv'
  BY <1>1, <1>6 DEF KindsInv, LinesInv, LimitedInv, FaultyInv
<1>. QED
  BY <1>1, <1>2, <1>3, <1>5, <1>6, <1>7, BaseKept DEF AdapterInv, TextKept

LEMMA ClearKeeps ==
  ASSUME AdapterInv, RingClear, UNCHANGED <<kind, newlines, clock>>
  PROVE  AdapterInv'
<1>1. /\ kind = "Ring" /\ Inv /\ adapter \in AdapterRecords /\ clock \in Nat /\ AdapterBase
      /\ Len(delivered) \in Nat
  BY Counts DEF RingClear, AdapterInv, AdapterBase
<1>2. /\ adapter' = [adapter EXCEPT !.start = 0, !.size = 0, !.cleared = Len(delivered)]
      /\ UNCHANGED vars /\ delivered' = delivered
  BY DEF RingClear, vars
<1> DEFINE d == Len(delivered)
<1>3. d \in Nat
  BY <1>1
<1>4. adapter' = [adapter EXCEPT !.start = 0, !.size = 0, !.cleared = d] /\ Len(delivered') = d
  BY <1>2
<1>. HIDE DEF d
<1>5. 0 \in 0..(RingSize - 1) /\ 0 \in 0..RingSize
  BY AdapterConstants
<1>6. /\ adapter' \in AdapterRecords /\ adapter'.cleared = d /\ adapter'.size = 0
  BY <1>1, <1>3, <1>4, <1>5 DEF AdapterRecords
<1>7. RingHolds(adapter', d)
  <2>1. Minimum(RingSize, d - d) = 0 /\ d <= d
    BY <1>3, AdapterConstants DEF Minimum
  <2>. QED
    BY <1>6, <2>1 DEF RingHolds
<1>8. RingInv' /\ TextInv' /\ HashInv'
  BY <1>1, <1>4, <1>7 DEF RingInv, TextInv, HashInv
<1>9. Inv'
  BY <1>1, <1>2, NextInv
<1>10. KindsInv'
  BY <1>1, <1>8 DEF KindsInv, LinesInv, LimitedInv, FaultyInv
<1>. QED
  BY <1>1, <1>6, <1>8, <1>9, <1>10, BaseKept DEF AdapterInv, TextKept

\* What does not look at the clock.
LEMMA TextSame ==
  ASSUME AdapterBase, UNCHANGED <<vars, kind, newlines, adapter>>
  PROVE  TextKept
<1>1. Inv'
  BY NextInv DEF AdapterBase
<1>2. TextInv'
  BY DEF vars, AdapterBase, TextInv, Sides, Got, Draining
<1>. QED
  BY <1>1, <1>2 DEF AdapterBase, TextKept, HashInv

LEMMA TickKeeps ==
  ASSUME AdapterInv, Tick
  PROVE  AdapterInv'
<1>1. /\ kind = "Limited" /\ clock' = clock + 1 /\ UNCHANGED <<vars, kind, newlines, adapter>>
      /\ clock \in Nat /\ AdapterBase /\ adapter \in AdapterRecords
      /\ LimitedHolds(adapter, clock)
  BY DEF Tick, AdapterInv, AdapterBase, KindsInv, LimitedInv
<1>2. TextKept
  BY <1>1, TextSame
<1>3. KindsInv'
  <2>1. LimitedHolds(adapter', clock')
    BY <1>1, LimitedLater
  <2>. QED
    BY <1>1, <2>1 DEF KindsInv, RingInv, LinesInv, LimitedInv, FaultyInv
<1>. QED
  BY <1>1, <1>2, <1>3, BaseKept DEF AdapterInv

LEMMA AdapterStuttersKeep ==
  ASSUME AdapterInv, UNCHANGED adapter_vars
  PROVE  AdapterInv'
<1>1. UNCHANGED <<vars, kind, newlines, clock, adapter>> /\ delivered' = delivered
  BY DEF adapter_vars, vars
<1>2. TextKept
  BY <1>1, TextSame DEF AdapterInv
<1>3. KindsInv'
  BY <1>1, KindsSame DEF AdapterInv
<1>. QED
  BY <1>1, <1>2, <1>3, BaseKept DEF AdapterInv, AdapterBase

LEMMA WritesKeep ==
  ASSUME AdapterInv, UNCHANGED <<kind, newlines, clock>>,
         \/ HashingWrites \/ LimitedWrites \/ FaultyWrites \/ TeeWrites \/ TeeFails
         \/ PrefixWritten \/ PrefixFails \/ PrefixedByte \/ PrefixedByteFails
         \/ FixedWrites \/ MemoryWrites
  PROVE  AdapterInv'
<1>1. AdapterBase /\ KindsInv /\ clock' \in Nat
  BY DEF AdapterInv, AdapterBase
<1>2. TextKept
  BY <1>1, HashingKeeps, LimitedKeeps, TeeKeeps, TeeFailsKeeps, PrefixKeeps,
     PrefixFailsKeeps, BufferKeeps
<1>3. KindsInv'
  <2>1. CASE HashingWrites \/ TeeWrites \/ TeeFails \/ FixedWrites \/ MemoryWrites
    <3>1. kind \notin {"Ring", "Prefix", "Limited", "Faulty"}
      BY <2>1 DEF HashingWrites, TeeWrites, TeeFails, FixedWrites, MemoryWrites
    <3>. QED
      BY <3>1, KindsOther
  <2>2. CASE LimitedWrites
    <3>1. kind = "Limited" /\ LimitedHolds(adapter, clock)
      BY <1>1, <2>2 DEF LimitedWrites, KindsInv, LimitedInv
    <3>2. LimitedHolds(adapter', clock)
      BY <1>1, <2>2, <3>1, LimitedWritesHold
    <3>. QED
      BY <3>1, <3>2 DEF KindsInv, RingInv, LinesInv, LimitedInv, FaultyInv
  <2>3. CASE FaultyWrites
    <3>1. kind = "Faulty" /\ FaultyHolds(adapter)
      BY <1>1, <2>3 DEF FaultyWrites, KindsInv, FaultyInv
    <3>2. FaultyHolds(adapter')
      BY <1>1, <2>3, <3>1, FaultyWritesHold
    <3>. QED
      BY <3>1, <3>2 DEF KindsInv, RingInv, LinesInv, LimitedInv, FaultyInv
  <2>4. CASE PrefixWritten \/ PrefixedByte \/ PrefixFails \/ PrefixedByteFails
    <3>1. kind = "Prefix"
      BY <2>4 DEF PrefixWritten, PrefixedByte, PrefixFails, PrefixedByteFails
    <3>2. LinesHold(adapter)
      BY <1>1, <3>1 DEF KindsInv, LinesInv
    <3>3. LinesHold(adapter)'
      BY <1>1, <2>4, <3>2, PrefixLines
    <3>. QED
      BY <3>1, <3>3 DEF KindsInv, RingInv, LinesInv, LimitedInv, FaultyInv
  <2>. QED
    BY <2>1, <2>2, <2>3, <2>4
<1>. QED
  BY <1>1, <1>2, <1>3, BaseKept DEF AdapterInv

LEMMA AdapterStep == AdapterInv /\ [AdapterNext]_adapter_vars => AdapterInv'
<1>. SUFFICES ASSUME AdapterInv, [AdapterNext]_adapter_vars
              PROVE  AdapterInv'
  OBVIOUS
<1>1. CASE Call /\ UNCHANGED <<kind, newlines, clock, adapter>>
  BY <1>1, BufferKeepsAdapter
<1>2. CASE AdapterRun
  <2>1. UNCHANGED <<kind, newlines, clock>>
    BY <1>2 DEF AdapterRun
  <2>2. CASE (Copy \/ Drained) /\ UNCHANGED adapter
    BY <2>1, <2>2, BufferKeepsAdapter
  <2>3. CASE RingWrites
    BY <2>1, <2>3, RingKeeps
  <2>4. CASE AdapterFlushes
    BY <2>1, <2>4, FlushesKeep
  <2>. QED
    BY <1>2, <2>1, <2>2, <2>3, <2>4, WritesKeep DEF AdapterRun
<1>3. CASE RingClear /\ UNCHANGED <<kind, newlines, clock>>
  BY <1>3, ClearKeeps
<1>4. CASE Tick
  BY <1>4, TickKeeps
<1>5. CASE UNCHANGED adapter_vars
  BY <1>5, AdapterStuttersKeep
<1>. QED
  BY <1>1, <1>2, <1>3, <1>4, <1>5 DEF AdapterNext

LEMMA AdapterInitially == AdapterInit => AdapterInv
<1>. SUFFICES ASSUME AdapterInit PROVE AdapterInv
  OBVIOUS
<1>1. /\ Init /\ kind \in AdapterKinds /\ clock = 0 /\ adapter = Fresh
      /\ delivered = <<>> /\ ~Draining
  BY DEF AdapterInit, Init, Draining
<1>2. newlines \in SUBSET Nat
  <2>1. \A s \in SUBSET (1..MaxBytes) : s \in SUBSET Nat
    OBVIOUS
  <2>2. newlines \in SUBSET (1..MaxBytes) \/ newlines = {}
    BY DEF AdapterInit
  <2>. QED
    BY <2>1, <2>2
<1>3. Len(delivered) = 0 /\ Sides \subseteq {1, 2}
  BY <1>1, Empty DEF Sides
<1>4. /\ adapter.pos = 0 /\ adapter.side = 1
      /\ \A side \in {1, 2} : adapter.below[side] = <<>>
  BY <1>1 DEF Fresh
<1>5. \A side \in {1, 2} : Got(side) = 0
  BY <1>3, <1>4 DEF Got
<1>6. TextInv
  BY <1>1, <1>3, <1>4, <1>5, HasNoText DEF TextInv
<1>7. HashInv
  BY <1>1 DEF HashInv, Fresh
<1>8. AdapterBase
  BY <1>1, <1>2, <1>6, <1>7, InitInv, FreshTypes DEF AdapterBase
<1>9. KindsInv
  BY <1>1, <1>3, RingFresh, LinesFresh, LimitedFresh, FaultyFresh
     DEF KindsInv, RingInv, LinesInv, LimitedInv, FaultyInv
<1>. QED
  BY <1>8, <1>9 DEF AdapterInv

\* However the sinks below an adapter split and fail: what it has reported
\* is in each of them, and the ring, the lines and the budgets are as said.
THEOREM AdapterInvariance == AdapterSpec => []AdapterInv
BY AdapterInitially, AdapterStep, PTL DEF AdapterSpec

LEMMA PassedOnExactly ==
  ASSUME AdapterInv, kind # "Ring", NEW side \in Sides
  PROVE  NothingSkipped(adapter.below[side]) /\ ExactUnlessHalfway(adapter.below[side])
<1> DEFINE b == adapter.below[side]
           d == Len(delivered)
<1>1. /\ Inv /\ adapter \in AdapterRecords /\ TextInv /\ d \in Nat /\ delivered \in Seq(Nat)
      /\ \A i \in 1..d : delivered[i] = i
      /\ Len(buffer) - written \in Nat /\ adapter.pos \in Nat /\ adapter.side \in {1, 2}
      /\ side \in {1, 2}
  BY Counts DEF AdapterInv, AdapterBase, AdapterRecords, Sides
<1>2. HasText(b, Got(side), ~adapter.halfway)
  BY <1>1 DEF TextInv
<1>3. /\ side < adapter.side => Got(side) = d + (Len(buffer) - written)
      /\ side = adapter.side => Got(side) = d + adapter.pos
      /\ side > adapter.side => Got(side) = d
  BY <1>1 DEF Got
<1>4. Got(side) \in Nat /\ \A k \in 1..d : k \in 1..Got(side)
  BY <1>1, <1>3
<1>5. NothingSkipped(b)
  BY <1>2, <1>4 DEF NothingSkipped, HasText
<1>6. ExactUnlessHalfway(b)
  <2>. SUFFICES ASSUME ~adapter.halfway, adapter.pos = 0, adapter.side = 1
                PROVE  b = delivered
    BY DEF ExactUnlessHalfway
  <2>1. Got(side) = d
    BY <1>1, <1>3
  <2>2. b \in Seq(Nat) /\ Len(b) = d /\ \A i \in 1..d : b[i] = i
    BY <1>2, <2>1 DEF HasText
  <2>. HIDE DEF b
  <2>. QED
    BY <1>1, <2>2, SeqEqual
<1>. QED
  BY <1>5, <1>6

LEMMA RingReplays ==
  ASSUME AdapterInv
  PROVE  RingKeepsTheLatest
<1>. SUFFICES ASSUME kind = "Ring" PROVE RingKeepsTheLatest
  BY DEF RingKeepsTheLatest
<1> DEFINE d == Len(delivered)
           fit == Minimum(RingSize, d - adapter.cleared)
           latest == SubSeq(delivered, d - fit + 1, d)
<1>1. /\ Inv /\ adapter \in AdapterRecords /\ d \in Nat /\ delivered \in Seq(Nat)
      /\ \A i \in 1..d : delivered[i] = i
      /\ adapter.cleared \in Nat
  BY Counts DEF AdapterInv, AdapterBase, AdapterRecords
<1>2. /\ adapter.cleared <= d /\ adapter.size = fit
      /\ \A i \in 1..fit : adapter.cells[(adapter.start + i - 1) % RingSize] = d - fit + i
  BY DEF AdapterInv, KindsInv, RingInv, RingHolds
<1>3. fit \in Nat /\ fit <= d
  BY <1>1, <1>2, AdapterConstants DEF Minimum
<1>4. Replayed \in Seq(Nat) /\ Len(Replayed) = fit /\ \A i \in 1..fit : Replayed[i] = d - fit + i
  <2>1. Replayed = [i \in 1..fit |-> adapter.cells[(adapter.start + i - 1) % RingSize]]
    BY <1>2 DEF Replayed
  <2>. HIDE DEF fit, d
  <2>2. \A i \in 1..fit : d - fit + i \in Nat
    BY <1>1, <1>3
  <2>3. Replayed \in [1..fit -> Nat] /\ \A i \in 1..fit : Replayed[i] = d - fit + i
    BY <1>2, <2>1, <2>2
  <2>. QED
    BY <1>3, <2>3, FunctionIsSeq
<1>. HIDE DEF fit, d
<1>5. /\ latest \in Seq(Nat) /\ Len(latest) = fit
      /\ \A i \in 1..fit : latest[i] = d - fit + i
  <2>1. \A i \in (d - fit + 1)..d : delivered[i] \in Nat /\ i \in 1..d
    BY <1>1, <1>3
  <2>2. d - fit + 1 \in Int /\ d \in Int
    BY <1>1, <1>3
  <2>3. /\ latest \in Seq(Nat)
        /\ Len(latest) = IF d - fit + 1 <= d THEN d - (d - fit + 1) + 1 ELSE 0
        /\ \A i \in 1..(d - (d - fit + 1) + 1) : latest[i] = delivered[(d - fit + 1) + i - 1]
    BY <2>1, <2>2, SubSeqProperties
  <2>. HIDE DEF latest
  <2>4. Len(latest) = fit
    BY <1>1, <1>3, <2>3
  <2>5. ASSUME NEW i \in 1..fit PROVE latest[i] = d - fit + i
    <3>1. /\ i \in 1..(d - (d - fit + 1) + 1) /\ (d - fit + 1) + i - 1 = d - fit + i
          /\ d - fit + i \in 1..d
      BY <1>1, <1>3
    <3>. QED
      BY <1>1, <2>3, <3>1
  <2>. QED
    BY <2>3, <2>4, <2>5
<1>. HIDE DEF latest
<1>6. Replayed = latest
  BY <1>4, <1>5, SeqEqual
<1>. QED
  BY <1>6 DEF RingKeepsTheLatest, latest, fit, d

LEMMA LinesAreKept ==
  ASSUME AdapterInv
  PROVE  LinesKeepTheirPrefix
<1>. SUFFICES ASSUME kind = "Prefix" PROVE LinesKeepTheirPrefix
  BY DEF LinesKeepTheirPrefix
<1>1. \A i \in 1..Len(adapter.lines) : KeepsPrefix(adapter.lines, i)
  BY DEF AdapterInv, KindsInv, LinesInv, LinesHold
<1>. QED
  BY <1>1 DEF LinesKeepTheirPrefix, KeepsPrefix

\* Whatever the sinks below do, an adapter passes on all that it reports, in
\* order, twice only after a failure half-way; the ring has the latest bytes,
\* a line its prefix and the hash the bytes (IO/Adapter/*.hpp, WriteSome).
THEOREM AdaptersPassOnCorrect == AdapterSpec => []AdaptersPassOn
<1>1. AdapterInv => AdaptersPassOn
  <2>. SUFFICES ASSUME AdapterInv PROVE AdaptersPassOn
    OBVIOUS
  <2>1. kind # "Ring" =>
          \A side \in (IF kind = "Tee" THEN {1, 2} ELSE {1}) :
            NothingSkipped(adapter.below[side]) /\ ExactUnlessHalfway(adapter.below[side])
    BY PassedOnExactly DEF Sides
  <2>2. kind = "Hashing" => adapter.hashed = adapter.below[1]
    BY DEF AdapterInv, AdapterBase, HashInv
  <2>. QED
    BY <2>1, <2>2, LinesAreKept, RingReplays DEF AdaptersPassOn
<1>. QED
  BY <1>1, AdapterInvariance, PTL

LEMMA BudgetsHold ==
  ASSUME AdapterInv
  PROVE  BudgetIsKept
<1> DEFINE s == adapter.stamps
           during(from, to) == {i \in 1..Len(s) : from <= s[i] /\ s[i] < to}
<1>1. /\ adapter \in AdapterRecords /\ clock \in Nat /\ s \in Seq(Nat)
      /\ adapter.windowStart \in Nat /\ adapter.remaining \in Nat
      /\ adapter.below[1] \in Seq(Nat) /\ \A i \in 1..Len(s) : s[i] \in Nat
      /\ BytesPerWindow \in Nat
  <2>1. /\ adapter \in AdapterRecords /\ clock \in Nat /\ s \in Seq(Nat)
        /\ adapter.windowStart \in Nat /\ adapter.remaining \in Nat
        /\ adapter.below[1] \in Seq(Nat)
    BY DEF AdapterInv, AdapterBase, AdapterRecords
  <2>. QED
    BY <2>1, ElementOfSeq, AdapterConstants
<1>2. kind = "Faulty" => Len(adapter.below[1]) <= BytesPerWindow
  <2>. SUFFICES ASSUME kind = "Faulty" PROVE Len(adapter.below[1]) <= BytesPerWindow
    OBVIOUS
  <2>1. Len(adapter.below[1]) + adapter.remaining = BytesPerWindow
    BY DEF AdapterInv, KindsInv, FaultyInv, FaultyHolds
  <2>2. Len(adapter.below[1]) \in Nat
    BY <1>1, LenProperties
  <2>. QED
    BY <1>1, <2>1, <2>2
<1>3. ASSUME kind = "Limited"
      PROVE  /\ Cardinality(during(adapter.windowStart, clock + 1)) <= BytesPerWindow
             /\ \A t \in 0..MaxTicks :
                  Cardinality(during(t, t + WindowTicks)) <= 2 * BytesPerWindow
  <2>1. LimitedHolds(adapter, clock)
    BY <1>3 DEF AdapterInv, KindsInv, LimitedInv
  <2>2. /\ adapter.remaining + Cardinality(Since(s, adapter.windowStart)) <= BytesPerWindow
        /\ \A t \in Nat : Cardinality(Between(s, t, t + WindowTicks)) <= 2 * BytesPerWindow
    BY <2>1 DEF LimitedHolds
  <2>3. \A from, to : during(from, to) = Between(s, from, to)
    BY DEF Between
  <2>4. during(adapter.windowStart, clock + 1) \subseteq Since(s, adapter.windowStart)
    BY DEF Since
  <2>. HIDE DEF during, s
  <2> DEFINE k == Cardinality(Since(s, adapter.windowStart))
  <2>5. IsFiniteSet(Since(s, adapter.windowStart)) /\ k \in Nat
    BY <1>1, Parts
  <2>6. k <= BytesPerWindow
    <3>. HIDE DEF k
    <3>1. adapter.remaining + k <= BytesPerWindow
      BY <2>2 DEF k
    <3>. QED
      BY <1>1, <2>5, <3>1
  <2>7. Cardinality(during(adapter.windowStart, clock + 1)) <= BytesPerWindow
    BY <1>1, <2>4, <2>5, <2>6, NotMore
  <2>8. \A t \in 0..MaxTicks : Cardinality(during(t, t + WindowTicks)) <= 2 * BytesPerWindow
    BY <2>2, <2>3
  <2>. QED
    BY <2>7, <2>8
<1>. QED
  BY <1>2, <1>3 DEF BudgetIsKept

\* RateLimitedSink keeps its budget in a window and twice that in any time of
\* the same length, FaultInjectingSink its own (RateLimited.hpp, WriteSome).
THEOREM BudgetIsKeptCorrect == AdapterSpec => []BudgetIsKept
BY AdapterInvariance, BudgetsHold, PTL

-----------------------------------------------------------------------------
(* An adapter is a sink as BufferedSink takes one to be.                   *)

LEMMA WritesAreCalls ==
  ASSUME AdapterInv,
         \/ HashingWrites \/ LimitedWrites \/ FaultyWrites \/ TeeWrites \/ TeeFails
         \/ PrefixWritten \/ PrefixFails \/ PrefixedByte \/ PrefixedByteFails
         \/ RingWrites \/ FixedWrites \/ MemoryWrites
  PROVE  \/ \E n \in 1..(Len(buffer) - written) : SinkTakes(n)
         \/ SinkStops
         \/ UNCHANGED vars
<1>1. /\ AdapterBase /\ Inv /\ adapter \in AdapterRecords /\ adapter.pos \in Nat
      /\ Len(Unsent) = Len(buffer) - written /\ Len(Unsent) \in Nat
      /\ Draining => Len(Unsent) \in 1..(Len(buffer) - written)
  <2>1. AdapterBase /\ Inv /\ adapter \in AdapterRecords /\ adapter.pos \in Nat
    BY DEF AdapterInv, AdapterBase, AdapterRecords
  <2>2. Len(Unsent) = Len(buffer) - written /\ Len(Unsent) \in Nat
    BY <2>1, Counts, UnsentText
  <2>3. Draining => Len(Unsent) \in 1..(Len(buffer) - written)
    BY <2>1, <2>2, Counts
  <2>. QED
    BY <2>1, <2>2, <2>3
<1>2. \A a : Stops(a) => SinkStops
  BY DEF Stops
<1>3. \A a : GoesOn(a) => UNCHANGED vars
  BY DEF GoesOn
<1>4. \A n, a : Returns(n, a) => SinkTakes(n) /\ Draining
  BY DEF Returns, SinkTakes
<1>5. \A some : FailsHalfway(some) => SinkStops
  BY <1>2 DEF FailsHalfway
<1>6. CASE HashingWrites
  BY <1>1, <1>2, <1>4, <1>6 DEF HashingWrites
<1>7. ASSUME NEW a \in AdapterRecords, Budgeted(a)
      PROVE  (\E n \in 1..(Len(buffer) - written) : SinkTakes(n)) \/ SinkStops
  <2>1. CASE Stops(a)
    BY <1>2, <2>1
  <2>2. ASSUME NEW n \in 1..Minimum(Len(Unsent), a.remaining),
               Returns(n, [Put(a, 1, Offered(n)) EXCEPT
                             !.remaining = @ - n,
                             !.stamps = @ \o [i \in 1..n |-> clock]])
        PROVE  \E m \in 1..(Len(buffer) - written) : SinkTakes(m)
    <3>1. SinkTakes(n)
      BY <1>4, <2>2
    <3>2. a.remaining \in Nat
      BY <1>7 DEF AdapterRecords
    <3>3. n \in 1..(Len(buffer) - written)
      BY <1>1, <2>2, <3>2, MinimumBounds
    <3>. QED
      BY <3>1, <3>3
  <2>. QED
    BY <1>7, <2>1, <2>2 DEF Budgeted
<1>8. CASE LimitedWrites \/ FaultyWrites
  <2>1. Window \in AdapterRecords
    BY <1>1, WindowTypes DEF AdapterBase
  <2>. QED
    BY <1>1, <1>7, <1>8, <2>1 DEF LimitedWrites, FaultyWrites
<1>9. CASE TeeWrites
  <2>1. \A n \in 1..(Len(Unsent) - adapter.pos) : adapter.pos + n = Len(Unsent) =>
          adapter.pos + n \in 1..(Len(buffer) - written)
    BY <1>1
  <2>. QED
    BY <1>3, <1>4, <1>9, <2>1 DEF TeeWrites
<1>10. CASE TeeFails \/ PrefixFails
  BY <1>5, <1>10 DEF TeeFails, PrefixFails
<1>11. CASE PrefixWritten
  BY <1>3, <1>11 DEF PrefixWritten
<1>12. CASE PrefixedByte
  BY <1>1, <1>3, <1>4, <1>12 DEF PrefixedByte
<1>13. CASE PrefixedByteFails
  <2>1. CASE adapter.pos > 0 /\ Returns(adapter.pos, [adapter EXCEPT !.pos = 0])
    <3>1. SinkTakes(adapter.pos) /\ Draining /\ kind # "Ring"
      BY <1>4, <1>13, <2>1 DEF PrefixedByteFails
    <3>2. adapter.pos < Len(buffer) - written
      BY <1>1, <3>1 DEF AdapterBase, TextInv
    <3>3. adapter.pos \in 1..(Len(buffer) - written)
      BY <1>1, <2>1, <3>2
    <3>. QED
      BY <3>1, <3>3
  <2>. QED
    BY <1>2, <1>13, <2>1 DEF PrefixedByteFails
<1>14. CASE RingWrites
  <2>1. SinkTakes(Len(Unsent)) /\ Draining
    BY <1>4, <1>14 DEF RingWrites
  <2>. QED
    BY <1>1, <2>1
<1>15. CASE FixedWrites
  <2> DEFINE available == FixedSize - Len(adapter.below[1])
             count == Minimum(Len(Unsent), available)
  <2>1. CASE available > 0 /\ Returns(count, Put(adapter, 1, Offered(count)))
    <3>1. Len(adapter.below[1]) \in Nat
      <4>1. adapter.below[1] \in Seq(Nat)
        BY <1>1 DEF AdapterRecords
      <4>. QED
        BY <4>1, LenProperties
    <3>2. SinkTakes(count) /\ Draining
      BY <1>4, <2>1
    <3>3. count \in 1..(Len(buffer) - written)
      BY <1>1, <2>1, <3>1, <3>2, AdapterConstants DEF Minimum
    <3>. QED
      BY <3>2, <3>3
  <2>. QED
    BY <1>2, <1>15, <2>1 DEF FixedWrites
<1>16. CASE MemoryWrites
  <2>1. CASE Returns(Len(Unsent), Put(adapter, 1, Unsent))
    BY <1>1, <1>4, <2>1
  <2>. QED
    BY <1>2, <1>16, <2>1 DEF MemoryWrites
<1>. QED
  BY <1>6, <1>8, <1>9, <1>10, <1>11, <1>12, <1>13, <1>14, <1>15, <1>16

LEMMA AdapterIsSink ==
  ASSUME AdapterInv, [AdapterNext]_adapter_vars
  PROVE  [Next]_vars \/ NothingToClose
<1>1. CASE Call \/ Copy \/ Drained
  BY <1>1 DEF Next, Run
<1>2. CASE AdapterFlushes
  BY <1>2 DEF AdapterFlushes, Next, Run
<1>3. CASE RingClear \/ Tick \/ UNCHANGED adapter_vars
  BY <1>3 DEF RingClear, Tick, adapter_vars
<1>. QED
  BY <1>1, <1>2, <1>3, WritesAreCalls DEF AdapterNext, AdapterRun, Next, Run

\* BufferedSink loses and repeats nothing above any of the adapters.
THEOREM DeliveryAboveAdapters == AdapterSpec => []ExactlyOnceInOrder
<1>1. AdapterInv => ExactlyOnceInOrder
  BY DEF AdapterInv, AdapterBase, Inv
<1>. QED
  BY <1>1, AdapterInvariance, PTL

\* With an adapter for its sink, or a backend that has no Close, BufferedSink
\* implements the byte stream (Buffered.hpp over IO/Adapter/*.hpp).
THEOREM RefinementAboveAdapters == AdapterSpec => ImplementsByteStream
<1>1. AdapterInit => Stream!Init
  BY DEF AdapterInit, Init, Stream!Init, Sent
<1>2. AdapterInv /\ [AdapterNext]_adapter_vars => [Stream!Next]_(Stream!vars)
  <2>. SUFFICES ASSUME AdapterInv, [AdapterNext]_adapter_vars
                PROVE  [Stream!Next]_(Stream!vars)
    OBVIOUS
  <2>1. Inv
    BY DEF AdapterInv, AdapterBase
  <2>2. CASE NothingToClose
    BY <2>1, <2>2, ReturnSent
       DEF NothingToClose, Stream!Next, Stream!Restart, Stream!vars
  <2>. QED
    BY <2>1, <2>2, AdapterIsSink, StepIsStreamStep
<1>. QED
  BY <1>1, <1>2, AdapterInvariance, PTL
     DEF AdapterSpec, ImplementsByteStream, Stream!Spec
=============================================================================
