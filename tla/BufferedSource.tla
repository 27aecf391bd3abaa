--------------------------- MODULE BufferedSource ---------------------------
(***************************************************************************)
(* IO::BufferedSource over a source that can be read and moved.  The bytes *)
(* of the source are numbered 1, 2, ..., Size.  A read of the source takes *)
(* any number of bytes, may report the end when it reaches it, and fails   *)
(* without moving.  The source may have been moved before it was wrapped:  *)
(* LogicalPosition_ starts at 0 all the same.                              *)
(***************************************************************************)
EXTENDS Integers, Sequences

CONSTANTS
  Capacity, \* the template parameter
  Size      \* of the source

ASSUME BufferedSourceAssumption == Capacity \in Nat \ {0} /\ Size \in Nat

VARIABLES
  sourcePosition,  \* where the source stands
  buffer,          \* Buffer_[0 .. Length_)
  position,        \* Position_
  logicalPosition, \* LogicalPosition_
  end,             \* End_
  call,            \* the Peek or Consume that is running
  ahead,           \* its Lookahead
  left,            \* how many bytes it has still to consume
  base,            \* for the properties: what LogicalPosition_ counts from
  got,             \* for the properties: what the last call handed out, as
                   \* in ByteReader
  closed           \* for the properties: closed, and not moved since

source_vars == <<sourcePosition, buffer, position, logicalPosition, end, call,
                 ahead, left, base, got, closed>>

SourceInit ==
  /\ sourcePosition \in 0..Size
  /\ buffer = <<>>
  /\ position = 0
  /\ logicalPosition = 0
  /\ end = FALSE
  /\ call = "None"
  /\ ahead = 0
  /\ left = 0
  /\ base = sourcePosition
  /\ got = <<>>
  /\ closed = FALSE

\* How many bytes lie before the next one that is handed out.
Place == base + logicalPosition
-----------------------------------------------------------------------------
Rest == SubSeq(buffer, position + 1, Len(buffer))
Available(k) == position + k < Len(buffer)
Ahead(k) == buffer[position + k + 1]

\* ReadSome of the source with room for some bytes.
SourceReads(kept, room, n, atEnd) ==
  /\ n \in 0..room
  /\ sourcePosition + n <= Size
  /\ atEnd => sourcePosition + n = Size
  /\ sourcePosition' = sourcePosition + n
  /\ buffer' = [k \in 1..(Len(kept) + n) |->
                  IF k <= Len(kept) THEN kept[k]
                  ELSE sourcePosition + (k - Len(kept))]
  /\ end' = atEnd

\* A round of Peek's loop that asks the source for more.
Fetch(k) ==
  /\ ~Available(k)
  /\ ~end
  /\ Len(Rest) < Capacity
  /\ \E n \in 0..Capacity, atEnd \in BOOLEAN :
       /\ n > 0 \/ atEnd
       /\ SourceReads(Rest, Capacity - Len(Rest), n, atEnd)
  /\ position' = 0
  /\ UNCHANGED <<logicalPosition, base>>

Compacted ==
  /\ buffer' = Rest
  /\ position' = 0
  /\ UNCHANGED <<sourcePosition, logicalPosition, end, base>>

\* Peek finds the end.
FindsEnd(k) ==
  /\ ~Available(k)
  /\ end
  /\ Compacted
  /\ got' = <<0, Place + k + 1>>

\* The source fails or makes no progress, or the buffer is full.
PeekFails(k) == ~Available(k) /\ ~end /\ Compacted /\ got' = got

\* Deliberate error: LogicalPosition_ stays.
TakeForgets ==
  /\ position' = position + 1
  /\ UNCHANGED <<sourcePosition, buffer, logicalPosition, end, base>>

\* Consume of a byte that a Peek has made available.
Take ==
  /\ position' = position + 1
  /\ logicalPosition' = logicalPosition + 1
  /\ UNCHANGED <<sourcePosition, buffer, end, base>>
-----------------------------------------------------------------------------
\* ReadSome hands out n of the bytes that are buffered now, from offset p on.
HandOut(p, n) ==
  /\ position' = p + n
  /\ logicalPosition' = logicalPosition + n
  /\ got' = LET bytes == SubSeq(buffer', p + 1, p + n)
            IN IF n = 0 THEN <<0, Place + 1>>
               ELSE IF end' /\ p + n = Len(buffer') THEN Append(bytes, 0)
               ELSE bytes

\* Fill, which begins by dropping the buffer.
Fill ==
  /\ position = Len(buffer)
  /\ \/ end /\ buffer' = <<>> /\ UNCHANGED <<sourcePosition, end>>
     \/ /\ ~end
        /\ \E n \in 0..Capacity, atEnd \in BOOLEAN :
             (n > 0 \/ atEnd) /\ SourceReads(<<>>, Capacity, n, atEnd)

ReadSome ==
  /\ call = "None"
  /\ \E size \in 1..(Capacity + 1) :
       \/ /\ Available(0)
          /\ UNCHANGED <<sourcePosition, buffer, end>>
          /\ \E n \in 1..size :
               /\ position + n <= Len(buffer)
               /\ n = size \/ position + n = Len(buffer)
               /\ HandOut(position, n)
       \/ /\ Fill
          /\ \E n \in 0..size :
               /\ n <= Len(buffer')
               /\ n = size \/ n = Len(buffer')
               /\ HandOut(0, n)
  /\ UNCHANGED <<call, ahead, left, base, closed>>

ReadSomeFails ==
  /\ call = "None"
  /\ position = Len(buffer)
  /\ ~end
  /\ buffer' = <<>>
  /\ position' = 0
  /\ UNCHANGED <<sourcePosition, logicalPosition, end, call, ahead, left, base,
                 got, closed>>

Peek ==
  /\ call = "None"
  /\ call' = "Peek"
  /\ ahead' \in 0..Capacity
  /\ UNCHANGED <<sourcePosition, buffer, position, logicalPosition, end, left,
                 base, got, closed>>

Consume ==
  /\ call = "None"
  /\ call' = "Consume"
  /\ left' \in 1..(Capacity + 1)
  /\ UNCHANGED <<sourcePosition, buffer, position, logicalPosition, end, ahead,
                 base, got, closed>>

CallReturns == call' = "None" /\ ahead' = 0 /\ left' = 0

\* The rounds of the running call; one that consumes ends behind its last
\* byte.
Round ==
  /\ call # "None"
  /\ \/ Fetch(ahead) /\ UNCHANGED <<call, ahead, left, got>>
     \/ FindsEnd(ahead) /\ CallReturns
     \/ PeekFails(ahead) /\ CallReturns
     \/ /\ call = "Peek"
        /\ Available(ahead)
        /\ got' = <<Ahead(ahead)>>
        /\ CallReturns
        /\ UNCHANGED <<sourcePosition, buffer, position, logicalPosition, end, base>>
     \/ /\ call = "Consume"
        /\ Available(0)
        /\ Take
        /\ got' = got
        /\ IF left = 1 THEN CallReturns
           ELSE left' = left - 1 /\ UNCHANGED <<call, ahead>>
  /\ closed' = closed

\* Deliberate error: what is buffered survives.
SeekKeepsBuffer(p) ==
  /\ sourcePosition' = p
  /\ logicalPosition' = p
  /\ end' = FALSE
  /\ base' = 0
  /\ got' = <<>>
  /\ closed' = FALSE
  /\ UNCHANGED <<buffer, position>>

\* Seek of a source that can be moved there; one that fails changes nothing.
SeekTo(p) ==
  /\ sourcePosition' = p
  /\ buffer' = <<>>
  /\ position' = 0
  /\ logicalPosition' = p
  /\ end' = FALSE
  /\ base' = 0
  /\ got' = <<>>
  /\ closed' = FALSE

Seek ==
  /\ call = "None"
  /\ \E p \in 0..Size : SeekTo(p)
  /\ UNCHANGED <<call, ahead, left>>

\* Close, whatever the source says of its own.
Close ==
  /\ call = "None"
  /\ position' = 0
  /\ buffer' = <<>>
  /\ end' = TRUE
  /\ closed' = TRUE
  /\ UNCHANGED <<sourcePosition, logicalPosition, call, ahead, left, base, got>>

SourceNext ==
  \/ ReadSome
  \/ ReadSomeFails
  \/ Peek
  \/ Consume
  \/ Round
  \/ Seek
  \/ Close

SourceSpec == SourceInit /\ [][SourceNext]_source_vars
-----------------------------------------------------------------------------
SourceTypeOK ==
  /\ sourcePosition \in 0..Size
  /\ buffer \in Seq(1..Size)
  /\ Len(buffer) <= Capacity
  /\ position \in 0..Len(buffer)
  /\ logicalPosition \in 0..Size
  /\ end \in BOOLEAN
  /\ call \in {"None", "Peek", "Consume"}
  /\ ahead \in 0..Capacity
  /\ left \in 0..(Capacity + 1)
  /\ base \in 0..Size
  /\ got \in Seq(Nat)
  /\ closed \in BOOLEAN

(***************************************************************************)
(* What is buffered is what lies between the reader and the source, and    *)
(* End_ is set only behind the last byte, however reads were cut short,    *)
(* failed, looked ahead or were followed by a Seek.                        *)
(***************************************************************************)
Aligned ==
  ~closed =>
    /\ Place + (Len(buffer) - position) = sourcePosition
    /\ \A k \in 1..Len(buffer) : buffer[k] = sourcePosition - Len(buffer) + k
    /\ end => sourcePosition = Size

\* A refinement: the adapter is a ByteReader, whatever the source does.
Reader == INSTANCE ByteReader WITH place <- Place, open <- ~closed
ImplementsByteReader == Reader!Spec
=============================================================================
