---------------------------- MODULE BufferedSink ----------------------------
(***************************************************************************)
(* IO::BufferedSink over any output sink.  A caller runs WriteSome, Flush, *)
(* Close or the move assignment; the buffer is drained by calls of the     *)
(* sink's WriteSome, which takes some bytes, none, or fails.  Bytes are    *)
(* numbered in the order the caller means to write them: a caller that is  *)
(* told n bytes were accepted goes on with the next one, and one that is   *)
(* told of a failure offers the same bytes again, as WriteAll's users do.  *)
(***************************************************************************)
EXTENDS Naturals, Sequences

CONSTANTS
  Capacity, \* the template parameter
  MaxBytes, \* bound on the bytes written to one backend
  MaxWrite  \* bound on the bytes of one WriteSome

ASSUME BufferedSinkAssumption ==
  /\ Capacity \in Nat \ {0}
  /\ MaxBytes \in Nat
  /\ MaxWrite \in Nat

Ops == {"None", "Write", "Flush", "Close", "Assign"}
Phases == {"Copy", "Drain", "SinkFlush", "SinkClose"}

VARIABLES
  buffer,       \* Buffer_[0 .. Length_)
  written,      \* Written of the running FlushBuffer
  op,           \* the operation that is running
  phase,        \* what it is about to do
  size,         \* Bytes.Size() of the running WriteSome
  accepted,     \* Accepted of the running WriteSome
  result,       \* what the last operation returned
  sinkOpen,     \* the sink has not been closed
  acknowledged, \* for the properties: bytes WriteSome has reported accepted
  delivered,    \* for the properties: the bytes the sink has taken
  drainFailed,  \* for the properties: a drain has failed
  lost          \* for the properties: a move assignment dropped bytes

vars == <<buffer, written, op, phase, size, accepted, result, sinkOpen,
          acknowledged, delivered, drainFailed, lost>>

Init ==
  /\ buffer = <<>>
  /\ written = 0
  /\ op = "None"
  /\ phase = "Copy"
  /\ size = 0
  /\ accepted = 0
  /\ result = "Ok"
  /\ sinkOpen = TRUE
  /\ acknowledged = 0
  /\ delivered = <<>>
  /\ drainFailed = FALSE
  /\ lost = FALSE
-----------------------------------------------------------------------------
Begin(name, first) ==
  /\ op = "None"
  /\ op' = name
  /\ phase' = first
  /\ UNCHANGED <<buffer, written, result, sinkOpen, acknowledged, delivered,
                 drainFailed, lost>>

WriteSome ==
  /\ \E n \in 1..MaxWrite : acknowledged + n <= MaxBytes /\ size' = n
  /\ accepted' = 0
  /\ Begin("Write", "Copy")

\* Deliberate error: Flush passes over the adapter's own buffer.
FlushBackendOnly == Begin("Flush", "SinkFlush") /\ UNCHANGED <<size, accepted>>

Flush == Begin("Flush", "Drain") /\ UNCHANGED <<size, accepted>>
Close == Begin("Close", "Drain") /\ UNCHANGED <<size, accepted>>

\* operator=(BufferedSink&&) from a fresh sink: it closes what it replaces.
Assign == Begin("Assign", "Drain") /\ UNCHANGED <<size, accepted>>

(***************************************************************************)
(* The operation returns, leaving left in the buffer.  WriteSome reports   *)
(* the bytes it accepted, even when draining then failed; the move         *)
(* assignment ignores what Close said, and the old buffer and backend are  *)
(* gone.                                                                   *)
(***************************************************************************)
Return(outcome, left, open) ==
  /\ op' = "None"
  /\ phase' = "Copy"
  /\ written' = 0
  /\ size' = 0
  /\ accepted' = 0
  /\ \/ /\ op = "Assign"
        /\ buffer' = <<>>
        /\ lost' = (lost \/ left # <<>>)
        /\ result' = "Ok"
        /\ sinkOpen' = TRUE
        /\ acknowledged' = 0
        /\ delivered' = <<>>
     \/ /\ op # "Assign"
        /\ buffer' = left
        /\ result' = IF accepted > 0 THEN "Ok" ELSE outcome
        /\ sinkOpen' = open
        /\ acknowledged' = acknowledged + accepted
        /\ UNCHANGED <<delivered, lost>>

Minimum(a, b) == IF a < b THEN a ELSE b

\* Deliberate error: the copy begins at the first byte of the write again.
ExtendedFromStart(n) ==
  [k \in 1..(Len(buffer) + n) |->
     IF k <= Len(buffer) THEN buffer[k] ELSE acknowledged + (k - Len(buffer))]

\* The buffer with n more bytes copied behind its end.
Extended(n) ==
  [k \in 1..(Len(buffer) + n) |->
     IF k <= Len(buffer) THEN buffer[k]
     ELSE acknowledged + accepted + (k - Len(buffer))]

\* One round of WriteSome's loop: it returns, copies or starts to drain.
Copy ==
  /\ phase = "Copy"
  /\ op = "Write"
  /\ \/ /\ accepted = size
        /\ Return("Ok", buffer, sinkOpen)
        /\ drainFailed' = drainFailed
     \/ /\ accepted < size
        /\ Len(buffer) < Capacity
        /\ LET count == Minimum(Capacity - Len(buffer), size - accepted)
           IN /\ buffer' = Extended(count)
              /\ accepted' = accepted + count
        /\ UNCHANGED <<written, op, phase, size, result, sinkOpen,
                       acknowledged, delivered, drainFailed, lost>>
     \/ /\ accepted < size
        /\ Len(buffer) = Capacity
        /\ phase' = "Drain"
        /\ UNCHANGED <<buffer, written, op, size, accepted, result, sinkOpen,
                       acknowledged, delivered, drainFailed, lost>>
-----------------------------------------------------------------------------
Draining == phase = "Drain" /\ written < Len(buffer)

\* The bytes FlushBuffer has not passed on.
Unsent == SubSeq(buffer, written + 1, Len(buffer))

SinkTakes(n) ==
  /\ Draining
  /\ sinkOpen
  /\ written' = written + n
  /\ delivered' =
       [i \in 1..(Len(delivered) + n) |->
          IF i <= Len(delivered) THEN delivered[i]
          ELSE buffer[written + (i - Len(delivered))]]
  /\ UNCHANGED <<buffer, op, phase, size, accepted, result, sinkOpen,
                 acknowledged, drainFailed, lost>>

\* Deliberate error: FlushBuffer tries again where it should fail.
SinkStopsRetry ==
  /\ Draining
  /\ drainFailed' = TRUE
  /\ UNCHANGED <<buffer, written, op, phase, size, accepted, result, sinkOpen,
                 acknowledged, delivered, lost>>

(***************************************************************************)
(* The sink fails, or takes nothing, which FlushBuffer turns into          *)
(* NoProgress: the rest moves to the front of the buffer.  WriteSome then  *)
(* returns the bytes it accepted before, or the failure if there are none. *)
(***************************************************************************)
SinkStops ==
  /\ Draining
  /\ Return("Failure", Unsent, sinkOpen)
  /\ drainFailed' = TRUE

\* Deliberate error: Length_ is not reset.
DrainedKeepsLength ==
  /\ phase = "Drain"
  /\ written = Len(buffer)
  /\ written' = 0
  /\ phase' = IF op = "Write" THEN "Copy" ELSE "SinkFlush"
  /\ UNCHANGED <<buffer, op, size, accepted, result, sinkOpen, acknowledged,
                 delivered, drainFailed, lost>>

Drained ==
  /\ phase = "Drain"
  /\ written = Len(buffer)
  /\ buffer' = <<>>
  /\ written' = 0
  /\ phase' = IF op = "Write" THEN "Copy" ELSE "SinkFlush"
  /\ UNCHANGED <<op, size, accepted, result, sinkOpen, acknowledged, delivered,
                 drainFailed, lost>>

\* IO::Flush of the sink, which Flush and Close go on to.
SinkFlush ==
  /\ phase = "SinkFlush"
  /\ \/ /\ op = "Flush"
        /\ Return("Ok", buffer, sinkOpen)
        /\ drainFailed' = drainFailed
     \/ /\ op # "Flush"
        /\ phase' = "SinkClose"
        /\ UNCHANGED <<buffer, written, op, size, accepted, result, sinkOpen,
                       acknowledged, delivered, drainFailed, lost>>
     \/ /\ Return("Failure", buffer, sinkOpen)
        /\ drainFailed' = drainFailed

SinkClose ==
  /\ phase = "SinkClose"
  /\ \/ Return("Ok", buffer, FALSE)
     \/ Return("Failure", buffer, sinkOpen)
  /\ drainFailed' = drainFailed

Call == WriteSome \/ Flush \/ Close \/ Assign
Run ==
  \/ Copy
  \/ \E n \in 1..(Len(buffer) - written) : SinkTakes(n)
  \/ SinkStops
  \/ Drained
  \/ SinkFlush
  \/ SinkClose
Next == Call \/ Run

\* An operation that has begun goes on; nobody has to begin one.
Spec == Init /\ [][Next]_vars /\ WF_vars(Run)
-----------------------------------------------------------------------------
TypeOK ==
  /\ buffer \in Seq(Nat)
  /\ Len(buffer) <= Capacity
  /\ written \in 0..Len(buffer)
  /\ op \in Ops
  /\ phase \in Phases
  /\ size \in 0..MaxWrite
  /\ accepted \in 0..size
  /\ result \in {"Ok", "Failure"}
  /\ sinkOpen \in BOOLEAN
  /\ acknowledged \in 0..MaxBytes
  /\ delivered \in Seq(Nat)
  /\ drainFailed \in BOOLEAN
  /\ lost \in BOOLEAN

\* Bytes handed over to the adapter so far: the running WriteSome has
\* already taken some into its buffer.
Sent == acknowledged + accepted

(***************************************************************************)
(* However the sink fails and wherever the callers resume, the bytes it    *)
(* took and the ones still to be sent are 1, 2, ..., Sent in order: none   *)
(* is lost, duplicated or overtaken.                                       *)
(***************************************************************************)
ExactlyOnceInOrder ==
  /\ Len(delivered) + Len(buffer) - written = Sent
  /\ \A i \in 1..Len(delivered) : delivered[i] = i
  /\ \A k \in (written + 1)..Len(buffer) :
       buffer[k] = Len(delivered) + (k - written)

\* A successful Flush leaves nothing behind: the sink has every byte that
\* was ever acknowledged.
FlushPublishes ==
  [][op = "Flush" /\ op' = "None" /\ result' = "Ok"
       => Len(delivered') = acknowledged']_vars

\* Replacing a sink loses bytes only if one of its drains failed.
LossNeedsFailure == lost => drainFailed

\* A refinement: the adapter is a byte stream that lags by at most its
\* capacity.
Stream == INSTANCE ByteStream WITH Lag <- Capacity, sent <- Sent,
                                   received <- delivered
ImplementsByteStream == Stream!Spec

\* Every operation returns: a sink that keeps failing or takes nothing
\* cannot hold WriteSome or Flush in a loop.
CallsReturn == op # "None" ~> op = "None"
=============================================================================
