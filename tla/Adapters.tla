------------------------------ MODULE Adapters ------------------------------
(***************************************************************************)
(* The sink adapters of IO/Adapter, each below a BufferedSink: the sink of *)
(* the module BufferedSink is here the WriteSome of an adapter, and below  *)
(* the adapter are sinks that take a part, nothing, or fail.  One step is  *)
(* one call of such a sink.                                                *)
(***************************************************************************)
EXTENDS BufferedSink, SequencesExt

CONSTANTS
  PrefixSize,     \* the bytes of PrefixSink's prefix
  BytesPerWindow, \* RateLimitedSink's budget, and FaultInjectingSink's
  WindowTicks,    \* the length of RateLimitedSink's window
  MaxTicks,       \* bound on the clock
  RingSize,       \* RingBufferSink's template parameter
  FixedSize,      \* the size of FixedBufferSink's buffer
  MaxHalfway      \* bound on the failures that leave something behind

ASSUME AdaptersAssumption ==
  /\ PrefixSize \in Nat \ {0}
  /\ {BytesPerWindow, WindowTicks, MaxTicks, FixedSize, MaxHalfway} \subseteq Nat
  /\ RingSize \in Nat \ {0}

\* Backends are sinks that have no sink below them.
Backends == {"Ring", "Fixed", "Memory"}
AdapterKinds == {"Tee", "Prefix", "Hashing", "Limited", "Faulty"} \cup Backends

VARIABLES
  kind,     \* which adapter this is
  newlines, \* the bytes of the text that are line feeds
  clock,    \* what RateLimitedSink's Clock_ returns
  adapter   \* the adapter's members, and what the properties look at

adapter_vars == <<vars, kind, newlines, clock, adapter>>

\* An adapter as it is constructed.
Fresh ==
  [pos |-> 0,           \* bytes the running WriteSome or WriteAll has written
   side |-> 1,          \* the sink the TeeSink is at
   prefixed |-> 0,      \* bytes of the prefix that are written
   lineStart |-> TRUE,  \* AtLineStart_
   remaining |-> BytesPerWindow,
   started |-> FALSE,
   windowStart |-> 0,
   cells |-> [i \in 0..(RingSize - 1) |-> 0],
   start |-> 0,
   size |-> 0,
   hashed |-> <<>>,     \* the bytes Hash_ is a function of
   below |-> <<<<>>, <<>>>>, \* the bytes of the text the sinks below took
   lines |-> <<>>,      \* all that a PrefixSink put out, 0 being the prefix
   stamps |-> <<>>,     \* when the sink below took each byte
   cleared |-> 0,       \* the bytes before the last Clear
   halfway |-> FALSE,   \* a failure was reported for bytes already taken
   failures |-> 0]

AdapterInit ==
  /\ Init
  /\ kind \in AdapterKinds
  /\ newlines \in IF kind = "Prefix" THEN SUBSET (1..MaxBytes) ELSE {{}}
  /\ clock = 0
  /\ adapter = Fresh
-----------------------------------------------------------------------------
\* The adapter's WriteSome goes on, returns n, or returns a failure.
GoesOn(a) == Draining /\ sinkOpen /\ adapter' = a /\ UNCHANGED vars
Returns(n, a) == SinkTakes(n) /\ adapter' = a
Stops(a) == SinkStops /\ adapter' = IF op = "Assign" THEN Fresh ELSE a

\* A WriteAll below fails, and the WriteSome above it starts anew next time.
FailsHalfway(taken) ==
  LET left == taken \/ adapter.prefixed > 0
  IN /\ left => adapter.failures < MaxHalfway
     /\ Stops([adapter EXCEPT !.pos = 0, !.side = 1, !.prefixed = 0,
                              !.halfway = @ \/ taken,
                              !.failures = IF left THEN @ + 1 ELSE @])

Offered(n) == SubSeq(Unsent, 1, n)
Put(a, side, bytes) == [a EXCEPT !.below[side] = @ \o bytes]

\* Deliberate error: every byte offered goes into the hash.
HashesOffered(n) == Unsent

\* The bytes HashingSink mixes in: those the sink below took.
Hashes(n) == Offered(n)

HashingWrites ==
  /\ kind = "Hashing"
  /\ \/ \E n \in 1..Len(Unsent) :
          Returns(n, [Put(adapter, 1, Offered(n)) EXCEPT !.hashed = @ \o Hashes(n)])
     \/ Stops(adapter)

Refills ==
  /\ adapter.started
  /\ WindowTicks > 0
  /\ clock - adapter.windowStart >= WindowTicks

\* Deliberate error: the budget is renewed without a new window.
WindowNotMoved ==
  [adapter EXCEPT !.started = TRUE,
                  !.remaining = IF Refills THEN BytesPerWindow ELSE @]

\* RateLimitedSink after it has looked at the clock.
Window ==
  [adapter EXCEPT !.started = TRUE,
                  !.windowStart = IF ~adapter.started \/ Refills THEN clock ELSE @,
                  !.remaining = IF Refills THEN BytesPerWindow ELSE @]

\* A budget bounds what is passed on, and nothing is when it is spent.
Budgeted(a) ==
  \/ \E n \in 1..Minimum(Len(Unsent), a.remaining) :
       Returns(n, [Put(a, 1, Offered(n)) EXCEPT
                     !.remaining = @ - n,
                     !.stamps = @ \o [i \in 1..n |-> clock]])
  \/ Stops(a)

LimitedWrites == kind = "Limited" /\ Budgeted(Window)
FaultyWrites == kind = "Faulty" /\ Budgeted(adapter)
-----------------------------------------------------------------------------
\* TeeSink: WriteAll to the first sink, then to the second.
TeeWrites ==
  /\ kind = "Tee"
  /\ \E n \in 1..(Len(Unsent) - adapter.pos) :
       LET end == adapter.pos + n
           a == Put(adapter, adapter.side, SubSeq(Unsent, adapter.pos + 1, end))
       IN \/ /\ end < Len(Unsent)
             /\ GoesOn([a EXCEPT !.pos = end])
          \/ /\ end = Len(Unsent)
             /\ adapter.side = 1
             /\ GoesOn([a EXCEPT !.pos = 0, !.side = 2])
          \/ /\ end = Len(Unsent)
             /\ adapter.side = 2
             /\ Returns(end, [a EXCEPT !.pos = 0, !.side = 1])

\* Deliberate error: what the first sink took counts as written.
TeeFailsAsWritten ==
  /\ kind = "Tee"
  /\ \/ adapter.side = 1 /\ FailsHalfway(adapter.pos > 0)
     \/ /\ adapter.side = 2
        /\ Returns(Len(Unsent), [adapter EXCEPT !.pos = 0, !.side = 1])

\* Either WriteAll fails, and nothing is reported as written.
TeeFails ==
  /\ kind = "Tee"
  /\ FailsHalfway(adapter.pos > 0 \/ adapter.side = 2)

\* PrefixSink's WriteAll of the prefix, at the start of a line.
PrefixWritten ==
  /\ kind = "Prefix"
  /\ adapter.lineStart
  /\ \E n \in 1..(PrefixSize - adapter.prefixed) :
       LET whole == adapter.prefixed + n = PrefixSize
       IN GoesOn([adapter EXCEPT
                    !.lines = @ \o [i \in 1..n |-> 0],
                    !.prefixed = IF whole THEN 0 ELSE @ + n,
                    !.lineStart = ~whole])

\* It fails: what the call has written before is not reported.
PrefixFails ==
  /\ kind = "Prefix"
  /\ adapter.lineStart
  /\ FailsHalfway(adapter.pos > 0)

\* Deliberate error: a line feed does not start a line.
LineGoesOn(byte) == FALSE

StartsLine(byte) == byte \in newlines

PrefixedByte ==
  /\ kind = "Prefix"
  /\ Draining
  /\ ~adapter.lineStart
  /\ LET byte == Unsent[adapter.pos + 1]
         a == [Put(adapter, 1, <<byte>>) EXCEPT !.lines = Append(@, byte),
                                               !.lineStart = StartsLine(byte)]
     IN \/ /\ adapter.pos + 1 < Len(Unsent)
           /\ GoesOn([a EXCEPT !.pos = @ + 1])
        \/ /\ adapter.pos + 1 = Len(Unsent)
           /\ Returns(Len(Unsent), [a EXCEPT !.pos = 0])

PrefixedByteFails ==
  /\ kind = "Prefix"
  /\ ~adapter.lineStart
  /\ \/ adapter.pos > 0 /\ Returns(adapter.pos, [adapter EXCEPT !.pos = 0])
     \/ adapter.pos = 0 /\ Stops(adapter)
-----------------------------------------------------------------------------
\* Deliberate error: a full ring does not move its start.
RingPutInPlace(a, byte) ==
  [a EXCEPT !.cells[(a.start + a.size) % RingSize] = byte,
            !.size = IF a.size < RingSize THEN @ + 1 ELSE @]

\* RingBufferSink takes a byte, over the oldest one if it is full.
RingPut(a, byte) ==
  [a EXCEPT !.cells[(a.start + a.size) % RingSize] = byte,
            !.size = IF a.size < RingSize THEN @ + 1 ELSE @,
            !.start = IF a.size < RingSize THEN @ ELSE (@ + 1) % RingSize]

RingWrites ==
  /\ kind = "Ring"
  /\ Returns(Len(Unsent), FoldLeft(RingPut, adapter, Unsent))

RingClear ==
  /\ kind = "Ring"
  /\ op = "None"
  /\ adapter' = [adapter EXCEPT !.start = 0, !.size = 0, !.cleared = Len(delivered)]
  /\ UNCHANGED vars

\* What Replay writes to the sink it is given.
Replayed ==
  [i \in 1..adapter.size |-> adapter.cells[(adapter.start + i - 1) % RingSize]]

\* FixedBufferSink fills its buffer and fails when it is full.
FixedWrites ==
  /\ kind = "Fixed"
  /\ LET available == FixedSize - Len(adapter.below[1])
         count == Minimum(Len(Unsent), available)
     IN \/ available > 0 /\ Returns(count, Put(adapter, 1, Offered(count)))
        \/ available = 0 /\ Stops(adapter)

\* MemorySink grows by all the bytes, or not at all.
MemoryWrites ==
  /\ kind = "Memory"
  /\ \/ Returns(Len(Unsent), Put(adapter, 1, Unsent))
     \/ Stops(adapter)
-----------------------------------------------------------------------------
\* IO::Close of a sink that has no Close does nothing.
NothingToClose ==
  /\ phase = "SinkClose"
  /\ Return("Ok", buffer, sinkOpen)
  /\ drainFailed' = drainFailed

\* Flush and Close of the adapter, of which a backend has neither.
AdapterFlushes ==
  /\ \/ SinkFlush
     \/ kind \notin Backends /\ SinkClose
     \/ kind \in Backends /\ NothingToClose
  /\ kind \in Backends /\ op' = "None" => result' = "Ok"
  /\ adapter' = IF op = "Assign" /\ op' = "None" THEN Fresh ELSE adapter

Tick ==
  /\ kind = "Limited"
  /\ clock < MaxTicks
  /\ clock' = clock + 1
  /\ UNCHANGED <<vars, kind, newlines, adapter>>

AdapterRun ==
  /\ \/ (Copy \/ Drained) /\ UNCHANGED adapter
     \/ HashingWrites
     \/ LimitedWrites
     \/ FaultyWrites
     \/ TeeWrites
     \/ TeeFails
     \/ PrefixWritten
     \/ PrefixFails
     \/ PrefixedByte
     \/ PrefixedByteFails
     \/ RingWrites
     \/ FixedWrites
     \/ MemoryWrites
     \/ AdapterFlushes
  /\ UNCHANGED <<kind, newlines, clock>>

AdapterNext ==
  \/ Call /\ UNCHANGED <<kind, newlines, clock, adapter>>
  \/ AdapterRun
  \/ RingClear /\ UNCHANGED <<kind, newlines, clock>>
  \/ Tick

\* An operation that has begun goes on; nobody has to begin one.
AdapterSpec ==
  AdapterInit /\ [][AdapterNext]_adapter_vars /\ WF_adapter_vars(AdapterRun)
-----------------------------------------------------------------------------
NothingSkipped(taken) ==
  /\ \A b \in 1..Len(delivered) : \E i \in 1..Len(taken) : taken[i] = b
  /\ \A i \in 1..Len(taken) :
       taken[i] = 1 \/ \E j \in 1..(i - 1) : taken[j] = taken[i] - 1

ExactUnlessHalfway(taken) ==
  ~adapter.halfway /\ adapter.pos = 0 /\ adapter.side = 1 => taken = delivered

\* In what the sink got, a whole prefix precedes every line and nothing else.
LinesKeepTheirPrefix ==
  LET out == adapter.lines
  IN kind = "Prefix" =>
       \A i \in 1..Len(out) :
         \/ /\ out[i] = 0
            /\ i = 1 \/ out[i - 1] = 0 \/ out[i - 1] \in newlines
         \/ /\ out[i] # 0
            /\ \/ i > 1 /\ out[i - 1] # 0 /\ out[i - 1] \notin newlines
               \/ i > PrefixSize /\ \A j \in (i - PrefixSize)..(i - 1) : out[j] = 0

\* Replay gives back the latest bytes since Clear, as many as fit, in order.
RingKeepsTheLatest ==
  kind = "Ring" =>
    LET fit == Minimum(RingSize, Len(delivered) - adapter.cleared)
    IN Replayed = SubSeq(delivered, Len(delivered) - fit + 1, Len(delivered))

(***************************************************************************)
(* However the sinks below split and fail: every byte reported as written  *)
(* is in each of them and none was overtaken; bytes are there twice only   *)
(* when a TeeSink or PrefixSink failed after it had passed them on; every  *)
(* line follows a whole prefix; the hash is that of what was taken; and    *)
(* the ring has the latest.                                                *)
(***************************************************************************)
AdaptersPassOn ==
  /\ kind # "Ring" =>
       \A side \in (IF kind = "Tee" THEN {1, 2} ELSE {1}) :
         NothingSkipped(adapter.below[side]) /\ ExactUnlessHalfway(adapter.below[side])
  /\ LinesKeepTheirPrefix
  /\ RingKeepsTheLatest
  /\ kind = "Hashing" => adapter.hashed = adapter.below[1]

\* A RateLimitedSink passes on at most one budget in its window and at most
\* two in any time of the same length; a FaultInjectingSink one in all.
BudgetIsKept ==
  LET during(from, to) ==
        {i \in 1..Len(adapter.stamps) : from <= adapter.stamps[i] /\ adapter.stamps[i] < to}
  IN /\ kind = "Faulty" => Len(adapter.below[1]) <= BytesPerWindow
     /\ kind = "Limited" =>
          /\ Cardinality(during(adapter.windowStart, clock + 1)) <= BytesPerWindow
          /\ \A t \in 0..MaxTicks :
               Cardinality(during(t, t + WindowTicks)) <= 2 * BytesPerWindow
=============================================================================
