------------------------------- MODULE Logger -------------------------------
(***************************************************************************)
(* IO::Logger: WriteRecord encodes a record, takes the lock, and writes    *)
(* the record to every sink.  A sink that fails is skipped, and the first  *)
(* failure is returned in the end.  Sinks are attached before anybody      *)
(* logs: AddSink and ClearSinks take no lock.                              *)
(***************************************************************************)
EXTENDS SpinLock, Sequences

CONSTANTS
  Sinks,      \* how many sinks there are
  RecordSize, \* bytes of an encoded record
  MaxRecords  \* bound on the records that are begun

ASSUME LoggerAssumption ==
  /\ Sinks \in Nat
  /\ RecordSize \in Nat \ {0}
  /\ MaxRecords \in Nat

VARIABLES
  sink,    \* of each thread: the sink it is at, in 1..Sinks
  written, \* of each thread: Written of WriteAll
  failure, \* of each thread: the sink of FirstError, or 0 if nothing Failed
  result,  \* of each thread: what its last call returned: the sink whose
           \* error that is, 0 for success, or NotEncoded
  output,  \* of each sink: what it has received, bytes <<record, position>>
  begun,   \* how many records have been begun
  serial,  \* for the properties: how many records took the lock
  record,  \* for the properties: of each thread, the number of its record
  failed   \* for the properties: of each thread, the sinks that failed it

NotEncoded == Sinks + 1

locals == <<sink, written, failure, record, failed>>
vars == <<state, pc, locals, result, output, begun, serial>>

Init ==
  /\ state = 0
  /\ pc = [t \in Threads |-> "Idle"]
  /\ sink = [t \in Threads |-> 1]
  /\ written = [t \in Threads |-> 0]
  /\ failure = [t \in Threads |-> 0]
  /\ result = [t \in Threads |-> 0]
  /\ output = [s \in 1..Sinks |-> <<>>]
  /\ begun = 0
  /\ serial = 0
  /\ record = [t \in Threads |-> 0]
  /\ failed = [t \in Threads |-> {}]
-----------------------------------------------------------------------------
\* Log and LogFields of a record that passes the filter.  An allocation may
\* fail while it is encoded, which ends the call before it takes the lock.
Log(t) ==
  /\ begun < MaxRecords
  /\ begun' = begun + 1
  /\ \/ Goes(t, "Idle", "Exchange") /\ result' = result
     \/ Goes(t, "Idle", "Idle") /\ result' = [result EXCEPT ![t] = NotEncoded]
  /\ UNCHANGED <<state, locals, output, serial>>

\* The place of a thread that holds the lock and goes on to sink s.
PlaceAt(s) == IF s <= Sinks THEN "Write" ELSE "Unlock"

\* The guard takes the lock: the loop over the sinks begins.
Acquire(t) ==
  /\ TryLock(t, PlaceAt(1))
  /\ \/ /\ pc'[t] = "Spin"
        /\ UNCHANGED <<locals, serial>>
     \/ /\ pc'[t] # "Spin"
        /\ sink' = [sink EXCEPT ![t] = 1]
        /\ written' = [written EXCEPT ![t] = 0]
        /\ failure' = [failure EXCEPT ![t] = 0]
        /\ failed' = [failed EXCEPT ![t] = {}]
        /\ serial' = serial + 1
        /\ record' = [record EXCEPT ![t] = serial + 1]
  /\ UNCHANGED <<result, output, begun>>

Spin(t) == SpinEnds(t) /\ UNCHANGED <<locals, result, output, begun, serial>>

\* WriteAll's loop, one byte at a time: a sink may take any part of the rest.
WriteByte(t) ==
  /\ written[t] < RecordSize
  /\ Goes(t, "Write", "Write")
  /\ written' = [written EXCEPT ![t] = @ + 1]
  /\ output' = [output EXCEPT ![sink[t]] =
                  Append(@, <<record[t], written[t] + 1>>)]
  /\ UNCHANGED <<state, sink, failure, record, failed, result, begun, serial>>

WriteEnds(t) ==
  /\ written[t] = RecordSize
  /\ Goes(t, "Write", "Flush")
  /\ UNCHANGED <<state, locals, result, output, begun, serial>>

\* The loop goes on to the next sink.
NextSink(t) ==
  /\ sink' = [sink EXCEPT ![t] = @ + 1]
  /\ written' = [written EXCEPT ![t] = 0]

\* Deliberate error: the last failure is kept.
RemembersLast(t) == [failure EXCEPT ![t] = sink[t]]

\* Only the first failure is kept.
Remembers(t) == [failure EXCEPT ![t] = IF @ = 0 THEN sink[t] ELSE @]

\* The sink fails, or takes nothing.
Fails(t, from) ==
  /\ Goes(t, from, PlaceAt(sink[t] + 1))
  /\ failure' = Remembers(t)
  /\ failed' = [failed EXCEPT ![t] = @ \cup {sink[t]}]
  /\ NextSink(t)
  /\ UNCHANGED <<state, record, result, output, begun, serial>>

WriteFails(t) == written[t] < RecordSize /\ Fails(t, "Write")

FlushFails(t) == Fails(t, "Flush")

FlushEnds(t) ==
  /\ Goes(t, "Flush", PlaceAt(sink[t] + 1))
  /\ NextSink(t)
  /\ UNCHANGED <<state, failure, record, failed, result, output, begun, serial>>

\* The result is made and the guard releases the lock.
Return(t) ==
  /\ Unlock(t)
  /\ result' = [result EXCEPT ![t] = failure[t]]
  /\ UNCHANGED <<locals, output, begun, serial>>

Step(t) ==
  \/ Acquire(t)
  \/ Spin(t)
  \/ WriteByte(t)
  \/ WriteEnds(t)
  \/ WriteFails(t)
  \/ FlushEnds(t)
  \/ FlushFails(t)
  \/ Return(t)

Next == \E t \in Threads : Log(t) \/ Step(t)

\* A call that has begun goes on when nothing interrupts it; nobody has to
\* log.
Spec == Init /\ [][Next]_vars /\ \A t \in Threads : WF_vars(Step(t))
-----------------------------------------------------------------------------
TypeOK ==
  /\ state \in {0, 1}
  /\ pc \in [Threads -> {"Idle"} \cup Waiting \cup Holding]
  /\ sink \in [Threads -> 1..(Sinks + 1)]
  /\ written \in [Threads -> 0..RecordSize]
  /\ failure \in [Threads -> 0..Sinks]
  /\ result \in [Threads -> 0..NotEncoded]
  /\ output \in [1..Sinks -> Seq(Nat \X Nat)]
  /\ begun \in Nat
  /\ serial \in Nat
  /\ record \in [Threads -> Nat]
  /\ failed \in [Threads -> SUBSET (1..Sinks)]

Before(a, b) == a[1] < b[1] \/ (a[1] = b[1] /\ a[2] < b[2])

(***************************************************************************)
(* docs/guides/io-and-files: the logger "serializes fan-out to every       *)
(* configured sink".  Each sink receives the records whole or cut off,     *)
(* never mixed, never twice, and all sinks in the same order, that in      *)
(* which the records took the lock.                                        *)
(***************************************************************************)
SerializedFanOut ==
  \A s \in 1..Sinks : \A i, j \in 1..Len(output[s]) :
    i < j => Before(output[s][i], output[s][j])

(***************************************************************************)
(* docs/guides/io-and-files: "fan-out attempts every sink and returns the  *)
(* first failure after completing the rest".                               *)
(***************************************************************************)
EverySinkAttempted ==
  [][\A t \in Threads : pc[t] = "Unlock" /\ pc'[t] = "Idle" =>
       /\ \A s \in (1..Sinks) \ failed[t] :
            /\ output[s] # <<>>
            /\ output[s][Len(output[s])] = <<record[t], RecordSize>>
       /\ failed[t] = {} => result'[t] = 0
       /\ failed[t] # {} => /\ result'[t] \in failed[t]
                            /\ \A s \in failed[t] : result'[t] <= s]_vars

\* Every call returns, whichever sinks fail, unless a notification logs that
\* interrupted the holder of the lock: then both wait for ever.
LogReturns == \A t \in Threads : pc[t] # "Idle" ~> (pc[t] = "Idle" \/ Stuck)
=============================================================================
