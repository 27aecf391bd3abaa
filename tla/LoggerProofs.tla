---------------------------- MODULE LoggerProofs ----------------------------
(***************************************************************************)
(* Proofs about the logger and its lock, for any number of threads and     *)
(* sinks.  The invariant says what the holder of the lock has done so far: *)
(* which bytes of its record each sink has, and which sinks have failed.   *)
(***************************************************************************)
EXTENDS Logger, SequenceTheorems, TLAPS

\* The loop's index fits the place, and Flush follows a complete record.
Places ==
  \A t \in Threads :
    /\ pc[t] \in {"Write", "Flush"} => sink[t] \in 1..Sinks
    /\ pc[t] = "Flush" => written[t] = RecordSize
    /\ pc[t] = "Unlock" => sink[t] = Sinks + 1

\* The holder's record is the newest, and the sinks have of it what the
\* loop has written.
Newest ==
  /\ \A s \in 1..Sinks : \A i \in 1..Len(output[s]) : output[s][i][1] <= serial
  /\ \A t \in Threads : pc[t] \in Holding =>
       /\ record[t] = serial
       /\ \A s \in 1..Sinks : \A i \in 1..Len(output[s]) :
            output[s][i][1] = serial =>
              s < sink[t] \/ (s = sink[t] /\ output[s][i][2] <= written[t])

\* The sinks behind the holder's loop have failed or have the whole record.
Attempted ==
  \A t \in Threads : pc[t] \in Holding =>
    \A s \in 1..Sinks :
      \/ s \in failed[t]
      \/ s >= sink[t] /\ (s > sink[t] \/ written[t] = 0)
      \/ /\ output[s] # <<>>
         /\ output[s][Len(output[s])] =
              <<record[t], IF s < sink[t] THEN RecordSize ELSE written[t]>>

\* What the holder remembers is the first of the failures.
FirstKept ==
  \A t \in Threads : pc[t] \in Holding =>
    /\ \A s \in failed[t] : s < sink[t] /\ failure[t] <= s
    /\ failure[t] = 0 => failed[t] = {}
    /\ failure[t] # 0 => failure[t] \in failed[t]

Inv ==
  /\ TypeOK
  /\ MutualExclusion
  /\ Places
  /\ Newest
  /\ SerializedFanOut
  /\ Attempted
  /\ FirstKept
-----------------------------------------------------------------------------
PlaceNames == {"Idle"} \cup Waiting \cup Holding

\* What a sink has received are pairs of numbers.
LEMMA OutputType ==
  ASSUME TypeOK, NEW s \in 1..Sinks
  PROVE  /\ output[s] \in Seq(Nat \X Nat)
         /\ Len(output[s]) \in Nat
         /\ \A i \in 1..Len(output[s]) :
              output[s][i][1] \in Nat /\ output[s][i][2] \in Nat
<1>1. output[s] \in Seq(Nat \X Nat)
  BY DEF TypeOK
<1>2. \A i \in 1..Len(output[s]) : output[s][i] \in Nat \X Nat
  BY <1>1
<1> QED
  BY <1>1, <1>2

\* A step from one place to another moves its thread and no other.
LEMMA GoesMoves ==
  ASSUME TypeOK, NEW t \in Threads, NEW from, NEW to \in PlaceNames,
         Goes(t, from, to)
  PROVE  /\ pc' \in [Threads -> PlaceNames]
         /\ pc[t] = from
         /\ pc'[t] = to
         /\ \A u \in Threads : u # t => pc'[u] = pc[u]
BY DEF TypeOK, Goes, PlaceNames

\* A step of the holder that keeps the lock: it stays the only holder.
LEMMA HolderMoves ==
  ASSUME TypeOK, MutualExclusion, NEW t \in Threads, NEW from \in Holding,
         NEW to \in Holding, Goes(t, from, to), state' = state
  PROVE  /\ MutualExclusion'
         /\ \A u \in Threads : pc'[u] \in Holding => u = t
<1>1. to \in PlaceNames
  BY DEF PlaceNames
<1>2. /\ pc[t] = from /\ pc'[t] = to
      /\ \A u \in Threads : u # t => pc'[u] = pc[u]
  BY <1>1, GoesMoves
<1>3. \A u \in Threads : pc'[u] \in Holding <=> pc[u] \in Holding
  BY <1>2
<1> QED
  BY <1>2, <1>3 DEF MutualExclusion

\* A step outside of the lock leaves its holder alone.
LEMMA OtherMoves ==
  ASSUME TypeOK, MutualExclusion, NEW t \in Threads, NEW from,
         from \notin Holding, NEW to \in PlaceNames, to \notin Holding,
         Goes(t, from, to), state' = state
  PROVE  /\ MutualExclusion'
         /\ \A u \in Threads : pc'[u] \in Holding => pc'[u] = pc[u]
<1>1. /\ pc[t] = from /\ pc'[t] = to
      /\ \A u \in Threads : u # t => pc'[u] = pc[u]
  BY GoesMoves
<1>2. \A u \in Threads : pc'[u] \in Holding <=> pc[u] \in Holding
  BY <1>1
<1> QED
  BY <1>1, <1>2 DEF MutualExclusion

\* With the holder's locals and the outputs unchanged, so is the rest.
LEMMA OtherKeeps ==
  ASSUME Inv, NEW t \in Threads, NEW from \in {"Idle"} \cup Waiting,
         NEW to \in {"Idle"} \cup Waiting, Goes(t, from, to),
         UNCHANGED <<state, locals, output, serial>>, begun' \in Nat,
         result' \in [Threads -> 0..NotEncoded]
  PROVE  Inv'
<1>1. from \notin Holding /\ to \notin Holding /\ to \in PlaceNames
  BY DEF Waiting, Holding, PlaceNames
<1>2. TypeOK /\ MutualExclusion
  BY DEF Inv
<1>3. /\ MutualExclusion'
      /\ \A u \in Threads : pc'[u] \in Holding => pc'[u] = pc[u]
  BY <1>1, <1>2, OtherMoves
<1>4. pc' \in [Threads -> PlaceNames]
  BY <1>1, <1>2, GoesMoves
<1>5. TypeOK'
  BY <1>2, <1>4 DEF TypeOK, PlaceNames, locals
<1>6. Places'
  BY <1>3 DEF Inv, Places, Holding, locals
<1>7. Newest'
  <2>1. UNCHANGED <<sink, written, record, output, serial>>
    BY DEF locals
  <2> QED
    BY <1>3, <2>1 DEF Inv, Newest
<1>8. SerializedFanOut' /\ Attempted' /\ FirstKept'
  <2>1. UNCHANGED <<sink, written, failure, record, failed, output>>
    BY DEF locals
  <2>2. SerializedFanOut'
    BY <2>1 DEF Inv, SerializedFanOut
  <2>3. Attempted'
    BY <1>3, <2>1 DEF Inv, Attempted
  <2>4. FirstKept'
    BY <1>3, <2>1 DEF Inv, FirstKept
  <2> QED
    BY <2>2, <2>3, <2>4
<1> QED
  BY <1>3, <1>5, <1>6, <1>7, <1>8 DEF Inv
-----------------------------------------------------------------------------
LEMMA InitInv == Init => Inv
<1> SUFFICES ASSUME Init PROVE Inv
  OBVIOUS
<1>1. TypeOK
  BY LoggerAssumption DEF Init, TypeOK, Waiting, Holding, NotEncoded
<1>2. \A t \in Threads : pc[t] \notin Holding
  BY DEF Init, Holding
<1>3. MutualExclusion
  BY <1>2 DEF Init, MutualExclusion
<1>4. \A s \in 1..Sinks : Len(output[s]) = 0
  BY DEF Init
<1>5. Newest /\ SerializedFanOut
  BY <1>2, <1>4 DEF Newest, SerializedFanOut
<1>6. Places /\ Attempted /\ FirstKept
  BY <1>2 DEF Places, Attempted, FirstKept, Holding
<1> QED
  BY <1>1, <1>3, <1>5, <1>6 DEF Inv

LEMMA LogInv ==
  ASSUME Inv, NEW t \in Threads, Log(t)
  PROVE  Inv'
<1>1. begun' \in Nat /\ result' \in [Threads -> 0..NotEncoded]
  <2>1. NotEncoded \in 0..NotEncoded
    BY LoggerAssumption DEF NotEncoded
  <2>2. result \in [Threads -> 0..NotEncoded] /\ begun \in Nat
    BY DEF Inv, TypeOK
  <2> QED
    BY <2>1, <2>2 DEF Log
<1> QED
  BY <1>1, OtherKeeps DEF Log, Waiting

LEMMA SpinInv ==
  ASSUME Inv, NEW t \in Threads, Spin(t)
  PROVE  Inv'
<1>1. begun' \in Nat /\ result' \in [Threads -> 0..NotEncoded]
  BY DEF Inv, TypeOK, Spin
<1> QED
  BY <1>1, OtherKeeps DEF Spin, SpinEnds, Waiting

\* Taking the lock: no thread holds it, and the record begun is the newest.
LEMMA AcquireInv ==
  ASSUME Inv, NEW t \in Threads, Acquire(t)
  PROVE  Inv'
<1> DEFINE to == PlaceAt(1)
<1>0. TypeOK /\ MutualExclusion /\ Sinks \in Nat
  BY LoggerAssumption DEF Inv
<1>1. to \in {"Write", "Unlock"} /\ to \in Holding /\ to \in PlaceNames
  BY DEF PlaceAt, Holding, PlaceNames
<1>2. CASE state = 1 /\ Goes(t, "Exchange", "Spin")
  <2>1. pc'[t] = "Spin"
    BY <1>0, <1>2, GoesMoves DEF PlaceNames, Waiting
  <2>2. /\ UNCHANGED <<state, locals, output, serial>> /\ begun' \in Nat
        /\ result' \in [Threads -> 0..NotEncoded]
    BY <1>0, <1>2, <2>1 DEF Acquire, TryLock, TypeOK
  <2> QED
    BY <1>2, <2>2, OtherKeeps DEF Waiting
<1>3. CASE state = 0 /\ Goes(t, "Exchange", to)
  <2>1. /\ pc' \in [Threads -> PlaceNames] /\ pc'[t] = to
        /\ \A u \in Threads : u # t => pc'[u] = pc[u]
    BY <1>0, <1>1, <1>3, GoesMoves
  <2>2. /\ sink' = [sink EXCEPT ![t] = 1]
        /\ written' = [written EXCEPT ![t] = 0]
        /\ failure' = [failure EXCEPT ![t] = 0]
        /\ failed' = [failed EXCEPT ![t] = {}]
        /\ serial' = serial + 1
        /\ record' = [record EXCEPT ![t] = serial + 1]
        /\ state' = 1
        /\ UNCHANGED <<result, output, begun>>
    BY <1>1, <2>1 DEF Acquire, TryLock
  <2>3. \A u \in Threads : pc[u] \notin Holding
    BY <1>0, <1>3 DEF MutualExclusion
  <2>4. \A u \in Threads : pc'[u] \in Holding => u = t
    BY <2>1, <2>3
  <2>5. TypeOK'
    BY <1>0, <2>1, <2>2, LoggerAssumption DEF TypeOK, PlaceNames
  <2>6. MutualExclusion'
    BY <1>1, <2>1, <2>2, <2>4 DEF MutualExclusion
  <2>7. sink'[t] = 1 /\ written'[t] = 0 /\ failure'[t] = 0
        /\ failed'[t] = {} /\ record'[t] = serial'
    BY <1>0, <2>2 DEF TypeOK
  <2>8. Places'
    BY <1>0, <1>1, <2>1, <2>3, <2>7 DEF Places, PlaceAt, Holding
  <2>9. \A s \in 1..Sinks : \A i \in 1..Len(output'[s]) :
          output'[s][i][1] < serial'
    <3> SUFFICES ASSUME NEW s \in 1..Sinks, NEW i \in 1..Len(output[s])
                 PROVE  output[s][i][1] < serial + 1
      BY <2>2
    <3>1. output[s][i][1] \in Nat /\ serial \in Nat
      BY <1>0, OutputType DEF TypeOK
    <3>2. output[s][i][1] <= serial
      BY DEF Inv, Newest
    <3> QED
      BY <3>1, <3>2
  <2>10. Newest'
    <3>1. \A s \in 1..Sinks : \A i \in 1..Len(output'[s]) :
            output'[s][i][1] <= serial' /\ output'[s][i][1] # serial'
      <4> SUFFICES ASSUME NEW s \in 1..Sinks, NEW i \in 1..Len(output'[s])
                   PROVE  output'[s][i][1] <= serial' /\ output'[s][i][1] # serial'
        OBVIOUS
      <4>1. output' = output /\ serial' \in Nat
        BY <1>0, <2>2 DEF TypeOK
      <4>2. output'[s][i][1] \in Nat
        BY <1>0, <4>1, OutputType
      <4> QED
        BY <2>9, <4>1, <4>2
    <3> QED
      BY <2>4, <2>7, <3>1 DEF Newest
  <2>11. SerializedFanOut'
    BY <2>2 DEF Inv, SerializedFanOut, Before
  <2>12. Attempted' /\ FirstKept'
    BY <2>4, <2>7 DEF Attempted, FirstKept
  <2> QED
    BY <2>5, <2>6, <2>8, <2>10, <2>11, <2>12 DEF Inv
<1> QED
  BY <1>2, <1>3 DEF Acquire, TryLock
-----------------------------------------------------------------------------
\* WriteAll passes a byte on: it goes behind what the sink has, and is
\* the next one of the newest record.
LEMMA WriteByteInv ==
  ASSUME Inv, NEW t \in Threads, WriteByte(t)
  PROVE  Inv'
<1> DEFINE at == sink[t]
           byte == <<record[t], written[t] + 1>>
<1>0. TypeOK /\ MutualExclusion /\ Sinks \in Nat /\ RecordSize \in Nat
  BY LoggerAssumption DEF Inv
<1>1. /\ written[t] < RecordSize
      /\ Goes(t, "Write", "Write")
      /\ written' = [written EXCEPT ![t] = @ + 1]
      /\ output' = [output EXCEPT ![at] = Append(@, byte)]
      /\ UNCHANGED <<state, sink, failure, record, failed, result, begun, serial>>
  BY DEF WriteByte
<1>2. "Write" \in Holding /\ "Write" \in PlaceNames
  BY DEF Holding, PlaceNames
<1>3. pc[t] = "Write" /\ pc' = pc
  BY <1>0, <1>1 DEF Goes, TypeOK
<1>4. MutualExclusion' /\ \A u \in Threads : pc[u] \in Holding => u = t
  BY <1>0, <1>1, <1>2, <1>3 DEF MutualExclusion
<1>5. at \in 1..Sinks /\ written[t] \in Nat /\ record[t] = serial /\ serial \in Nat
  BY <1>0, <1>2, <1>3 DEF Inv, Places, Newest, TypeOK
<1>6. byte \in Nat \X Nat
  BY <1>5
<1>7. /\ Len(output'[at]) = Len(output[at]) + 1
      /\ \A i \in 1..Len(output[at]) : output'[at][i] = output[at][i]
      /\ output'[at][Len(output[at]) + 1] = byte
      /\ output'[at] \in Seq(Nat \X Nat)
      /\ Len(output[at]) \in Nat
  <2>1. output[at] \in Seq(Nat \X Nat) /\ output'[at] = Append(output[at], byte)
    BY <1>0, <1>1, <1>5 DEF TypeOK
  <2> QED
    BY <1>6, <2>1, AppendProperties
<1>7a. \A s \in 1..Sinks : s = at =>
         \A i \in 1..Len(output'[s]) :
           i \in 1..Len(output[at]) \/ i = Len(output[at]) + 1
  <2> DEFINE size == Len(output[at])
  <2>1. Len(output'[at]) = size + 1 /\ size \in Nat
    BY <1>7
  <2> HIDE DEF size
  <2>2. \A i \in 1..(size + 1) : i \in 1..size \/ i = size + 1
    BY <2>1
  <2> QED
    BY <2>1, <2>2 DEF size
<1>8. \A s \in 1..Sinks : s # at => output'[s] = output[s]
  BY <1>0, <1>1 DEF TypeOK
<1>9. TypeOK'
  <2>1. output' \in [1..Sinks -> Seq(Nat \X Nat)]
    BY <1>0, <1>1, <1>7 DEF TypeOK
  <2>2. written' \in [Threads -> 0..RecordSize]
    BY <1>0, <1>1 DEF TypeOK
  <2> QED
    BY <1>0, <1>1, <1>3, <2>1, <2>2 DEF TypeOK
<1>10. written'[t] = written[t] + 1
  BY <1>0, <1>1 DEF TypeOK
<1>11. Places'
  <2>1. \A u \in Threads : pc[u] = "Flush" => u # t
    BY <1>3
  <2>2. \A u \in Threads : u # t => written'[u] = written[u]
    BY <1>0, <1>1 DEF TypeOK
  <2> QED
    BY <1>1, <1>3, <2>1, <2>2 DEF Inv, Places
\* What the sink had comes before the byte.
<1>12. \A i \in 1..Len(output[at]) :
         output[at][i][1] < serial
         \/ (output[at][i][1] = serial /\ output[at][i][2] <= written[t])
  <2> SUFFICES ASSUME NEW i \in 1..Len(output[at])
               PROVE  output[at][i][1] < serial
                      \/ (output[at][i][1] = serial /\ output[at][i][2] <= written[t])
    OBVIOUS
  <2>1. output[at][i][1] \in Nat
    BY <1>0, <1>5, OutputType
  <2>2. output[at][i][1] <= serial
    BY <1>5 DEF Inv, Newest
  <2>3. output[at][i][1] = serial =>
          at < sink[t] \/ (at = sink[t] /\ output[at][i][2] <= written[t])
    BY <1>2, <1>3, <1>5 DEF Inv, Newest
  <2> QED
    BY <1>5, <2>1, <2>2, <2>3
<1>13. Newest'
  <2>1. ASSUME NEW s \in 1..Sinks, NEW i \in 1..Len(output'[s])
        PROVE  /\ output'[s][i][1] <= serial
               /\ output'[s][i][1] = serial =>
                    s < at \/ (s = at /\ output'[s][i][2] <= written[t] + 1)
    <3>1. CASE s # at
      <4>1. output'[s] = output[s] /\ i \in 1..Len(output[s])
        BY <1>8, <3>1
      <4>2. output[s][i][1] <= serial
        BY <4>1 DEF Inv, Newest
      <4>3. output[s][i][1] = serial => s < at
        BY <1>2, <1>3, <3>1, <4>1 DEF Inv, Newest
      <4> QED
        BY <4>1, <4>2, <4>3
    <3>2. CASE s = at /\ i \in 1..Len(output[at])
      <4> DEFINE old == output[at][i]
      <4>1. output'[s][i] = old
        BY <1>7, <3>2
      <4>2. old[1] \in Nat /\ old[2] \in Nat
        BY <1>0, <1>5, <3>2, OutputType
      <4>3. old[1] < serial \/ (old[1] = serial /\ old[2] <= written[t])
        BY <1>12, <3>2
      <4> HIDE DEF old
      <4>4. /\ old[1] <= serial
            /\ old[1] = serial => old[2] <= written[t] + 1
        BY <1>5, <4>2, <4>3
      <4> QED
        BY <3>2, <4>1, <4>4
    <3>3. CASE s = at /\ i = Len(output[at]) + 1
      <4>1. output'[s][i] = byte
        BY <1>7, <3>3
      <4>2. byte[1] = serial /\ byte[2] = written[t] + 1
        BY <1>5
      <4> HIDE DEF byte
      <4> QED
        BY <1>5, <3>3, <4>1, <4>2
    <3> QED
      BY <1>7a, <3>1, <3>2, <3>3
  <2>2. /\ \A s \in 1..Sinks : \A i \in 1..Len(output'[s]) : output'[s][i][1] <= serial'
        /\ record'[t] = serial'
        /\ \A s \in 1..Sinks : \A i \in 1..Len(output'[s]) :
             output'[s][i][1] = serial' =>
               s < sink'[t] \/ (s = sink'[t] /\ output'[s][i][2] <= written'[t])
    BY <1>1, <1>5, <1>10, <2>1
  <2> QED
    BY <1>3, <1>4, <2>2 DEF Newest
<1>14. SerializedFanOut'
  <2> SUFFICES ASSUME NEW s \in 1..Sinks, NEW i \in 1..Len(output'[s]),
                      NEW j \in 1..Len(output'[s]), i < j
               PROVE  Before(output'[s][i], output'[s][j])
    BY DEF SerializedFanOut, Before
  <2>1. CASE s # at
    BY <1>8, <2>1 DEF Inv, SerializedFanOut
  <2>2. CASE s = at /\ j \in 1..Len(output[at])
    <3>1. i \in 1..Len(output[at])
      BY <1>7, <2>2
    <3>2. output'[s][i] = output[at][i] /\ output'[s][j] = output[at][j]
      BY <1>7, <2>2, <3>1
    <3> QED
      BY <1>5, <2>2, <3>1, <3>2 DEF Inv, SerializedFanOut
  <2>3. CASE s = at /\ j = Len(output[at]) + 1
    <3>1. i \in 1..Len(output[at])
      BY <1>7, <2>3
    <3>2. output'[s][i] = output[at][i] /\ output'[s][j] = byte
      BY <1>7, <2>3, <3>1
    <3>3. output[at][i][1] \in Nat /\ output[at][i][2] \in Nat
      BY <1>0, <1>5, <3>1, OutputType
    <3>4. byte[1] = serial /\ byte[2] = written[t] + 1
      BY <1>5
    <3>5. \/ output[at][i][1] < serial
          \/ output[at][i][1] = serial /\ output[at][i][2] <= written[t]
      BY <1>12, <3>1
    <3> HIDE DEF byte
    <3>6. Before(output[at][i], byte)
      BY <1>5, <3>3, <3>4, <3>5 DEF Before
    <3> QED
      BY <3>2, <3>6
  <2> QED
    BY <1>7a, <2>1, <2>2, <2>3
<1>15. Attempted'
  <2> SUFFICES ASSUME NEW s \in 1..Sinks
               PROVE  \/ s \in failed[t]
                      \/ s >= at /\ (s > at \/ written'[t] = 0)
                      \/ /\ output'[s] # <<>>
                         /\ output'[s][Len(output'[s])] =
                              <<record[t], IF s < at THEN RecordSize ELSE written'[t]>>
    BY <1>1, <1>3, <1>4 DEF Attempted
  <2>1. CASE s = at
    <3>1. Len(output'[s]) # 0
      BY <1>7, <2>1
    <3>2. output'[s] # <<>>
      BY <3>1
    <3>3. output'[s][Len(output'[s])] = <<record[t], written'[t]>>
      BY <1>7, <1>10, <2>1
    <3>4. ~(s < at)
      BY <1>5, <2>1
    <3> QED
      BY <3>2, <3>3, <3>4
  <2>2. CASE s # at
    <3>1. output'[s] = output[s]
      BY <1>8, <2>2
    <3>2. \/ s \in failed[t]
          \/ s >= at /\ (s > at \/ written[t] = 0)
          \/ /\ output[s] # <<>>
             /\ output[s][Len(output[s])] =
                  <<record[t], IF s < at THEN RecordSize ELSE written[t]>>
      BY <1>2, <1>3 DEF Inv, Attempted
    <3> QED
      BY <1>5, <2>2, <3>1, <3>2
  <2> QED
    BY <2>1, <2>2
<1>16. FirstKept'
  BY <1>1, <1>3 DEF Inv, FirstKept
<1> QED
  BY <1>4, <1>9, <1>11, <1>13, <1>14, <1>15, <1>16 DEF Inv
-----------------------------------------------------------------------------
LEMMA WriteEndsInv ==
  ASSUME Inv, NEW t \in Threads, WriteEnds(t)
  PROVE  Inv'
<1>0. TypeOK /\ MutualExclusion
  BY DEF Inv
<1>1. /\ written[t] = RecordSize
      /\ Goes(t, "Write", "Flush")
      /\ UNCHANGED <<state, sink, written, failure, record, failed, result,
                     output, begun, serial>>
  BY DEF WriteEnds, locals
<1>2. "Write" \in Holding /\ "Flush" \in Holding /\ "Flush" \in PlaceNames
  BY DEF Holding, PlaceNames
<1>3. MutualExclusion' /\ \A u \in Threads : pc'[u] \in Holding => u = t
  BY <1>0, <1>1, <1>2, HolderMoves
<1>4. /\ pc' \in [Threads -> PlaceNames] /\ pc[t] = "Write" /\ pc'[t] = "Flush"
      /\ \A u \in Threads : u # t => pc'[u] = pc[u]
  BY <1>0, <1>1, <1>2, GoesMoves
<1>5. TypeOK'
  BY <1>0, <1>1, <1>4 DEF TypeOK, PlaceNames
<1>6. Places'
  BY <1>1, <1>4 DEF Inv, Places
<1>7. Newest'
  <2>1. pc[t] \in Holding
    BY <1>2, <1>4
  <2> QED
    BY <1>1, <1>3, <2>1 DEF Inv, Newest
<1>9. SerializedFanOut'
  BY <1>1 DEF Inv, SerializedFanOut, Before
<1>8. Attempted' /\ FirstKept'
  BY <1>1, <1>2, <1>3, <1>4 DEF Inv, Attempted, FirstKept
<1> QED
  BY <1>3, <1>5, <1>6, <1>7, <1>8, <1>9 DEF Inv

(***************************************************************************)
(* The loop goes on to the next sink, and the one left behind has failed   *)
(* or has the whole record.                                                *)
(***************************************************************************)
LEMMA NextSinkInv ==
  ASSUME Inv, NEW t \in Threads, NEW from \in {"Write", "Flush"},
         Goes(t, from, PlaceAt(sink[t] + 1)), NextSink(t),
         UNCHANGED <<state, record, result, output, begun, serial>>,
         \/ from = "Flush" /\ UNCHANGED <<failure, failed>>
         \/ /\ failure' = Remembers(t)
            /\ failed' = [failed EXCEPT ![t] = @ \cup {sink[t]}]
  PROVE  Inv'
<1> DEFINE at == sink[t]
           to == PlaceAt(at + 1)
<1>0. TypeOK /\ MutualExclusion /\ Sinks \in Nat /\ RecordSize \in Nat
      /\ RecordSize # 0
  BY LoggerAssumption DEF Inv
<1>1. /\ from \in Holding /\ to \in {"Write", "Unlock"}
      /\ to \in Holding /\ to \in PlaceNames
  BY DEF Holding, PlaceNames, PlaceAt
<1>2. MutualExclusion' /\ \A u \in Threads : pc'[u] \in Holding => u = t
  BY <1>0, <1>1, HolderMoves
<1>3. /\ pc' \in [Threads -> PlaceNames] /\ pc[t] = from /\ pc'[t] = to
      /\ \A u \in Threads : u # t => pc'[u] = pc[u]
  BY <1>0, <1>1, GoesMoves
<1>4. at \in 1..Sinks /\ (from = "Flush" => written[t] = RecordSize)
  BY <1>3 DEF Inv, Places
<1>5. sink'[t] = at + 1 /\ written'[t] = 0
  BY <1>0 DEF NextSink, TypeOK
<1>6. failure' \in [Threads -> 0..Sinks] /\ failed' \in [Threads -> SUBSET (1..Sinks)]
  <2>1. CASE UNCHANGED <<failure, failed>>
    BY <1>0, <2>1 DEF TypeOK
  <2>2. CASE /\ failure' = Remembers(t)
             /\ failed' = [failed EXCEPT ![t] = @ \cup {sink[t]}]
    <3>1. failure' \in [Threads -> 0..Sinks]
      BY <1>0, <1>4, <2>2 DEF Remembers, TypeOK
    <3>2. failed' \in [Threads -> SUBSET (1..Sinks)]
      BY <1>0, <1>4, <2>2 DEF TypeOK
    <3> QED
      BY <3>1, <3>2
  <2> QED
    BY <2>1, <2>2
<1>7. TypeOK'
  <2>1. sink' \in [Threads -> 1..(Sinks + 1)] /\ written' \in [Threads -> 0..RecordSize]
    BY <1>0, <1>4 DEF NextSink, TypeOK
  <2> QED
    BY <1>0, <1>3, <1>6, <2>1 DEF TypeOK, PlaceNames
<1>8. Places'
  <2>1. \A u \in Threads : u # t => sink'[u] = sink[u] /\ written'[u] = written[u]
    BY <1>0 DEF NextSink, TypeOK
  <2>2. to = "Write" => at + 1 \in 1..Sinks
    BY <1>0, <1>4 DEF PlaceAt
  <2>3. to = "Unlock" => at + 1 = Sinks + 1
    BY <1>0, <1>4 DEF PlaceAt
  <2>4. to # "Flush"
    BY <1>1
  <2> QED
    BY <1>3, <1>5, <2>1, <2>2, <2>3, <2>4 DEF Inv, Places
<1>9. Newest'
  <2>1. record'[t] = serial'
    BY <1>1, <1>3 DEF Inv, Newest
  <2>2. ASSUME NEW s \in 1..Sinks, NEW i \in 1..Len(output[s]),
               output[s][i][1] = serial
        PROVE  s < sink'[t]
    <3>1. s < at \/ s = at
      BY <1>1, <1>3, <2>2 DEF Inv, Newest
    <3> QED
      BY <1>4, <1>5, <3>1
  <2> QED
    BY <1>2, <2>1, <2>2 DEF Inv, Newest
<1>10. SerializedFanOut'
  BY DEF Inv, SerializedFanOut, Before
<1>11. \/ failed'[t] = failed[t] /\ failure'[t] = failure[t] /\ from = "Flush"
       \/ /\ failed'[t] = failed[t] \cup {at}
          /\ failure'[t] = IF failure[t] = 0 THEN at ELSE failure[t]
  BY <1>0 DEF Remembers, TypeOK
<1>12. Attempted'
  <2> SUFFICES ASSUME NEW s \in 1..Sinks
               PROVE  \/ s \in failed'[t]
                      \/ s >= at + 1
                      \/ /\ output[s] # <<>>
                         /\ output[s][Len(output[s])] = <<record[t], RecordSize>>
    BY <1>2, <1>4, <1>5 DEF Attempted
  <2>1. \/ s \in failed[t]
        \/ s >= at /\ (s > at \/ written[t] = 0)
        \/ /\ output[s] # <<>>
           /\ output[s][Len(output[s])] =
                <<record[t], IF s < at THEN RecordSize ELSE written[t]>>
    BY <1>1, <1>3 DEF Inv, Attempted
  <2>2. CASE s < at
    BY <1>4, <1>11, <2>1, <2>2
  <2>3. CASE s = at
    BY <1>0, <1>4, <1>11, <2>1, <2>3
  <2>4. CASE s > at
    BY <1>4, <2>4
  <2> QED
    BY <1>4, <2>2, <2>3, <2>4
<1>13. FirstKept'
  <2>1. /\ \A s \in failed[t] : s < at /\ failure[t] <= s
        /\ failure[t] = 0 => failed[t] = {}
        /\ failure[t] # 0 => failure[t] \in failed[t]
    BY <1>1, <1>3 DEF Inv, FirstKept
  <2>2. failed[t] \subseteq 1..Sinks /\ failure[t] \in 0..Sinks
    BY <1>0 DEF TypeOK
  <2>3. /\ \A s \in failed'[t] : s < at + 1 /\ failure'[t] <= s
        /\ failure'[t] = 0 => failed'[t] = {}
        /\ failure'[t] # 0 => failure'[t] \in failed'[t]
    BY <1>4, <1>11, <2>1, <2>2
  <2> QED
    BY <1>2, <1>5, <2>3 DEF FirstKept
<1> QED
  BY <1>2, <1>7, <1>8, <1>9, <1>10, <1>12, <1>13 DEF Inv

LEMMA ReturnInv ==
  ASSUME Inv, NEW t \in Threads, Return(t)
  PROVE  Inv'
<1>0. TypeOK /\ MutualExclusion
  BY DEF Inv
<1>1. /\ Goes(t, "Unlock", "Idle") /\ state' = 0
      /\ result' = [result EXCEPT ![t] = failure[t]]
      /\ UNCHANGED <<sink, written, failure, record, failed, output, begun, serial>>
  BY DEF Return, Unlock, locals
<1>2. "Unlock" \in Holding /\ "Idle" \notin Holding /\ "Idle" \in PlaceNames
  BY DEF Holding, PlaceNames
<1>3. /\ pc' \in [Threads -> PlaceNames] /\ pc[t] = "Unlock" /\ pc'[t] = "Idle"
      /\ \A u \in Threads : u # t => pc'[u] = pc[u]
  BY <1>0, <1>1, <1>2, GoesMoves
<1>4. \A u \in Threads : pc'[u] \notin Holding
  BY <1>0, <1>2, <1>3 DEF MutualExclusion
<1>5. MutualExclusion'
  BY <1>1, <1>4 DEF MutualExclusion
<1>6. TypeOK'
  <2>1. result' \in [Threads -> 0..NotEncoded]
    BY <1>0, <1>1, LoggerAssumption DEF TypeOK, NotEncoded
  <2> QED
    BY <1>0, <1>1, <1>3, <2>1 DEF TypeOK, PlaceNames
<1>7. Places' /\ Attempted' /\ FirstKept'
  BY <1>4 DEF Places, Attempted, FirstKept, Holding
<1>8. Newest' /\ SerializedFanOut'
  BY <1>1, <1>4 DEF Inv, Newest, SerializedFanOut, Before
<1> QED
  BY <1>5, <1>6, <1>7, <1>8 DEF Inv
-----------------------------------------------------------------------------
LEMMA NextInv == Inv /\ [Next]_vars => Inv'
<1> SUFFICES ASSUME Inv, [Next]_vars PROVE Inv'
  OBVIOUS
<1>1. ASSUME NEW t \in Threads, Step(t)
      PROVE  Inv'
  <2>1. CASE Acquire(t)
    BY <2>1, AcquireInv
  <2>2. CASE Spin(t)
    BY <2>2, SpinInv
  <2>3. CASE WriteByte(t)
    BY <2>3, WriteByteInv
  <2>4. CASE WriteEnds(t)
    BY <2>4, WriteEndsInv
  <2>5. CASE WriteFails(t)
    BY <2>5, NextSinkInv DEF WriteFails, Fails
  <2>6. CASE FlushEnds(t)
    BY <2>6, NextSinkInv DEF FlushEnds
  <2>7. CASE FlushFails(t)
    BY <2>7, NextSinkInv DEF FlushFails, Fails
  <2>8. CASE Return(t)
    BY <2>8, ReturnInv
  <2> QED
    BY <1>1, <2>1, <2>2, <2>3, <2>4, <2>5, <2>6, <2>7, <2>8 DEF Step
<1>2. CASE UNCHANGED vars
  <2>1. UNCHANGED <<state, pc, sink, written, failure, result, output, begun,
                    serial, record, failed>>
    BY <1>2 DEF vars, locals
  <2>2. TypeOK' /\ MutualExclusion' /\ Places'
    BY <2>1 DEF Inv, TypeOK, MutualExclusion, Places
  <2>3. Newest'
    BY <2>1 DEF Inv, Newest
  <2>4. SerializedFanOut' /\ FirstKept'
    BY <2>1 DEF Inv, SerializedFanOut, FirstKept
  <2>5. Attempted'
    BY <2>1 DEF Inv, Attempted
  <2> QED
    BY <2>2, <2>3, <2>4, <2>5 DEF Inv
<1> QED
  BY <1>1, <1>2, LogInv DEF Next

THEOREM Invariance == Spec => []Inv
BY InitInv, NextInv, PTL DEF Spec

\* Every thread keeps within the sinks and within its record, for any number
\* of them.
THEOREM TypeCorrectness == Spec => []TypeOK
<1>1. Inv => TypeOK
  BY DEF Inv
<1> QED
  BY Invariance, <1>1, PTL

\* SpinLock.cpp: of any number of threads at most one holds the lock.
THEOREM Exclusion == Spec => []MutualExclusion
<1>1. Inv => MutualExclusion
  BY DEF Inv
<1> QED
  BY Invariance, <1>1, PTL

\* Logger.cpp, WriteRecord: every sink receives the records one after the
\* other, in the order in which they took the lock.
THEOREM FanOutIsSerial == Spec => []SerializedFanOut
<1>1. Inv => SerializedFanOut
  BY DEF Inv
<1> QED
  BY Invariance, <1>1, PTL

\* When a call returns, each sink has the record or has failed, and the
\* result is the failure of the first that did.
THEOREM FanOutIsComplete == Spec => EverySinkAttempted
<1>1. ASSUME Inv, [Next]_vars, NEW t \in Threads, pc[t] = "Unlock", pc'[t] = "Idle"
      PROVE  /\ \A s \in (1..Sinks) \ failed[t] :
                  /\ output[s] # <<>>
                  /\ output[s][Len(output[s])] = <<record[t], RecordSize>>
             /\ failed[t] = {} => result'[t] = 0
             /\ failed[t] # {} => /\ result'[t] \in failed[t]
                                  /\ \A s \in failed[t] : result'[t] <= s
  <2>1. pc[t] \in Holding /\ sink[t] = Sinks + 1 /\ Sinks \in Nat
    BY <1>1, LoggerAssumption DEF Inv, Places, Holding
  <2>2. result'[t] = failure[t]
    <3>1. Return(t)
      <4>1. TypeOK /\ pc' # pc
        BY <1>1 DEF Inv
      <4>2. PICK u \in Threads : Log(u) \/ Step(u)
        BY <1>1, <4>1 DEF Next, vars
      <4>3. u = t
        BY <1>1, <4>1, <4>2 DEF TypeOK, Log, Step, Acquire, TryLock, Spin,
           SpinEnds, WriteByte, WriteEnds, WriteFails, Fails, FlushEnds,
           FlushFails, Return, Unlock, Goes
      <4> QED
        BY <1>1, <4>1, <4>2, <4>3 DEF Log, Step, Acquire, TryLock, Spin,
           SpinEnds, WriteByte, WriteEnds, WriteFails, Fails, FlushEnds,
           FlushFails, Goes
    <3> QED
      BY <1>1, <3>1 DEF Return, Inv, TypeOK
  <2>3. \A s \in (1..Sinks) \ failed[t] :
          output[s] # <<>> /\ output[s][Len(output[s])] = <<record[t], RecordSize>>
    BY <1>1, <2>1 DEF Inv, Attempted
  <2>4. /\ failure[t] = 0 => failed[t] = {}
        /\ failure[t] # 0 => failure[t] \in failed[t]
        /\ \A s \in failed[t] : failure[t] <= s
    BY <1>1, <2>1 DEF Inv, FirstKept
  <2> QED
    BY <2>2, <2>3, <2>4
<1>2. Inv /\ [Next]_vars =>
        [\A t \in Threads : pc[t] = "Unlock" /\ pc'[t] = "Idle" =>
           /\ \A s \in (1..Sinks) \ failed[t] :
                /\ output[s] # <<>>
                /\ output[s][Len(output[s])] = <<record[t], RecordSize>>
           /\ failed[t] = {} => result'[t] = 0
           /\ failed[t] # {} => /\ result'[t] \in failed[t]
                                /\ \A s \in failed[t] : result'[t] <= s]_vars
  BY <1>1
<1> QED
  BY Invariance, <1>2, PTL DEF Spec, EverySinkAttempted
=============================================================================
