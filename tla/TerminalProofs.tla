--------------------------- MODULE TerminalProofs ---------------------------
(***************************************************************************)
(* Proofs about the waits of the event loop and the terminal, for any      *)
(* drivers' events, coroutines and registrations.  Three invariants: the   *)
(* timers that are open at each place of a wait, the registrations of the  *)
(* suspended coroutines, and what the two halves of the terminal's state,  *)
(* the kept surrogate and the queued event, say about the keys read.       *)
(***************************************************************************)
EXTENDS Terminal, SequenceTheorems, TLAPS

\* The timers that the options of the running wait call for.
Opened ==
  (IF deadline THEN {"Deadline"} ELSE {}) \cup (IF token THEN {"Tick"} ELSE {})

\* The timers that are open, by the place the wait is at.
TimersByPlace ==
  /\ pc \in {"Idle", "Closed", "Resumed", "CreateDeadline"} => timers = {}
  /\ pc = "SetDeadline" => timers = {"Deadline"}
  /\ pc \in {"CreateDeadline", "SetDeadline"} => deadline
  /\ pc = "CreateTick" => timers = Opened \ {"Tick"}
  /\ pc \in {"CreateTick", "SetTick"} => token
  /\ pc \in {"SetTick", "Check", "Wait", "Woken"} => timers = Opened

\* Which function may be at which place.
CallersByPlace ==
  /\ pc = "Idle" <=> caller = "None"
  /\ pc \in {"Closed", "Resumed"} => caller = "RunOnce"
  /\ pc = "Check" => caller = "WaitKey"

\* What RunOnce has been woken by: a registration or a timer behind them, and
\* a tick ends the wait only with a cancellation.
SelectedByPlace ==
  caller = "RunOnce" =>
    /\ pc \in {"Woken", "Closed"} =>
         selected \in 1..Len(WithTimers(RegisteredEvents))
    /\ pc = "Closed" /\ SelectedIs("Tick") => cancelled
-----------------------------------------------------------------------------
\* The event array of a wait: the caller's events and its timers behind them.
LEMMA EventArray ==
  ASSUME WaitTypeOK, NEW sources \in Seq(Sources)
  PROVE  /\ Len(WithTimers(sources)) \in Nat
         /\ \A k \in 1..Len(sources) : k \in 1..Len(WithTimers(sources))
         /\ \A k \in 1..Len(WithTimers(sources)) : k > Len(sources) =>
              \/ deadline /\ WithTimers(sources)[k] = "Deadline"
              \/ token /\ WithTimers(sources)[k] = "Tick"
<1> DEFINE first  == IF deadline THEN <<"Deadline">> ELSE <<>>
           second == IF token THEN <<"Tick">> ELSE <<>>
<1>1. /\ first \in Seq(Timers) /\ Len(first) \in Nat
      /\ \A k \in 1..Len(first) : deadline /\ first[k] = "Deadline"
  <2>1. CASE deadline
    BY <2>1 DEF Timers
  <2>2. CASE ~deadline
    BY <2>2
  <2>. QED
    BY <2>1, <2>2
<1>2. /\ second \in Seq(Timers) /\ Len(second) \in Nat
      /\ \A k \in 1..Len(second) : token /\ second[k] = "Tick"
  <2>1. CASE token
    BY <2>1 DEF Timers
  <2>2. CASE ~token
    BY <2>2
  <2>. QED
    BY <2>1, <2>2
<1>3. sources \in Seq(Sources \cup Timers) /\ Len(sources) \in Nat
  BY SeqMonotonic
<1> HIDE DEF first, second
<1>4. /\ sources \o first \in Seq(Sources \cup Timers)
      /\ Len(sources \o first) = Len(sources) + Len(first)
      /\ \A k \in 1..Len(sources \o first) : k > Len(sources) =>
           (sources \o first)[k] = first[k - Len(sources)]
  BY <1>1, <1>3
<1>5. /\ Len(sources \o first \o second) = Len(sources \o first) + Len(second)
      /\ \A k \in 1..Len(sources \o first \o second) :
           (sources \o first \o second)[k] =
             IF k <= Len(sources \o first) THEN (sources \o first)[k]
             ELSE second[k - Len(sources \o first)]
  BY <1>2, <1>4
<1>6. WithTimers(sources) = sources \o first \o second
  BY DEF WithTimers, first, second
<1>. QED
  BY <1>1, <1>2, <1>3, <1>4, <1>5, <1>6

LEMMA RegistrationType ==
  ASSUME LoopTypeOK
  PROVE  /\ Len(registrations) \in Nat
         /\ RegisteredEvents \in Seq(Sources)
         /\ Len(RegisteredEvents) = Len(registrations)
<1>1. /\ registrations \in Seq([source : Sources, coroutine : Coroutines])
      /\ Len(registrations) \in Nat
  BY DEF LoopTypeOK
<1>2. \A k \in 1..Len(registrations) : registrations[k] \in [source : Sources, coroutine : Coroutines]
  BY <1>1, ElementOfSeq
<1>3. \A k \in 1..Len(registrations) : registrations[k].source \in Sources
  BY <1>2
<1>. QED
  BY <1>1, <1>3 DEF RegisteredEvents
-----------------------------------------------------------------------------
(* The types.  The steps of a wait, of the loop and of the terminal each   *)
(* change a part of the variables.                                         *)

\* The key event and its units, when a key is typed or read.
LEMMA PollType ==
  ASSUME TypeOK, PollKey, UNCHANGED typed
  PROVE  /\ read' \in 0..Len(typed')
         /\ pendingHigh' \in 0..MaxKeys
         /\ queued' \in 0..MaxKeys
         /\ reported' \in Seq(1..MaxKeys)
<1>1. /\ read \in 0..Len(typed) /\ Len(typed) \in Nat /\ Len(typed) <= MaxKeys
      /\ pendingHigh \in 0..MaxKeys /\ queued \in 0..MaxKeys
      /\ reported \in Seq(1..MaxKeys)
  BY WaitAssumption DEF TypeOK, WaitTypeOK
<1>2. CASE /\ queued # 0
           /\ reported' = Append(reported, queued)
           /\ queued' = 0
           /\ UNCHANGED <<read, pendingHigh>>
  <2>1. queued \in 1..MaxKeys /\ 0 \in 0..MaxKeys
    BY <1>1, <1>2, WaitAssumption
  <2>2. Append(reported, queued) \in Seq(1..MaxKeys)
    BY <1>1, <2>1, AppendProperties
  <2>. QED
    BY <1>1, <1>2, <2>1, <2>2
<1>3. CASE read < Len(typed) /\ read' = read + 1 /\ Convert(read + 1)
  <2>1. read + 1 \in 1..MaxKeys /\ read + 1 \in 0..Len(typed) /\ 0 \in 0..MaxKeys
    BY <1>1, <1>3, WaitAssumption
  <2>2. Append(reported, read + 1) \in Seq(1..MaxKeys)
    BY <1>1, <2>1, AppendProperties
  <2>3. /\ pendingHigh' \in {0, read + 1}
        /\ queued' \in {queued, read + 1}
        /\ reported' \in {reported, Append(reported, read + 1)}
    BY <1>3 DEF Convert
  <2>4. read' \in 0..Len(typed')
    BY <1>3, <2>1
  <2>5. pendingHigh' \in 0..MaxKeys /\ queued' \in 0..MaxKeys
    BY <1>1, <2>1, <2>3
  <2>6. reported' \in Seq(1..MaxKeys)
    BY <1>1, <2>2, <2>3
  <2>. QED
    BY <2>4, <2>5, <2>6
<1>4. CASE UNCHANGED <<read, pendingHigh, queued, reported>>
  BY <1>1, <1>4
<1>. QED
  BY <1>2, <1>3, <1>4 DEF PollKey

\* What WaitForEvent has taken the signal of, and where it stands.
LEMMA WaitForEventType ==
  ASSUME WaitTypeOK, NEW sources \in Seq(Sources), WaitForEvent(sources)
  PROVE  WaitTypeOK'
<1>1. PICK k \in 1..Len(WithTimers(sources)) :
        /\ selected' = k
        /\ fired' = fired \ {WithTimers(sources)[k]}
        /\ elapsed' = elapsed \ {WithTimers(sources)[k]}
        /\ pc' = "Woken"
        /\ UNCHANGED <<typed, read, timers, cancelled, caller, deadline, token>>
  BY DEF WaitForEvent, options
<1>2. k \in Nat
  BY EventArray
<1>. QED
  BY <1>1, <1>2 DEF WaitTypeOK, Places

LEMMA CloseTimersType ==
  ASSUME WaitTypeOK, NEW set, CloseTimers(set)
  PROVE  timers' \in SUBSET Timers /\ elapsed' \in SUBSET timers'
  BY DEF CloseTimers, WaitTypeOK

\* A wait that returns, and one that goes on to another place.
LEMMA LeaveType ==
  ASSUME WaitTypeOK, Leave, UNCHANGED <<fired, typed, cancelled>>,
         read' \in 0..Len(typed'),
         timers' \in SUBSET Timers, elapsed' \in SUBSET timers'
  PROVE  WaitTypeOK'
  BY DEF Leave, WaitTypeOK, Places, Callers

LEMMA GoOnType ==
  ASSUME WaitTypeOK, pc' \in Places,
         UNCHANGED <<fired, typed, cancelled, caller, deadline, token, selected>>,
         read' \in 0..Len(typed'),
         timers' \in SUBSET Timers, elapsed' \in SUBSET timers'
  PROVE  WaitTypeOK'
  BY DEF WaitTypeOK

LEMMA WaitForEventFailsType ==
  ASSUME WaitTypeOK, WaitForEventFails
  PROVE  WaitTypeOK'
  BY LeaveType, CloseTimersType DEF WaitForEventFails, WaitTypeOK, firmware

LEMMA WaitTypeStep == TypeOK /\ [Next]_vars => WaitTypeOK'
<1> SUFFICES ASSUME TypeOK, [Next]_vars PROVE WaitTypeOK'
  OBVIOUS
<1> USE DEF firmware, options
<1>0. WaitTypeOK /\ LoopTypeOK
  BY DEF TypeOK
<1>1. CASE Environment
  <2>1. CASE DriverSignals
    BY <1>0, <2>1 DEF DriverSignals, WaitTypeOK, Sources
  <2>2. CASE KeyTyped
    <3>1. PICK u \in Units : typed' = Append(typed, u)
      BY <2>2 DEF KeyTyped
    <3>2. /\ typed' \in Seq(Units) /\ Len(typed') <= MaxKeys
          /\ read \in 0..Len(typed')
      BY <1>0, <2>2, <3>1, AppendProperties, WaitAssumption DEF KeyTyped, WaitTypeOK
    <3>. QED
      BY <1>0, <2>2, <3>2 DEF KeyTyped, WaitTypeOK, Sources
  <2>3. CASE \E t \in Timers : Elapse(t)
    BY <1>0, <2>3 DEF Elapse, WaitTypeOK
  <2>4. CASE Cancel \/ ResetToken
    BY <1>0, <2>4 DEF Cancel, ResetToken, WaitTypeOK
  <2>. QED
    BY <1>1, <2>1, <2>2, <2>3, <2>4 DEF Environment
<1>2. CASE Application
  <2>1. CASE \E c \in Coroutines : AwaitKey(c)
    <3>1. PICK c \in Coroutines : AwaitKey(c)
      BY <2>1
    <3>2. read' \in 0..Len(typed')
      BY <1>0, <3>1, PollType DEF AwaitKey, WaitTypeOK
    <3>. QED
      BY <1>0, <3>1, <3>2 DEF AwaitKey, WaitTypeOK
  <2>2. CASE CallPollKey
    <3>1. read' \in 0..Len(typed')
      BY <2>2, PollType DEF CallPollKey
    <3>. QED
      BY <1>0, <2>2, <3>1 DEF CallPollKey, WaitTypeOK
  <2>3. CASE WaitKey \/ RunOnce
    BY <1>0, <2>3 DEF WaitKey, RunOnce, BeginWait, WaitTypeOK, Places, Callers
  <2>4. CASE RunOnceReturns
    BY <1>0, <2>4 DEF RunOnceReturns, Leave, WaitTypeOK, Places, Callers
  <2>5. CASE \E c \in Coroutines : AwaitEvent(c)
    BY <1>0, <2>5 DEF AwaitEvent, wait_vars, WaitTypeOK
  <2>. QED
    BY <1>2, <2>1, <2>2, <2>3, <2>4, <2>5 DEF Application
<1>3. CASE Waiting
  <2>1. CASE SetUp
    <3>1. CASE CreateDeadline
      <4>1. timers \cup {"Deadline"} \in SUBSET Timers
        BY <1>0 DEF WaitTypeOK, Timers
      <4>. QED
        BY <1>0, <3>1, <4>1, LeaveType, GoOnType DEF CreateDeadline, WaitTypeOK, Places
    <3>2. CASE SetDeadline
      BY <1>0, <3>2, LeaveType, GoOnType, CloseTimersType
      DEF SetDeadline, Start, WaitTypeOK, Places
    <3>3. CASE CreateTick
      <4>1. timers \cup {"Tick"} \in SUBSET Timers
        BY <1>0 DEF WaitTypeOK, Timers
      <4>. QED
        BY <1>0, <3>3, <4>1, LeaveType, GoOnType, CloseTimersType
        DEF CreateTick, WaitTypeOK, Places
    <3>4. CASE SetTick
      BY <1>0, <3>4, LeaveType, GoOnType, CloseTimersType
      DEF SetTick, Start, WaitTypeOK, Places
    <3>. QED
      BY <2>1, <3>1, <3>2, <3>3, <3>4 DEF SetUp
  <2>2. CASE RunOnceWaits
    BY <1>0, <2>2, RegistrationType, WaitForEventType, WaitForEventFailsType
    DEF RunOnceWaits
  <2>3. CASE RunOnceWakes
    BY <1>0, <2>3, GoOnType, CloseTimersType DEF RunOnceWakes, WaitTypeOK, Places
  <2>4. CASE RunOnceTimesOut \/ RunOnceCancelled
    BY <1>0, <2>4, LeaveType DEF RunOnceTimesOut, RunOnceCancelled, WaitTypeOK
  <2>5. CASE ResumeCoroutine
    <3>1. read' \in 0..Len(typed')
      BY <1>0, <2>5, PollType DEF ResumeCoroutine, WaitTypeOK
    <3>. QED
      BY <1>0, <2>5, <3>1 DEF ResumeCoroutine, Resume, WaitTypeOK, Places
  <2>6. CASE WaitKeyChecks
    BY <1>0, <2>6, LeaveType, GoOnType, CloseTimersType
    DEF WaitKeyChecks, WaitTypeOK, Places
  <2>7. CASE WaitKeyWaits
    <3>1. <<"Key">> \in Seq(Sources)
      BY DEF Sources
    <3>. QED
      BY <1>0, <2>7, <3>1, WaitForEventType, WaitForEventFailsType DEF WaitKeyWaits
  <2>8. CASE WaitKeyWakes
    <3>1. read' \in 0..Len(typed')
      BY <1>0, <2>8, PollType DEF WaitKeyWakes, WaitTypeOK
    <3>. QED
      BY <1>0, <2>8, <3>1, LeaveType, GoOnType, CloseTimersType
      DEF WaitKeyWakes, WaitTypeOK, Places
  <2>. QED
    BY <1>3, <2>1, <2>2, <2>3, <2>4, <2>5, <2>6, <2>7, <2>8 DEF Waiting
<1>4. CASE UNCHANGED vars
  BY <1>0, <1>4 DEF vars, wait_vars, WaitTypeOK
<1>. QED
  BY <1>1, <1>2, <1>3, <1>4 DEF Next

-----------------------------------------------------------------------------
(* The places of a wait.                                                   *)

LEMMA PlacesFramed ==
  ASSUME TimersByPlace, CallersByPlace,
         UNCHANGED <<timers, caller, pc, deadline, token>>
  PROVE  TimersByPlace' /\ CallersByPlace'
  BY DEF TimersByPlace, CallersByPlace, Opened

\* A wait returns with its timers closed.
LEMMA PlacesLeft ==
  ASSUME Leave, timers' = {}
  PROVE  TimersByPlace' /\ CallersByPlace'
  BY DEF Leave, TimersByPlace, CallersByPlace

\* A wait goes on with the timers open that its options call for.
LEMMA PlacesWaiting ==
  ASSUME TimersByPlace, CallersByPlace, pc # "Idle",
         pc' \in {"Wait", "Woken"} \/ (pc' = "Check" /\ caller = "WaitKey"),
         timers' = Opened, UNCHANGED <<caller, deadline, token>>
  PROVE  TimersByPlace' /\ CallersByPlace'
  BY DEF TimersByPlace, CallersByPlace, Opened

LEMMA PlacesStep ==
  ASSUME TypeOK, TimersByPlace, CallersByPlace, [Next]_vars
  PROVE  TimersByPlace' /\ CallersByPlace'
<1> USE DEF firmware, options
<1>1. CASE Environment
  BY <1>1, PlacesFramed
  DEF Environment, DriverSignals, KeyTyped, Elapse, Cancel, ResetToken
<1>2. CASE Application
  <2>1. CASE WaitKey \/ RunOnce
    BY <2>1 DEF WaitKey, RunOnce, BeginWait, TimersByPlace, CallersByPlace, Opened
  <2>2. CASE RunOnceReturns
    BY <2>2, PlacesLeft DEF RunOnceReturns, TimersByPlace
  <2>3. CASE CallPollKey \/ \E c \in Coroutines : AwaitKey(c) \/ AwaitEvent(c)
    BY <2>3, PlacesFramed DEF CallPollKey, AwaitKey, AwaitEvent, wait_vars
  <2>. QED
    BY <1>2, <2>1, <2>2, <2>3 DEF Application
<1>3. CASE Waiting
  <2>0. timers \in SUBSET Timers /\ caller \in Callers
    BY DEF TypeOK, WaitTypeOK
  <2>1. CASE CreateDeadline
    <3>1. timers = {} /\ deadline /\ pc = "CreateDeadline" /\ caller # "None"
      BY <2>1 DEF CreateDeadline, TimersByPlace, CallersByPlace
    <3>2. CASE Leave /\ UNCHANGED timers
      BY <3>1, <3>2, PlacesLeft
    <3>3. CASE pc' = "SetDeadline" /\ timers' = timers \cup {"Deadline"}
               /\ UNCHANGED <<caller, deadline, token>>
      BY <3>1, <3>3 DEF TimersByPlace, CallersByPlace
    <3>. QED
      BY <2>1, <3>2, <3>3 DEF CreateDeadline
  <2>2. CASE SetDeadline
    <3>1. timers = {"Deadline"} /\ deadline /\ pc = "SetDeadline" /\ caller # "None"
      BY <2>2 DEF SetDeadline, TimersByPlace, CallersByPlace
    <3>2. CASE Leave /\ CloseTimers({"Deadline"})
      BY <3>1, <3>2, PlacesLeft DEF CloseTimers
    <3>3. CASE token /\ pc' = "CreateTick" /\ UNCHANGED <<timers, caller, deadline, token>>
      BY <3>1, <3>3 DEF TimersByPlace, CallersByPlace, Opened
    <3>4. CASE ~token /\ pc' = Start /\ UNCHANGED <<timers, caller, deadline, token>>
      BY <3>1, <3>4, PlacesWaiting DEF Start, Opened
    <3>. QED
      BY <2>2, <3>2, <3>3, <3>4 DEF SetDeadline
  <2>3. CASE CreateTick
    <3>1. timers = Opened \ {"Tick"} /\ token /\ pc = "CreateTick" /\ caller # "None"
      BY <2>3 DEF CreateTick, TimersByPlace, CallersByPlace
    <3>2. CASE Leave /\ CloseTimers({"Deadline"})
      BY <3>1, <3>2, PlacesLeft DEF CloseTimers, Opened
    <3>3. CASE pc' = "SetTick" /\ timers' = timers \cup {"Tick"}
               /\ UNCHANGED <<caller, deadline, token>>
      BY <3>1, <3>3 DEF TimersByPlace, CallersByPlace, Opened
    <3>. QED
      BY <2>3, <3>2, <3>3 DEF CreateTick
  <2>4. CASE SetTick
    <3>1. timers = Opened /\ token /\ pc = "SetTick" /\ caller # "None"
      BY <2>4 DEF SetTick, TimersByPlace, CallersByPlace
    <3>2. CASE Leave /\ CloseTimers(Timers)
      BY <2>0, <3>2, PlacesLeft DEF CloseTimers
    <3>3. CASE pc' = Start /\ UNCHANGED <<timers, caller, deadline, token>>
      BY <3>1, <3>3, PlacesWaiting DEF Start
    <3>. QED
      BY <2>4, <3>2, <3>3 DEF SetTick
  <2>5. CASE RunOnceWaits \/ WaitKeyWaits
    <3>1. pc = "Wait" /\ timers = Opened
      BY <2>5 DEF RunOnceWaits, WaitKeyWaits, WaitForEvent, WaitForEventFails, TimersByPlace
    <3>2. CASE WaitForEventFails
      BY <2>0, <3>2, PlacesLeft DEF WaitForEventFails, CloseTimers
    <3>3. CASE pc' = "Woken" /\ UNCHANGED <<timers, caller, deadline, token>>
      BY <3>1, <3>3, PlacesWaiting
    <3>. QED
      BY <2>5, <3>2, <3>3 DEF RunOnceWaits, WaitKeyWaits, WaitForEvent
  <2>6. CASE RunOnceWakes
    <3>1. pc = "Woken" /\ timers = Opened /\ caller = "RunOnce"
      BY <2>6 DEF RunOnceWakes, TimersByPlace
    <3>2. CASE pc' = "Wait" /\ UNCHANGED <<timers, caller, deadline, token>>
      BY <3>1, <3>2, PlacesWaiting
    <3>3. CASE pc' = "Closed" /\ CloseTimers(Timers) /\ UNCHANGED <<caller, deadline, token>>
      BY <2>0, <3>1, <3>3 DEF CloseTimers, TimersByPlace, CallersByPlace
    <3>. QED
      BY <2>6, <3>2, <3>3 DEF RunOnceWakes
  <2>7. CASE RunOnceTimesOut \/ RunOnceCancelled
    BY <2>7, PlacesLeft DEF RunOnceTimesOut, RunOnceCancelled, TimersByPlace
  <2>8. CASE ResumeCoroutine
    BY <2>8 DEF ResumeCoroutine, Resume, TimersByPlace, CallersByPlace
  <2>9. CASE WaitKeyChecks
    <3>1. pc = "Check" /\ timers = Opened /\ caller = "WaitKey"
      BY <2>9 DEF WaitKeyChecks, TimersByPlace
    <3>2. CASE Leave /\ CloseTimers(Timers)
      BY <2>0, <3>2, PlacesLeft DEF CloseTimers
    <3>3. CASE pc' = "Wait" /\ UNCHANGED <<timers, caller, deadline, token>>
      BY <3>1, <3>3, PlacesWaiting
    <3>. QED
      BY <2>9, <3>2, <3>3 DEF WaitKeyChecks
  <2>10. CASE WaitKeyWakes
    <3>1. pc = "Woken" /\ timers = Opened /\ caller = "WaitKey"
      BY <2>10 DEF WaitKeyWakes, TimersByPlace
    <3>2. CASE Leave /\ CloseTimers(Timers)
      BY <2>0, <3>2, PlacesLeft DEF CloseTimers
    <3>3. CASE pc' = "Check" /\ UNCHANGED <<timers, caller, deadline, token>>
      BY <3>1, <3>3, PlacesWaiting
    <3>. QED
      BY <2>10, <3>2, <3>3 DEF WaitKeyWakes
  <2>. QED
    BY <1>3, <2>1, <2>2, <2>3, <2>4, <2>5, <2>6, <2>7, <2>8, <2>9, <2>10
    DEF Waiting, SetUp
<1>4. CASE UNCHANGED vars
  BY <1>4, PlacesFramed DEF vars, wait_vars
<1>. QED
  BY <1>1, <1>2, <1>3, <1>4 DEF Next

-----------------------------------------------------------------------------
(* What RunOnce was woken by.                                              *)

LEMMA SelectedFramed ==
  ASSUME SelectedByPlace, cancelled => cancelled',
         UNCHANGED <<caller, pc, deadline, token, selected, registrations>>
  PROVE  SelectedByPlace'
  BY DEF SelectedByPlace, SelectedIs, WithTimers, RegisteredEvents

LEMMA SelectedElsewhere ==
  ASSUME pc' \notin {"Woken", "Closed"} \/ caller' # "RunOnce"
  PROVE  SelectedByPlace'
  BY DEF SelectedByPlace

LEMMA SelectedStep ==
  ASSUME TypeOK, SelectedByPlace, [Next]_vars
  PROVE  SelectedByPlace'
<1> USE DEF firmware, options
<1>1. CASE Environment
  <2>1. CASE ResetToken
    BY <2>1, SelectedElsewhere DEF ResetToken
  <2>2. CASE DriverSignals \/ KeyTyped \/ Cancel \/ \E t \in Timers : Elapse(t)
    BY <1>1, <2>2, SelectedFramed
    DEF Environment, DriverSignals, KeyTyped, Elapse, Cancel, loop_vars
  <2>. QED
    BY <1>1, <2>1, <2>2 DEF Environment
<1>2. CASE Application
  <2>1. CASE WaitKey \/ RunOnce
    BY <2>1, SelectedElsewhere DEF WaitKey, RunOnce, BeginWait
  <2>2. CASE RunOnceReturns
    BY <2>2, SelectedElsewhere DEF RunOnceReturns, Leave
  <2>3. CASE CallPollKey
    BY <2>3, SelectedElsewhere DEF CallPollKey
  <2>4. CASE \E c \in Coroutines : AwaitKey(c) \/ AwaitEvent(c)
    BY <2>4, SelectedElsewhere DEF AwaitKey, AwaitEvent, HasControl, wait_vars
  <2>. QED
    BY <1>2, <2>1, <2>2, <2>3, <2>4 DEF Application
<1>3. CASE Waiting
  <2>1. CASE SetUp
    BY <2>1, SelectedElsewhere
    DEF SetUp, CreateDeadline, SetDeadline, CreateTick, SetTick, Start, Leave
  <2>2. CASE RunOnceWaits /\ WaitForEvent(RegisteredEvents)
    <3>1. pc' = "Woken" /\ UNCHANGED <<deadline, token, registrations>>
      BY <2>2 DEF RunOnceWaits, WaitForEvent, loop_vars
    <3>2. selected' \in 1..Len(WithTimers(RegisteredEvents))
      BY <2>2 DEF WaitForEvent
    <3>. QED
      BY <3>1, <3>2 DEF SelectedByPlace, WithTimers, RegisteredEvents
  <2>3. CASE RunOnceWakes
    <3>1. CASE pc' = "Wait"
      BY <3>1, SelectedElsewhere
    <3>2. CASE pc' = "Closed"
      <4>1. /\ UNCHANGED <<caller, deadline, token, selected, registrations, cancelled>>
            /\ caller = "RunOnce" /\ pc = "Woken"
            /\ SelectedIs("Tick") => cancelled
        BY <2>3, <3>2 DEF RunOnceWakes, loop_vars
      <4>. QED
        BY <4>1 DEF SelectedByPlace, SelectedIs, WithTimers, RegisteredEvents
    <3>. QED
      BY <2>3, <3>1, <3>2 DEF RunOnceWakes
  <2>4. CASE RunOnceTimesOut \/ RunOnceCancelled \/ WaitForEventFails
    BY <2>4, SelectedElsewhere
    DEF RunOnceTimesOut, RunOnceCancelled, WaitForEventFails, Leave
  <2>5. CASE ResumeCoroutine
    BY <2>5, SelectedElsewhere DEF ResumeCoroutine, Resume
  <2>6. CASE WaitKeyChecks \/ WaitKeyWakes
    BY <2>6, SelectedElsewhere DEF WaitKeyChecks, WaitKeyWakes, Leave
  <2>7. CASE WaitKeyWaits
    BY <2>7, SelectedElsewhere
    DEF WaitKeyWaits, WaitForEvent, WaitForEventFails, Leave
  <2>. QED
    BY <1>3, <2>1, <2>2, <2>3, <2>4, <2>5, <2>6, <2>7 DEF Waiting, RunOnceWaits
<1>4. CASE UNCHANGED vars
  BY <1>4, SelectedFramed DEF vars, wait_vars, loop_vars
<1>. QED
  BY <1>1, <1>2, <1>3, <1>4 DEF Next

\* What is selected when a coroutine is resumed is a registration.
LEMMA SelectedRegistration ==
  ASSUME TypeOK, SelectedByPlace
  PROVE  ResumesARegistration
<1> SUFFICES ASSUME caller = "RunOnce", pc = "Closed", ~(token /\ cancelled),
                    ~SelectedIs("Deadline")
             PROVE  selected \in 1..Len(registrations)
  BY DEF ResumesARegistration
<1>1. /\ Len(registrations) \in Nat /\ RegisteredEvents \in Seq(Sources)
      /\ Len(RegisteredEvents) = Len(registrations)
  BY RegistrationType DEF TypeOK
<1>2. /\ selected \in 1..Len(WithTimers(RegisteredEvents))
      /\ Len(WithTimers(RegisteredEvents)) \in Nat
      /\ SelectedIs("Tick") => cancelled
  BY <1>1, EventArray DEF SelectedByPlace, TypeOK
<1>3. ASSUME selected > Len(registrations) PROVE FALSE
  <2>1. \/ deadline /\ WithTimers(RegisteredEvents)[selected] = "Deadline"
        \/ token /\ WithTimers(RegisteredEvents)[selected] = "Tick"
    BY <1>1, <1>2, <1>3, EventArray DEF TypeOK
  <2>. QED
    BY <1>2, <1>3, <2>1 DEF SelectedIs
<1>. QED
  BY <1>1, <1>2, <1>3
-----------------------------------------------------------------------------
(* The registrations.                                                      *)

\* Registrations and coroutines change when a coroutine registers, which had
\* control, and when it is resumed.
RegistersOne ==
  \E c \in Coroutines, source \in Sources :
    /\ state[c] = "Ready"
    /\ Len(registrations) < MaximumRegistrations
    /\ registrations' = Append(registrations, [source |-> source, coroutine |-> c])
    /\ state' = [state EXCEPT ![c] = "Suspended"]
    /\ UNCHANGED resumed

LEMMA LoopSteps ==
  ASSUME [Next]_vars
  PROVE  \/ RegistersOne
         \/ Resume
         \/ UNCHANGED <<registrations, state>> /\ resumed' \in {resumed, "None"}
<1>1. CASE Environment
  BY <1>1 DEF Environment, loop_vars
<1>2. CASE Application
  <2>1. CASE \E c \in Coroutines : AwaitKey(c)
    BY <2>1 DEF AwaitKey, HasControl, Register, RegistersOne, Sources
  <2>2. CASE \E c \in Coroutines : AwaitEvent(c)
    BY <2>2 DEF AwaitEvent, HasControl, Register, RegistersOne, Sources
  <2>3. CASE WaitKey \/ RunOnce \/ RunOnceReturns \/ CallPollKey
    BY <2>3 DEF WaitKey, RunOnce, RunOnceReturns, CallPollKey, loop_vars
  <2>. QED
    BY <1>2, <2>1, <2>2, <2>3 DEF Application
<1>3. CASE Waiting
  BY <1>3 DEF Waiting, RunOnceWaits, RunOnceWakes, RunOnceTimesOut,
     RunOnceCancelled, ResumeCoroutine, WaitKeyChecks, WaitKeyWaits,
     WaitKeyWakes, loop_vars
<1>4. CASE UNCHANGED vars
  BY <1>4 DEF vars, loop_vars
<1>. QED
  BY <1>1, <1>2, <1>3, <1>4 DEF Next

Registrations == [source : Sources, coroutine : Coroutines]

\* What taking the registration k away leaves.
LEMMA WithoutOne ==
  ASSUME registrations \in Seq(Registrations), NEW k \in 1..Len(registrations)
  PROVE  /\ Without(registrations, k) \in Seq(Registrations)
         /\ Len(registrations) \in Nat
         /\ Len(Without(registrations, k)) = Len(registrations) - 1
         /\ \A n \in 1..(Len(registrations) - 1) :
              Without(registrations, k)[n] =
                registrations[IF n < k THEN n ELSE n + 1]
<1>1. Len(registrations) \in Nat /\ Len(registrations) - 1 \in Nat
  OBVIOUS
<1>2. \A n \in 1..(Len(registrations) - 1) :
        /\ n \in 1..Len(registrations) /\ n + 1 \in 1..Len(registrations)
        /\ registrations[n] \in Registrations
        /\ registrations[n + 1] \in Registrations
  BY <1>1, ElementOfSeq
<1>. QED
  BY <1>1, <1>2 DEF Without

LEMMA LoopTypeStep ==
  ASSUME TypeOK, SelectedByPlace, [Next]_vars
  PROVE  LoopTypeOK'
<1>1. /\ registrations \in Seq(Registrations)
      /\ Len(registrations) \in Nat /\ Len(registrations) <= MaximumRegistrations
      /\ state \in [Coroutines -> {"Ready", "Suspended"}]
      /\ resumed \in Coroutines \cup {"None"}
  BY DEF TypeOK, LoopTypeOK, Registrations
<1>2. CASE RegistersOne
  <2>1. PICK c \in Coroutines, source \in Sources :
          /\ Len(registrations) < MaximumRegistrations
          /\ registrations' = Append(registrations, [source |-> source, coroutine |-> c])
          /\ state' = [state EXCEPT ![c] = "Suspended"]
          /\ UNCHANGED resumed
    BY <1>2 DEF RegistersOne
  <2>2. [source |-> source, coroutine |-> c] \in Registrations
    BY DEF Registrations
  <2>3. /\ registrations' \in Seq(Registrations)
        /\ Len(registrations') = Len(registrations) + 1
    BY <1>1, <2>1, <2>2, AppendProperties
  <2>. QED
    BY <1>1, <2>1, <2>3, LoopAssumption DEF LoopTypeOK, Registrations
<1>3. CASE Resume
  <2>1. selected \in 1..Len(registrations)
    BY <1>3, SelectedRegistration DEF Resume, ResumesARegistration
  <2>2. registrations[selected].coroutine \in Coroutines
    <3>1. registrations[selected] \in Registrations
      BY <1>1, <2>1, ElementOfSeq
    <3>. QED
      BY <3>1 DEF Registrations
  <2>. QED
    BY <1>1, <1>3, <2>1, <2>2, WithoutOne, LoopAssumption
    DEF Resume, LoopTypeOK, Registrations
<1>4. CASE UNCHANGED <<registrations, state>> /\ resumed' \in {resumed, "None"}
  BY <1>1, <1>4 DEF LoopTypeOK, Registrations
<1>. QED
  BY <1>2, <1>3, <1>4, LoopSteps

LEMMA MatchStep ==
  ASSUME TypeOK, SelectedByPlace, RegistrationsMatch, [Next]_vars
  PROVE  RegistrationsMatch'
<1>1. /\ registrations \in Seq(Registrations) /\ Len(registrations) \in Nat
      /\ state \in [Coroutines -> {"Ready", "Suspended"}]
      /\ \A k \in 1..Len(registrations) : registrations[k].coroutine \in Coroutines
  <2>1. \A k \in 1..Len(registrations) : registrations[k] \in Registrations
    BY ElementOfSeq DEF TypeOK, LoopTypeOK, Registrations
  <2>. QED
    BY <2>1 DEF TypeOK, LoopTypeOK, Registrations
<1> DEFINE Of(k)  == registrations[k].coroutine
           New(k) == registrations'[k].coroutine
<1>2. CASE RegistersOne
  <2>1. PICK c \in Coroutines, source \in Sources :
          /\ state[c] = "Ready"
          /\ registrations' = Append(registrations, [source |-> source, coroutine |-> c])
          /\ state' = [state EXCEPT ![c] = "Suspended"]
    BY <1>2 DEF RegistersOne
  <2>2. /\ Len(registrations') = Len(registrations) + 1
        /\ \A k \in 1..Len(registrations) : New(k) = Of(k)
        /\ New(Len(registrations) + 1) = c
    <3>1. [source |-> source, coroutine |-> c] \in Registrations
      BY DEF Registrations
    <3>2. /\ Len(registrations') = Len(registrations) + 1
          /\ \A k \in 1..Len(registrations) : registrations'[k] = registrations[k]
          /\ registrations'[Len(registrations) + 1] = [source |-> source, coroutine |-> c]
      BY <1>1, <2>1, <3>1, AppendProperties
    <3>. QED
      BY <3>2
  <2>3. \A k \in 1..Len(registrations) : Of(k) # c
    BY <1>1, <2>1 DEF RegistrationsMatch
  <2>4. {d \in Coroutines : state'[d] = "Suspended"}
          = {d \in Coroutines : state[d] = "Suspended"} \cup {c}
    BY <1>1, <2>1
  <2>5. {New(k) : k \in 1..Len(registrations')}
          = {Of(k) : k \in 1..Len(registrations)} \cup {c}
    <3>1. 1..Len(registrations') = 1..Len(registrations) \cup {Len(registrations) + 1}
      BY <1>1, <2>2
    <3>. QED
      BY <2>2, <3>1
  <2>6. \A j, k \in 1..Len(registrations') : j # k => New(j) # New(k)
    <3>1. \A k \in 1..Len(registrations') :
            k \in 1..Len(registrations) \/ k = Len(registrations) + 1
      BY <1>1, <2>2
    <3>. QED
      BY <2>2, <2>3, <3>1 DEF RegistrationsMatch
  <2>. QED
    BY <2>4, <2>5, <2>6 DEF RegistrationsMatch
<1>3. CASE Resume
  <2>1. /\ selected \in 1..Len(registrations)
        /\ registrations' = Without(registrations, selected)
        /\ state' = [state EXCEPT ![Of(selected)] = "Ready"]
    BY <1>3, SelectedRegistration DEF Resume, ResumesARegistration
  <2> DEFINE At(n) == IF n < selected THEN n ELSE n + 1
  <2>2. /\ Len(registrations') = Len(registrations) - 1
        /\ \A n \in 1..Len(registrations') :
             At(n) \in 1..Len(registrations) \ {selected} /\ New(n) = Of(At(n))
    BY <1>1, <2>1, WithoutOne
  <2>3. \A k \in 1..Len(registrations) \ {selected} :
          \E n \in 1..Len(registrations') : At(n) = k
    <3> SUFFICES ASSUME NEW k \in 1..Len(registrations) \ {selected}
                 PROVE  \E n \in 1..Len(registrations') : At(n) = k
      OBVIOUS
    <3>1. CASE k < selected
      BY <1>1, <2>1, <2>2, <3>1
    <3>2. CASE k > selected
      <4>1. k - 1 \in 1..Len(registrations') /\ At(k - 1) = k
        BY <1>1, <2>1, <2>2, <3>2
      <4>. QED
        BY <4>1
    <3>. QED
      BY <1>1, <2>1, <3>1, <3>2
  <2>4. \A j, k \in 1..Len(registrations') : j # k => At(j) # At(k)
    BY <1>1, <2>1, <2>2
  <2> HIDE DEF At
  <2>5. {d \in Coroutines : state'[d] = "Suspended"}
          = {d \in Coroutines : state[d] = "Suspended"} \ {Of(selected)}
    BY <1>1, <2>1
  <2>6. {New(n) : n \in 1..Len(registrations')}
          = {Of(k) : k \in 1..Len(registrations) \ {selected}}
    <3>1. \A n \in 1..Len(registrations') :
            \E k \in 1..Len(registrations) \ {selected} : New(n) = Of(k)
      BY <2>2
    <3>2. \A k \in 1..Len(registrations) \ {selected} :
            \E n \in 1..Len(registrations') : New(n) = Of(k)
      BY <2>2, <2>3
    <3> HIDE DEF Of, New
    <3>. QED
      BY <3>1, <3>2
  <2>7. {Of(k) : k \in 1..Len(registrations) \ {selected}}
          = {Of(k) : k \in 1..Len(registrations)} \ {Of(selected)}
    BY <2>1 DEF RegistrationsMatch
  <2>8. \A j, k \in 1..Len(registrations') : j # k => New(j) # New(k)
    BY <2>2, <2>4 DEF RegistrationsMatch
  <2>. QED
    BY <2>5, <2>6, <2>7, <2>8 DEF RegistrationsMatch
<1>4. CASE UNCHANGED <<registrations, state>>
  BY <1>4 DEF RegistrationsMatch
<1>. QED
  BY <1>2, <1>3, <1>4, LoopSteps
-----------------------------------------------------------------------------
(* The keys.                                                               *)

\* The kept surrogate is the key read last, and so is the queued event.
KeptIsLast ==
  /\ pendingHigh # 0 => pendingHigh = read /\ typed[read] = "High"
  /\ pendingHigh = 0 /\ read > 0 => typed[read] # "High"
  /\ queued # 0 => queued = read

\* The terminal's state changes when a key is polled, and the keys when one is
\* typed.
LEMMA KeySteps ==
  ASSUME [Next]_vars
  PROVE  \/ PollKey /\ UNCHANGED typed
         \/ KeyTyped /\ UNCHANGED <<read, pendingHigh, queued, reported>>
         \/ UNCHANGED <<typed, read, pendingHigh, queued, reported>>
<1> USE DEF firmware, options
<1>1. CASE Environment
  BY <1>1 DEF terminal_vars, Environment, DriverSignals, KeyTyped, Elapse, Cancel, ResetToken
<1>2. CASE Application
  <2>1. CASE \E c \in Coroutines : AwaitKey(c)
    BY <2>1 DEF AwaitKey
  <2>2. CASE CallPollKey
    BY <2>2 DEF CallPollKey
  <2>3. CASE WaitKey \/ (RunOnce /\ UNCHANGED terminal_vars)
    BY <2>3 DEF terminal_vars, WaitKey, RunOnce, BeginWait
  <2>4. CASE RunOnceReturns /\ UNCHANGED terminal_vars
    BY <2>4 DEF terminal_vars, RunOnceReturns
  <2>5. CASE (\E c \in Coroutines : AwaitEvent(c)) /\ UNCHANGED terminal_vars
    BY <2>5 DEF terminal_vars, AwaitEvent, wait_vars
  <2>. QED
    BY <1>2, <2>1, <2>2, <2>3, <2>4, <2>5 DEF Application
<1>3. CASE Waiting
  <2>1. CASE SetUp /\ UNCHANGED terminal_vars
    BY <2>1 DEF terminal_vars, SetUp, CreateDeadline, SetDeadline, CreateTick, SetTick
  <2>2. CASE /\ RunOnceWaits \/ RunOnceWakes \/ RunOnceTimesOut \/ RunOnceCancelled
             /\ UNCHANGED terminal_vars
    <3>1. CASE RunOnceWaits
      BY <2>2, <3>1 DEF terminal_vars, RunOnceWaits, WaitForEvent, WaitForEventFails
    <3>2. CASE RunOnceWakes
      BY <2>2, <3>2 DEF terminal_vars, RunOnceWakes
    <3>3. CASE RunOnceTimesOut \/ RunOnceCancelled
      BY <2>2, <3>3 DEF terminal_vars, RunOnceTimesOut, RunOnceCancelled
    <3>. QED
      BY <2>2, <3>1, <3>2, <3>3
  <2>3. CASE ResumeCoroutine
    BY <2>3 DEF ResumeCoroutine
  <2>4. CASE WaitKeyChecks
    BY <2>4 DEF terminal_vars, WaitKeyChecks
  <2>5. CASE WaitKeyWaits
    <3>1. UNCHANGED <<pendingHigh, queued, reported>>
      BY <2>5 DEF terminal_vars, WaitKeyWaits
    <3>2. UNCHANGED <<typed, read>>
      BY <2>5 DEF WaitKeyWaits, WaitForEvent, WaitForEventFails
    <3>. QED
      BY <3>1, <3>2
  <2>6. CASE WaitKeyWakes
    BY <2>6 DEF WaitKeyWakes
  <2>. QED
    BY <1>3, <2>1, <2>2, <2>3, <2>4, <2>5, <2>6 DEF Waiting
<1>4. CASE UNCHANGED vars
  BY <1>4 DEF terminal_vars, vars, wait_vars
<1>. QED
  BY <1>1, <1>2, <1>3, <1>4 DEF Next

LEMMA KeptIsLastStep ==
  ASSUME TypeOK, KeptIsLast, [Next]_vars
  PROVE  KeptIsLast'
<1>1. read \in 0..Len(typed) /\ Len(typed) \in Nat /\ typed \in Seq(Units)
  BY DEF TypeOK, WaitTypeOK
<1>2. CASE PollKey /\ UNCHANGED typed
  <2>1. CASE queued' = 0 /\ UNCHANGED <<read, pendingHigh>>
    BY <1>2, <2>1 DEF KeptIsLast
  <2>2. CASE queued = 0 /\ read' = read + 1 /\ Convert(read + 1)
    <3>1. /\ pendingHigh' = IF typed[read + 1] = "High" THEN read + 1 ELSE 0
          /\ queued' \in {0, read + 1}
      BY <2>2 DEF Convert
    <3>. QED
      BY <1>1, <1>2, <2>2, <3>1 DEF KeptIsLast
  <2>3. CASE UNCHANGED <<read, pendingHigh, queued>>
    BY <1>2, <2>3 DEF KeptIsLast
  <2>. QED
    BY <1>2, <2>1, <2>2, <2>3 DEF PollKey
<1>3. CASE KeyTyped /\ UNCHANGED <<read, pendingHigh, queued, reported>>
  <2>1. PICK u \in Units : typed' = Append(typed, u)
    BY <1>3 DEF KeyTyped
  <2>2. \A n \in 1..Len(typed) : typed'[n] = typed[n]
    BY <1>1, <2>1, AppendProperties
  <2>. QED
    BY <1>1, <1>3, <2>2 DEF KeptIsLast
<1>4. CASE UNCHANGED <<typed, read, pendingHigh, queued, reported>>
  BY <1>4 DEF KeptIsLast
<1>. QED
  BY <1>2, <1>3, <1>4, KeySteps

\* A sequence of the keys up to n that complete a character, in their order.
InOrder(keys, n) ==
  /\ {keys[i] : i \in 1..Len(keys)} = {k \in 1..n : Complete(k)}
  /\ \A i, j \in 1..Len(keys) : i < j => keys[i] < keys[j]

LEMMA InOrderGrows ==
  ASSUME NEW n \in Nat, NEW keys \in Seq(Nat), InOrder(keys, n)
  PROVE  /\ Complete(n + 1) => InOrder(Append(keys, n + 1), n + 1)
         /\ ~Complete(n + 1) => InOrder(keys, n + 1)
<1>1. 1..(n + 1) = 1..n \cup {n + 1} /\ Len(keys) \in Nat
  OBVIOUS
<1>2. ASSUME Complete(n + 1)
      PROVE  InOrder(Append(keys, n + 1), n + 1)
  <2> DEFINE new == Append(keys, n + 1)
  <2>1. /\ Len(new) = Len(keys) + 1
        /\ \A i \in 1..Len(keys) : new[i] = keys[i]
        /\ new[Len(keys) + 1] = n + 1
    BY <1>1, AppendProperties
  <2>2. 1..Len(new) = 1..Len(keys) \cup {Len(keys) + 1}
    BY <1>1, <2>1
  <2> HIDE DEF new
  <2>3. {new[i] : i \in 1..Len(new)} = {keys[i] : i \in 1..Len(keys)} \cup {n + 1}
    BY <2>1, <2>2
  <2>4. {k \in 1..(n + 1) : Complete(k)} = {k \in 1..n : Complete(k)} \cup {n + 1}
    BY <1>1, <1>2
  <2>5. \A i \in 1..Len(keys) : keys[i] \in 1..n
    BY DEF InOrder
  <2>6. \A i, j \in 1..Len(new) : i < j => new[i] < new[j]
    BY <1>1, <2>1, <2>2, <2>5 DEF InOrder
  <2>. QED
    BY <2>3, <2>4, <2>6 DEF InOrder, new
<1>3. ASSUME ~Complete(n + 1)
      PROVE  InOrder(keys, n + 1)
  BY <1>1, <1>3 DEF InOrder
<1>. QED
  BY <1>2, <1>3

LEMMA ExactlyOnceStep ==
  ASSUME TypeOK, KeptIsLast, KeysExactlyOnce, [Next]_vars
  PROVE  KeysExactlyOnce'
<1>1. /\ read \in 0..Len(typed) /\ Len(typed) \in Nat /\ typed \in Seq(Units)
      /\ pendingHigh \in Nat /\ queued \in Nat
      /\ reported \in Seq(Nat)
  <2>1. reported \in Seq(1..MaxKeys) /\ 1..MaxKeys \subseteq Nat
    BY WaitAssumption DEF TypeOK
  <2>. QED
    BY <2>1, SeqMonotonic, WaitAssumption DEF TypeOK, WaitTypeOK
<1>2. InOrder(Returned, read)
  BY DEF KeysExactlyOnce, InOrder
<1>3. CASE PollKey /\ UNCHANGED typed
  <2>1. CASE queued # 0 /\ reported' = Append(reported, queued) /\ queued' = 0
             /\ UNCHANGED read
    BY <1>3, <2>1 DEF KeysExactlyOnce, Returned, Complete
  <2>2. CASE queued = 0 /\ read < Len(typed) /\ read' = read + 1 /\ Convert(read + 1)
    <3>1. read + 1 \in 1..Len(typed) /\ read + 1 \in Nat
      BY <1>1, <2>2
    <3>2. Returned = reported
      BY <2>2 DEF Returned
    <3>3. IF Complete(read + 1) THEN Returned' = Append(reported, read + 1)
                                ELSE Returned' = reported
      <4>1. pendingHigh # 0 <=> read > 0 /\ typed[read] = "High"
        BY <1>1 DEF KeptIsLast
      <4>2. Complete(read + 1) <=> \/ typed[read + 1] = "Plain"
                                   \/ typed[read + 1] = "Low" /\ pendingHigh # 0
        BY <1>1, <4>1 DEF Complete
      <4>3. CASE typed[read + 1] = "High"
        BY <2>2, <4>2, <4>3 DEF Convert, Returned
      <4>4. CASE typed[read + 1] = "Low"
        BY <2>2, <4>2, <4>4 DEF Convert, Returned
      <4>5. CASE typed[read + 1] = "Plain"
        BY <1>1, <2>2, <4>2, <4>5 DEF Convert, Returned
      <4>6. typed[read + 1] \in Units
        BY <1>1, <3>1, ElementOfSeq
      <4>. QED
        BY <4>3, <4>4, <4>5, <4>6 DEF Units
    <3>4. InOrder(Returned', read + 1)
      <4>1. /\ Complete(read + 1) => InOrder(Append(reported, read + 1), read + 1)
            /\ ~Complete(read + 1) => InOrder(reported, read + 1)
        BY <1>1, <1>2, <3>2, InOrderGrows
      <4>. QED
        BY <3>3, <4>1
    <3>. QED
      BY <1>3, <2>2, <3>4 DEF KeysExactlyOnce, InOrder, Complete
  <2>3. CASE UNCHANGED <<read, queued, reported>>
    BY <1>3, <2>3 DEF KeysExactlyOnce, Returned, Complete
  <2>. QED
    BY <1>3, <2>1, <2>2, <2>3 DEF PollKey
<1>4. CASE KeyTyped /\ UNCHANGED <<read, pendingHigh, queued, reported>>
  <2>1. PICK u \in Units : typed' = Append(typed, u)
    BY <1>4 DEF KeyTyped
  <2>2. \A n \in 1..Len(typed) : typed'[n] = typed[n]
    BY <1>1, <2>1, AppendProperties
  <2>3. \A n \in 1..read : Complete(n)' <=> Complete(n)
    BY <1>1, <2>2 DEF Complete
  <2>. QED
    BY <1>4, <2>3 DEF KeysExactlyOnce, Returned
<1>5. CASE UNCHANGED <<typed, read, pendingHigh, queued, reported>>
  BY <1>5 DEF KeysExactlyOnce, Returned, Complete
<1>. QED
  BY <1>3, <1>4, <1>5, KeySteps
-----------------------------------------------------------------------------
(* The theorems.                                                           *)

IInv ==
  /\ TypeOK
  /\ TimersByPlace /\ CallersByPlace /\ SelectedByPlace
  /\ RegistrationsMatch
  /\ KeptIsLast /\ KeysExactlyOnce

LEMMA TypeStep ==
  ASSUME TypeOK, SelectedByPlace, [Next]_vars
  PROVE  TypeOK'
<1>1. WaitTypeOK' /\ LoopTypeOK'
  BY WaitTypeStep, LoopTypeStep
<1>2. CASE PollKey /\ UNCHANGED typed
  BY <1>1, <1>2, PollType DEF TypeOK
<1>3. CASE UNCHANGED <<pendingHigh, queued, reported>>
  BY <1>1, <1>3 DEF TypeOK
<1>. QED
  BY <1>2, <1>3, KeySteps

LEMMA InitHolds == Init => IInv
<1> SUFFICES ASSUME Init PROVE IInv
  OBVIOUS
<1>1. TypeOK
  <2>1. WaitTypeOK
    <3>1. typed \in Seq(Units) /\ Len(typed) = 0 /\ read = 0
      BY DEF Init, WaitInit
    <3>2. fired = {} /\ timers = {} /\ elapsed = {}
      BY DEF Init, WaitInit
    <3>3. /\ cancelled = FALSE /\ deadline = FALSE /\ token = FALSE
          /\ caller \in Callers /\ pc \in Places /\ selected \in Nat
      BY DEF Init, WaitInit, Callers, Places
    <3>4. Len(typed) <= MaxKeys /\ read \in 0..Len(typed)
      BY <3>1, WaitAssumption
    <3>5. fired \in SUBSET Sources /\ timers \in SUBSET Timers /\ elapsed \in SUBSET timers
      BY <3>2
    <3>6. cancelled \in BOOLEAN /\ deadline \in BOOLEAN /\ token \in BOOLEAN
      BY <3>3
    <3>. QED
      BY <3>1, <3>3, <3>4, <3>5, <3>6 DEF WaitTypeOK
  <2>2. LoopTypeOK
    BY LoopAssumption DEF Init, LoopInit, LoopTypeOK
  <2>. QED
    BY <2>1, <2>2, WaitAssumption DEF Init, TypeOK
<1>2. TimersByPlace /\ CallersByPlace /\ SelectedByPlace
  BY DEF Init, WaitInit, TimersByPlace, CallersByPlace, SelectedByPlace
<1>3. RegistrationsMatch
  BY DEF Init, LoopInit, RegistrationsMatch
<1>4. KeptIsLast /\ KeysExactlyOnce
  BY DEF Init, WaitInit, KeptIsLast, KeysExactlyOnce, Returned
<1>. QED
  BY <1>1, <1>2, <1>3, <1>4 DEF IInv

THEOREM InvariantHolds == Spec => []IInv
<1>1. IInv /\ [Next]_vars => IInv'
  BY TypeStep, PlacesStep, SelectedStep, MatchStep, KeptIsLastStep, ExactlyOnceStep
  DEF IInv
<1>. QED
  BY <1>1, InitHolds, PTL DEF Spec, Safety

\* The terminal, the loop and the firmware's events have their types: no
\* position outside the registrations is ever read.
THEOREM TerminalTypeCorrect == Spec => []TypeOK
  BY InvariantHolds, PTL DEF IInv

\* Every way out of a wait closes exactly the timers it had opened.
THEOREM TimersClosed == Spec => []NoTimerLeaks
<1>1. IInv => NoTimerLeaks
  BY DEF IInv, TimersByPlace, NoTimerLeaks
<1>. QED
  BY <1>1, InvariantHolds, PTL

\* The suspended coroutines are those registered, each once, and what is
\* resumed is one of them.
THEOREM SuspendedCorrect == Spec => []SuspendedAreRegistered
<1>1. IInv => SuspendedAreRegistered
  BY SelectedRegistration DEF IInv, SuspendedAreRegistered
<1>. QED
  BY <1>1, InvariantHolds, PTL

\* Polls, waits and coroutines that share a terminal return every character
\* read exactly once and in the order of typing.
THEOREM KeysCorrect == Spec => []KeysExactlyOnce
  BY InvariantHolds, PTL DEF IInv
=============================================================================
