------------------------------ MODULE Terminal ------------------------------
(***************************************************************************)
(* IO::Terminal's input: PollKey, which turns the UTF-16 units of the      *)
(* firmware into key events, the blocking WaitKey, and the awaitable that  *)
(* waits for a key through the event loop.                                 *)
(***************************************************************************)
EXTENDS EventLoop

VARIABLES
  pendingHigh, \* the key whose PendingHighSurrogate_ is kept, or 0
  queued,      \* the key QueuedEvent_ holds, or 0
  reported     \* for the properties: the keys whose character has been
               \* returned, a surrogate pair counting as its second key

terminal_vars == <<pendingHigh, queued, reported>>
vars == <<wait_vars, loop_vars, terminal_vars>>

Init ==
  /\ WaitInit
  /\ LoopInit
  /\ pendingHigh = 0
  /\ queued = 0
  /\ reported = <<>>
-----------------------------------------------------------------------------
\* Deliberate error: the queued event is dropped by the next read.
ConvertDrops(n) ==
  /\ pendingHigh' = IF typed[n] = "High" THEN n ELSE 0
  /\ queued' = queued
  /\ reported' = IF typed[n] = IF pendingHigh = 0 THEN "Plain" ELSE "Low"
                 THEN Append(reported, n) ELSE reported

(***************************************************************************)
(* Convert of the next key: a high surrogate is kept, one already kept     *)
(* becoming a replacement character; a low one completes the pair or is    *)
(* replaced; another unit after a kept high surrogate is queued behind the *)
(* replacement of that.                                                    *)
(***************************************************************************)
Convert(n) ==
  \/ /\ typed[n] = "High"
     /\ pendingHigh' = n
     /\ UNCHANGED <<queued, reported>>
  \/ /\ typed[n] = "Low"
     /\ pendingHigh' = 0
     /\ reported' = IF pendingHigh = 0 THEN reported ELSE Append(reported, n)
     /\ queued' = queued
  \/ /\ typed[n] = "Plain"
     /\ pendingHigh' = 0
     /\ IF pendingHigh = 0
        THEN reported' = Append(reported, n) /\ queued' = queued
        ELSE queued' = n /\ reported' = reported

NoKey == queued = 0 /\ read = Len(typed)

\* PollKey: the queued event, the next key, or WouldBlock.
PollKey ==
  \/ /\ queued # 0
     /\ reported' = Append(reported, queued)
     /\ queued' = 0
     /\ UNCHANGED <<read, pendingHigh>>
  \/ /\ queued = 0
     /\ read < Len(typed)
     /\ read' = read + 1
     /\ Convert(read + 1)
  \/ /\ NoKey
     /\ UNCHANGED <<read, pendingHigh, queued, reported>>

CallPollKey ==
  /\ pc \in {"Idle", "Resumed"}
  /\ ~NoKey
  /\ PollKey
  /\ UNCHANGED <<fired, typed, timers, elapsed, cancelled, caller, pc,
                 options, selected, loop_vars>>

\* await_ready and await_suspend: with an event queued there is no suspension.
AwaitKey(c) ==
  /\ HasControl(c)
  /\ \/ queued # 0 /\ PollKey /\ UNCHANGED <<registrations, state>>
     \/ queued = 0 /\ Register("Key", c) /\ UNCHANGED <<read, pendingHigh, queued, reported>>
  /\ UNCHANGED <<fired, typed, timers, elapsed, cancelled, caller, pc,
                 options, selected, resumed>>

\* Resume of the loop with await_resume, which polls for the key.
ResumeCoroutine ==
  /\ Resume
  /\ IF registrations[selected].source = "Key"
     THEN PollKey
     ELSE UNCHANGED <<read, pendingHigh, queued, reported>>
  /\ UNCHANGED <<fired, typed>>
-----------------------------------------------------------------------------
\* WaitKey; with an event queued it is PollKey.
WaitKey ==
  /\ queued = 0
  /\ BeginWait("WaitKey")
  /\ UNCHANGED <<loop_vars, terminal_vars>>

\* The loop's head looks at the token.
WaitKeyChecks ==
  /\ caller = "WaitKey"
  /\ pc = "Check"
  /\ \/ /\ token /\ cancelled
        /\ CloseTimers(Timers)
        /\ Leave
     \/ /\ ~(token /\ cancelled)
        /\ pc' = "Wait"
        /\ UNCHANGED <<timers, elapsed, caller, options, selected>>
  /\ UNCHANGED <<firmware, cancelled, loop_vars, terminal_vars>>

WaitKeyWaits ==
  /\ caller = "WaitKey"
  /\ WaitForEvent(<<"Key">>) \/ WaitForEventFails
  /\ UNCHANGED <<loop_vars, terminal_vars>>

WaitKeyWakes ==
  /\ caller = "WaitKey"
  /\ pc = "Woken"
  /\ LET woken == WithTimers(<<"Key">>)[selected]
     IN \/ /\ woken = "Deadline"
           /\ CloseTimers(Timers)
           /\ Leave
           /\ UNCHANGED <<read, pendingHigh, queued, reported>>
        \/ /\ woken = "Tick" \/ (woken = "Key" /\ NoKey)
           /\ pc' = "Check"
           /\ UNCHANGED <<timers, elapsed, caller, options, selected, read,
                          pendingHigh, queued, reported>>
        \/ /\ woken = "Key"
           /\ ~NoKey
           /\ CloseTimers(Timers)
           /\ \/ PollKey /\ Leave
              \/ queued = 0 /\ Leave /\ UNCHANGED <<read, pendingHigh, queued, reported>>
  /\ UNCHANGED <<fired, typed, cancelled, loop_vars>>
-----------------------------------------------------------------------------
Environment ==
  /\ DriverSignals \/ KeyTyped \/ (\E t \in Timers : Elapse(t)) \/ Cancel \/ ResetToken
  /\ UNCHANGED <<loop_vars, terminal_vars>>

\* What an application may do when it has control.
Application ==
  \/ \E c \in Coroutines : AwaitKey(c)
  \/ \E c \in Coroutines : AwaitEvent(c) /\ UNCHANGED terminal_vars
  \/ CallPollKey
  \/ WaitKey
  \/ RunOnce /\ UNCHANGED terminal_vars
  \/ RunOnceReturns /\ UNCHANGED terminal_vars

\* The steps of a wait that is under way.
Waiting ==
  \/ SetUp /\ UNCHANGED <<loop_vars, terminal_vars>>
  \/ RunOnceWaits /\ UNCHANGED terminal_vars
  \/ RunOnceWakes /\ UNCHANGED terminal_vars
  \/ RunOnceTimesOut /\ UNCHANGED terminal_vars
  \/ RunOnceCancelled /\ UNCHANGED terminal_vars
  \/ ResumeCoroutine
  \/ WaitKeyChecks
  \/ WaitKeyWaits
  \/ WaitKeyWakes

Next == Environment \/ Application \/ Waiting

(***************************************************************************)
(* A wait goes on when it can, and a timer that is set elapses, a periodic *)
(* one again and again.  Applications, drivers and users need do nothing.  *)
(***************************************************************************)
TimerElapses(t) == Elapse(t) /\ UNCHANGED <<loop_vars, terminal_vars>>

Safety == Init /\ [][Next]_vars

Spec ==
  /\ Safety
  /\ WF_vars(Waiting)
  /\ \A t \in Timers : WF_vars(TimerElapses(t))
-----------------------------------------------------------------------------
TypeOK ==
  /\ WaitTypeOK
  /\ LoopTypeOK
  /\ pendingHigh \in 0..MaxKeys
  /\ queued \in 0..MaxKeys
  /\ reported \in Seq(1..MaxKeys)

\* Every path out of a wait, each failing firmware call included, closes
\* exactly the timers it had opened.
NoTimerLeaks == pc \in {"Idle", "Closed", "Resumed"} => timers = {}

(***************************************************************************)
(* The coroutines that are suspended are exactly those registered, each    *)
(* once: none can be resumed twice or be forgotten by the loop, whatever   *)
(* wait failed, timed out or was cancelled.  What is selected when one is  *)
(* resumed is a registration, never a timer's place behind them.           *)
(***************************************************************************)
RegistrationsMatch ==
  /\ {c \in Coroutines : state[c] = "Suspended"}
       = {registrations[k].coroutine : k \in 1..Len(registrations)}
  /\ \A j, k \in 1..Len(registrations) :
       j # k => registrations[j].coroutine # registrations[k].coroutine

ResumesARegistration ==
  caller = "RunOnce" /\ pc = "Closed" /\ ~(token /\ cancelled) /\ ~SelectedIs("Deadline")
    => selected \in 1..Len(registrations)

SuspendedAreRegistered == RegistrationsMatch /\ ResumesARegistration

\* The key whose character the units read so far complete.
Complete(n) ==
  \/ typed[n] = "Plain"
  \/ typed[n] = "Low" /\ n > 1 /\ typed[n - 1] = "High"

\* What has been returned or is queued.
Returned == IF queued = 0 THEN reported ELSE Append(reported, queued)

\* Polls, waits and resumed coroutines that share a terminal return every
\* character read exactly once and in the order of typing.
KeysExactlyOnce ==
  /\ {Returned[i] : i \in 1..Len(Returned)} = {n \in 1..read : Complete(n)}
  /\ \A i, j \in 1..Len(Returned) : i < j => Returned[i] < Returned[j]

\* A wait whose token is cancelled ends, deadline or not; one with a
\* deadline ends too.
InWait == pc \notin {"Idle", "Resumed"}

WaitsEnd ==
  /\ (InWait /\ token /\ cancelled) ~> ~InWait
  /\ (InWait /\ deadline) ~> ~InWait

(***************************************************************************)
(* docs/guides/io-and-files: the loop "waits on registered UEFI events and *)
(* resumes coroutines".  A RunOnce that has taken the signal of a driver's *)
(* event, which comes once, does not return without resuming a coroutine.  *)
(***************************************************************************)
NoWakeupLost ==
  [][caller = "RunOnce" /\ caller' = "None" /\ pc # "Resumed"
       => \A k \in 1..Len(registrations) :
            selected = k => registrations[k].source = "Key"]_vars
=============================================================================
