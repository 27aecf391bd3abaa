------------------------------ MODULE EventLoop ------------------------------
(***************************************************************************)
(* IO::EventLoop: coroutines registered with the event they wait for, and  *)
(* RunOnce, which waits for one of them and resumes its coroutine.         *)
(***************************************************************************)
EXTENDS TimedWait

CONSTANTS
  Coroutines,
  MaximumRegistrations \* 32 in the code

ASSUME LoopAssumption == MaximumRegistrations \in Nat

VARIABLES
  registrations, \* Registrations_[0 .. Count_)
  state,         \* of each coroutine: Ready, Suspended
  resumed        \* the coroutine RunOnce is resuming, or "None"

loop_vars == <<registrations, state, resumed>>

LoopInit ==
  /\ registrations = <<>>
  /\ state = [c \in Coroutines |-> "Ready"]
  /\ resumed = "None"
-----------------------------------------------------------------------------
\* The coroutine that has control: any ready one at rest, or the resumed one.
HasControl(c) ==
  \/ pc = "Idle" /\ state[c] = "Ready"
  \/ pc = "Resumed" /\ resumed = c /\ state[c] = "Ready"

\* Deliberate error: the coroutine suspends though it was not registered.
RegisterSuspends(source, c) ==
  /\ registrations' = IF Len(registrations) = MaximumRegistrations THEN registrations
                      ELSE Append(registrations, [source |-> source, coroutine |-> c])
  /\ state' = [state EXCEPT ![c] = "Suspended"]

\* Register: the coroutine suspends, or goes on when the array is full.
Register(source, c) ==
  \/ /\ Len(registrations) < MaximumRegistrations
     /\ registrations' = Append(registrations, [source |-> source, coroutine |-> c])
     /\ state' = [state EXCEPT ![c] = "Suspended"]
  \/ /\ Len(registrations) = MaximumRegistrations
     /\ UNCHANGED <<registrations, state>>

AwaitEvent(c) ==
  /\ HasControl(c)
  /\ \E e \in Events : Register(e, c)
  /\ UNCHANGED <<wait_vars, resumed>>

\* A resumed coroutine that suspended again, or went on, gives control back.
RunOnceReturns ==
  /\ pc = "Resumed"
  /\ Leave
  /\ resumed' = "None"
  /\ UNCHANGED <<firmware, timers, elapsed, cancelled, registrations,
                 state>>

\* RunOnce with something registered; a cancelled token ends it at once.
RunOnce ==
  /\ registrations # <<>>
  /\ BeginWait("RunOnce")
  /\ ~(token' /\ cancelled)
  /\ UNCHANGED loop_vars

RegisteredEvents ==
  [k \in 1..Len(registrations) |-> registrations[k].source]

RunOnceWaits ==
  /\ caller = "RunOnce"
  /\ WaitForEvent(RegisteredEvents) \/ WaitForEventFails
  /\ UNCHANGED loop_vars

SelectedIs(timer) ==
  /\ selected > Len(registrations)
  /\ WithTimers(RegisteredEvents)[selected] = timer

\* Deliberate error: any event ends the wait, a tick too.
WakesOnTick ==
  /\ caller = "RunOnce"
  /\ pc = "Woken"
  /\ pc' = "Closed"
  /\ CloseTimers(Timers)
  /\ UNCHANGED <<firmware, cancelled, caller, options, selected, loop_vars>>

\* Deliberate error: a tick does not look at the token.
TickWaitsOn ==
  /\ caller = "RunOnce"
  /\ pc = "Woken"
  /\ IF SelectedIs("Tick")
     THEN pc' = "Wait" /\ UNCHANGED <<timers, elapsed>>
     ELSE pc' = "Closed" /\ CloseTimers(Timers)
  /\ UNCHANGED <<firmware, cancelled, caller, options, selected, loop_vars>>

\* A tick without a cancellation waits on; all else closes the timers.
RunOnceWakes ==
  /\ caller = "RunOnce"
  /\ pc = "Woken"
  /\ \/ /\ SelectedIs("Tick")
        /\ ~cancelled
        /\ pc' = "Wait"
        /\ UNCHANGED <<timers, elapsed>>
     \/ /\ SelectedIs("Tick") => cancelled
        /\ pc' = "Closed"
        /\ CloseTimers(Timers)
  /\ UNCHANGED <<firmware, cancelled, caller, options, selected, loop_vars>>

Without(s, k) == [n \in 1..(Len(s) - 1) |-> IF n < k THEN s[n] ELSE s[n + 1]]

RunOnceTimesOut ==
  /\ caller = "RunOnce"
  /\ pc = "Closed"
  /\ SelectedIs("Deadline")
  /\ Leave
  /\ UNCHANGED <<firmware, timers, elapsed, cancelled, loop_vars>>

(***************************************************************************)
(* The token is looked at once more, whatever was selected: if that is a   *)
(* registration, its event's signal is gone and its coroutine not resumed. *)
(***************************************************************************)
RunOnceCancelled ==
  /\ caller = "RunOnce"
  /\ pc = "Closed"
  /\ ~SelectedIs("Deadline")
  /\ token
  /\ cancelled
  /\ Leave
  /\ UNCHANGED <<firmware, timers, elapsed, cancelled, registrations,
                 state, resumed>>

\* The registration is removed and its coroutine resumed.
Resume ==
  /\ caller = "RunOnce"
  /\ pc = "Closed"
  /\ ~SelectedIs("Deadline")
  /\ ~(token /\ cancelled)
  /\ registrations' = Without(registrations, selected)
  /\ resumed' = registrations[selected].coroutine
  /\ state' = [state EXCEPT ![registrations[selected].coroutine] = "Ready"]
  /\ pc' = "Resumed"
  /\ UNCHANGED <<timers, elapsed, cancelled, caller, options, selected>>

LoopTypeOK ==
  /\ registrations \in Seq([source : Sources, coroutine : Coroutines])
  /\ Len(registrations) <= MaximumRegistrations
  /\ state \in [Coroutines -> {"Ready", "Suspended"}]
  /\ resumed \in Coroutines \cup {"None"}
=============================================================================
