------------------------------ MODULE TimedWait ------------------------------
(***************************************************************************)
(* The firmware's events, and the timers that EventLoop::RunOnce and       *)
(* Terminal::WaitKey put around a WaitForEvent: a one-shot deadline and a  *)
(* periodic tick on which the wait looks at its cancellation token.  Both  *)
(* functions set them up with the same calls, each of which may fail.      *)
(***************************************************************************)
EXTENDS Naturals, Sequences

CONSTANTS
  Events, \* events of drivers, which are signalled once
  MaxKeys \* bound on the keys typed

ASSUME WaitAssumption == MaxKeys \in Nat

Sources == Events \cup {"Key"}
Timers == {"Deadline", "Tick"}
Places == {"Idle", "CreateDeadline", "SetDeadline", "CreateTick", "SetTick",
           "Check", "Wait", "Woken", "Closed", "Resumed"}
Units == {"Plain", "High", "Low"} \* a UTF-16 unit, or half of a surrogate pair
Callers == {"None", "RunOnce", "WaitKey"}

VARIABLES
  fired,     \* firmware: the sources whose signal is latched
  typed,     \* firmware: the unit of each key typed so far
  read,      \* firmware: how many of them have been read
  timers,    \* firmware: the timer events that are open
  elapsed,   \* firmware: the open timers whose signal is latched
  cancelled, \* CancellationToken::Cancelled_
  caller,    \* the function that is waiting
  pc,        \* where it is
  deadline,  \* its options have a timeout
  token,     \* its options have a cancellation token
  selected   \* the position in the event array WaitForEvent returned

firmware == <<fired, typed, read>>
options == <<deadline, token>>
wait_vars == <<firmware, timers, elapsed, cancelled, caller, pc, options,
               selected>>

WaitInit ==
  /\ fired = {}
  /\ typed = <<>>
  /\ read = 0
  /\ timers = {}
  /\ elapsed = {}
  /\ cancelled = FALSE
  /\ caller = "None"
  /\ pc = "Idle"
  /\ deadline = FALSE
  /\ token = FALSE
  /\ selected = 0
-----------------------------------------------------------------------------
(* The environment. *)

DriverSignals ==
  /\ \E e \in Events : e \notin fired /\ fired' = fired \cup {e}
  /\ UNCHANGED <<typed, read, timers, elapsed, cancelled, caller, pc,
                 options, selected>>

KeyTyped ==
  /\ Len(typed) < MaxKeys
  /\ \E u \in Units : typed' = Append(typed, u)
  /\ fired' = fired \cup {"Key"}
  /\ UNCHANGED <<read, timers, elapsed, cancelled, caller, pc, options,
                 selected>>

Elapse(t) ==
  /\ t \in timers
  /\ pc \notin {"SetDeadline", "SetTick"}
  /\ elapsed' = elapsed \cup {t}
  /\ UNCHANGED <<firmware, timers, cancelled, caller, pc, options, selected>>

\* CancellationToken::Cancel comes at any time; Reset between two waits.
Cancel ==
  /\ cancelled' = TRUE
  /\ UNCHANGED <<firmware, timers, elapsed, caller, pc, options, selected>>

ResetToken ==
  /\ pc = "Idle"
  /\ cancelled' = FALSE
  /\ UNCHANGED <<firmware, timers, elapsed, caller, pc, options, selected>>
-----------------------------------------------------------------------------
\* Closing a timer discards its signal.
CloseTimers(set) == timers' = timers \ set /\ elapsed' = elapsed \ set

\* The wait returns.
Leave ==
  /\ pc' = "Idle"
  /\ caller' = "None"
  /\ deadline' = FALSE
  /\ token' = FALSE
  /\ selected' = 0

\* Where a wait is ready to wait: WaitKey looks at its token first.
Start == IF caller = "WaitKey" THEN "Check" ELSE "Wait"

BeginWait(function) ==
  /\ pc = "Idle"
  /\ caller' = function
  /\ deadline' \in BOOLEAN
  /\ token' \in BOOLEAN
  /\ pc' = IF deadline' THEN "CreateDeadline"
           ELSE IF token' THEN "CreateTick"
           ELSE IF function = "WaitKey" THEN "Check" ELSE "Wait"
  /\ UNCHANGED <<firmware, timers, elapsed, cancelled, selected>>

CreateDeadline ==
  /\ pc = "CreateDeadline"
  /\ \/ /\ timers' = timers \cup {"Deadline"}
        /\ pc' = "SetDeadline"
        /\ UNCHANGED <<elapsed, caller, options, selected>>
     \/ Leave /\ UNCHANGED <<timers, elapsed>>
  /\ UNCHANGED <<firmware, cancelled>>

SetDeadline ==
  /\ pc = "SetDeadline"
  /\ \/ /\ pc' = IF token THEN "CreateTick" ELSE Start
        /\ UNCHANGED <<timers, elapsed, caller, options, selected>>
     \/ CloseTimers({"Deadline"}) /\ Leave
  /\ UNCHANGED <<firmware, cancelled>>

CreateTick ==
  /\ pc = "CreateTick"
  /\ \/ /\ timers' = timers \cup {"Tick"}
        /\ pc' = "SetTick"
        /\ UNCHANGED <<elapsed, caller, options, selected>>
     \/ CloseTimers({"Deadline"}) /\ Leave
  /\ UNCHANGED <<firmware, cancelled>>

\* Deliberate error: the deadline is not closed when this call fails.
SetTickLeaks ==
  /\ pc = "SetTick"
  /\ \/ /\ pc' = Start
        /\ UNCHANGED <<timers, elapsed, caller, options, selected>>
     \/ CloseTimers({"Tick"}) /\ Leave
  /\ UNCHANGED <<firmware, cancelled>>

SetTick ==
  /\ pc = "SetTick"
  /\ \/ /\ pc' = Start
        /\ UNCHANGED <<timers, elapsed, caller, options, selected>>
     \/ CloseTimers(Timers) /\ Leave
  /\ UNCHANGED <<firmware, cancelled>>
-----------------------------------------------------------------------------
(***************************************************************************)
(* WaitForEvent on an array of events: it takes the signal of the first    *)
(* one that is signalled.  The notification function of the key event      *)
(* signals it again while there are keys to read.                          *)
(***************************************************************************)
Signalled ==
  fired \cup elapsed \cup IF read < Len(typed) THEN {"Key"} ELSE {}

\* Deliberate error: the deadline is set up but not waited for.
WithTick(sources) == sources \o (IF token THEN <<"Tick">> ELSE <<>>)

\* The events of the caller and behind them the timers it has opened.
WithTimers(sources) ==
  sources \o (IF deadline THEN <<"Deadline">> ELSE <<>>)
          \o (IF token THEN <<"Tick">> ELSE <<>>)

WaitForEvent(sources) ==
  /\ pc = "Wait"
  /\ \E k \in 1..Len(WithTimers(sources)) :
       /\ WithTimers(sources)[k] \in Signalled
       /\ \A j \in 1..(k - 1) : WithTimers(sources)[j] \notin Signalled
       /\ selected' = k
       /\ fired' = fired \ {WithTimers(sources)[k]}
       /\ elapsed' = elapsed \ {WithTimers(sources)[k]}
  /\ pc' = "Woken"
  /\ UNCHANGED <<typed, read, timers, cancelled, caller, options>>

\* WaitForEvent fails, at once.
WaitForEventFails ==
  /\ pc = "Wait"
  /\ CloseTimers(Timers)
  /\ Leave
  /\ UNCHANGED <<firmware, cancelled>>

SetUp == CreateDeadline \/ SetDeadline \/ CreateTick \/ SetTick

WaitTypeOK ==
  /\ fired \in SUBSET Sources
  /\ typed \in Seq(Units)
  /\ Len(typed) <= MaxKeys
  /\ read \in 0..Len(typed)
  /\ timers \in SUBSET Timers
  /\ elapsed \in SUBSET timers
  /\ cancelled \in BOOLEAN
  /\ caller \in Callers
  /\ pc \in Places
  /\ deadline \in BOOLEAN
  /\ token \in BOOLEAN
  /\ selected \in Nat
=============================================================================
