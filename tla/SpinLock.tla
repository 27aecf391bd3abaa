------------------------------ MODULE SpinLock ------------------------------
(***************************************************************************)
(* Foundation::SpinLock: one word that is exchanged for 1 to take the lock *)
(* and stored as 0 to release it.  Threads are the program, other          *)
(* processors, and the notification functions of the firmware, which stop  *)
(* what they interrupt until they return.                                  *)
(***************************************************************************)
EXTENDS Naturals

CONSTANTS
  Threads,
  Interrupts \* the pairs <<n, t>> such that n stops t as long as n runs

ASSUME SpinLockAssumption ==
  /\ Interrupts \subseteq Threads \X Threads
  /\ \A t \in Threads : <<t, t>> \notin Interrupts

Waiting == {"Exchange", "Spin"}
Holding == {"Write", "Flush", "Unlock"}

VARIABLES
  state, \* State_
  pc     \* where each thread is in a call that takes the lock

\* What interrupts t has returned.
CanRun(t) == \A n \in Threads : <<n, t>> \in Interrupts => pc[n] = "Idle"

Goes(t, from, to) ==
  /\ CanRun(t)
  /\ pc[t] = from
  /\ pc' = [pc EXCEPT ![t] = to]

\* Deliberate error: what the exchange returns is ignored.
TryLockIgnores(t, taken) ==
  /\ state' = 1
  /\ Goes(t, "Exchange", taken)

\* TryLock, as Lock's outer loop calls it.
TryLock(t, taken) ==
  /\ state' = 1
  /\ \/ state = 0 /\ Goes(t, "Exchange", taken)
     \/ state = 1 /\ Goes(t, "Exchange", "Spin")

\* Lock's inner loop has read a word that is 0.
SpinEnds(t) ==
  /\ state = 0
  /\ Goes(t, "Spin", "Exchange")
  /\ state' = state

\* Deliberate error: the word is left set.
UnlockForgets(t) == Goes(t, "Unlock", "Idle") /\ state' = state

Unlock(t) == Goes(t, "Unlock", "Idle") /\ state' = 0

\* A thread waits for one that it has interrupted.
Stuck ==
  \E n, t \in Threads :
    /\ <<n, t>> \in Interrupts
    /\ pc[n] \in Waiting
    /\ pc[t] \in Holding

\* At most one thread holds the lock, and the word tells whether one does.
MutualExclusion ==
  /\ \A t, u \in Threads : pc[t] \in Holding /\ pc[u] \in Holding => t = u
  /\ state = IF \E t \in Threads : pc[t] \in Holding THEN 1 ELSE 0
=============================================================================
