----------------------------- MODULE ByteStream -----------------------------
(***************************************************************************)
(* What a buffering output adapter promises: bytes 1, 2, 3, ... handed     *)
(* over come out once each and in that order, at most Lag of them late.    *)
(***************************************************************************)
EXTENDS Naturals, Sequences

CONSTANT Lag

VARIABLES
  sent,     \* how many bytes have been handed over
  received  \* the bytes that came out

vars == <<sent, received>>

Init == sent = 0 /\ received = <<>>

Send ==
  /\ sent' \in (sent + 1)..(Len(received) + Lag)
  /\ received' = received

Receive ==
  /\ \E n \in (Len(received) + 1)..sent :
       received' = [i \in 1..n |-> IF i <= Len(received) THEN received[i] ELSE i]
  /\ sent' = sent

\* The adapter is given another backend.
Restart == sent' = 0 /\ received' = <<>>

Next == Send \/ Receive \/ Restart

Spec == Init /\ [][Next]_vars
=============================================================================
