----------------------------- MODULE ByteReader -----------------------------
(***************************************************************************)
(* What a buffering input adapter promises: it stands at a position of a   *)
(* source whose bytes are 1, 2, ..., Size, hands out the bytes from there  *)
(* on, and reports the end only at the end, or when it has been closed.    *)
(***************************************************************************)
EXTENDS Naturals, Sequences

CONSTANT Size

VARIABLES
  place, \* how many bytes of the source lie before the reader
  got,   \* what the last call handed out; 0 reports the end, which a peek
         \* and a read of nothing do with the byte that was asked for
  open   \* it has not been closed, or has been moved since

vars == <<place, got, open>>

Init == place \in 0..Size /\ got = <<>> /\ open = TRUE

Bytes(n) == [i \in 1..n |-> place + i]

Read ==
  /\ open
  /\ \E n \in 1..(Size - place) :
       /\ place' = place + n
       /\ \/ got' = Bytes(n)
          \/ place + n = Size /\ got' = Append(Bytes(n), 0)
  /\ open' = open

\* A byte further on; or a byte is passed over.
Peek ==
  /\ open
  /\ \E p \in (place + 1)..Size : got' = <<p>>
  /\ UNCHANGED <<place, open>>

Skip == open /\ place < Size /\ place' = place + 1 /\ UNCHANGED <<got, open>>

\* The end is reported to who asks for a byte beyond it.
ReportEnd ==
  /\ Len(got') = 2
  /\ got'[1] = 0
  /\ got'[2] > place
  /\ open => got'[2] > Size
  /\ UNCHANGED <<place, open>>

Seek == place' \in 0..Size /\ got' = <<>> /\ open' = TRUE

Close == open' = FALSE /\ UNCHANGED <<place, got>>

Next == Read \/ Peek \/ Skip \/ ReportEnd \/ Seek \/ Close

Spec == Init /\ [][Next]_vars
=============================================================================
