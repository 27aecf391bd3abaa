---------------------------- MODULE MCUnwinder -----------------------------
(* Images of three functions, one of them a leaf without an entry, and a   *)
(* segment of the first: the first with any of four prologues, the third   *)
(* with one that saves by offset or keeps a frame pointer.                 *)
EXTENDS Unwinder

Push(r)          == [op |-> "Push", register |-> r, amount |-> 0]
Allocate(n)      == [op |-> "Allocate", register |-> "None", amount |-> n]
SetFrame(r, o)   == [op |-> "SetFrame", register |-> r, amount |-> o]
Save(r, o)       == [op |-> "Save", register |-> r, amount |-> o]
SaveXmm          == [op |-> "SaveXmm", register |-> "None", amount |-> 0]

MCPrologues == {
  <<Push("Rbx"), Allocate(2)>>,
  <<Allocate(3), Save("Rbx", 1), SaveXmm>>,
  <<Push("Rbp"), Allocate(2), SetFrame("Rbp", 1)>>,
  <<Push("Rbp"), Allocate(3), SetFrame("Rbp", 0), Save("Rbx", 1)>> }

Function(prologue)   == [prologue |-> prologue, leaf |-> FALSE, parent |-> 0]
Leaf                 == [prologue |-> <<>>, leaf |-> TRUE, parent |-> 0]
Segment(prologue, p) == [prologue |-> prologue, leaf |-> FALSE, parent |-> p]

Called == {<<Allocate(3), Save("Rbx", 1), SaveXmm>>,
           <<Push("Rbp"), Allocate(2), SetFrame("Rbp", 1)>>}

MCImages == {<<Function(p), Leaf, Function(q), Segment(<<Save("Rsi", 0)>>, 1)>> :
               p \in MCPrologues, q \in Called}
=============================================================================
