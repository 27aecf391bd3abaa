---------------------------- MODULE MCAssembler ----------------------------
(* Programs of a few nodes with a short reach of a few bytes.              *)
EXTENDS Assembler
=============================================================================
