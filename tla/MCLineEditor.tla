---------------------------- MODULE MCLineEditor ----------------------------
(* Characters of one and of three bytes, under a limit of one or of four.  *)
EXTENDS LineEditor

CompletionSet == {<<>>, <<2, 0>>, <<1, 1, 2, 0, 1>>}
=============================================================================
