----------------------------- MODULE MCTerminal -----------------------------
(* Coroutines in an event loop whose array they can fill, one event of a   *)
(* driver beside the key event, and any keys.                              *)
EXTENDS Terminal
=============================================================================
