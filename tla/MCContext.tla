----------------------------- MODULE MCContext -----------------------------
(* Any text of three characters through a buffer of two, on a device that  *)
(* fails four times, once more than fills the wide buffer of three; three  *)
(* system tables, of which two are usable and one has a console; and two   *)
(* image handles.                                                          *)
EXTENDS Context
=============================================================================
