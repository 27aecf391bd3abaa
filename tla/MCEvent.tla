------------------------------- MODULE MCEvent -------------------------------
(* Three connections, nesting of two and a vector that first holds two, so *)
(* that the third connection outgrows it.                                  *)
EXTENDS Event
=============================================================================
