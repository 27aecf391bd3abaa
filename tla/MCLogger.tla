------------------------------ MODULE MCLogger ------------------------------
(* The program, a notification that interrupts it, and another processor.  *)
EXTENDS Logger

CONSTANTS program, notification, processor

ThreadSet == {program, notification, processor}
InterruptSet == {<<notification, program>>}
=============================================================================
