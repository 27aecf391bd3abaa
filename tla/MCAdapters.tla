----------------------------- MODULE MCAdapters -----------------------------
(* A buffer of two, and writes of up to five bytes, which fill it twice.   *)
EXTENDS Adapters
=============================================================================
