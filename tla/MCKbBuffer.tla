----------------------------- MODULE MCKbBuffer ------------------------------
(* An instance of KbBuffer for TLC: a buffer of three bytes, so that it     *)
(* fills up and both pointers wrap at different times, and two scan codes.  *)
EXTENDS KbBuffer

NoSlot == 99
=============================================================================
