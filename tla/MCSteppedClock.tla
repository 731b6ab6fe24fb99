--------------------------- MODULE MCSteppedClock ---------------------------
(***************************************************************************)
(* Values of the constants of SteppedClock for TLC: those of MCControlLoop.*)
(***************************************************************************)
EXTENDS SteppedClock, MCControlLoop
=============================================================================
