------------------------------ MODULE MCTimers ------------------------------
(* Small instances of Timers. *)
EXTENDS Timers

Delays == [t \in Timers |-> IF t \in Intervals THEN 1 ELSE 2]
=============================================================================
