---------------------------- MODULE SecondsClock ----------------------------
(***************************************************************************)
(* The time that the limiters and the principals of hosted MCP agents are  *)
(* judged by, in whole seconds.  The code reads a monotonic clock for the  *)
(* limiters and the wall clock for the principals; here they advance       *)
(* together.                                                               *)
(***************************************************************************)
EXTENDS Integers

CONSTANT MaxClock  \* bound: the last second of the model
ASSUME ClockAssumption == MaxClock \in Nat

VARIABLE clock

\* A second passes.
Advance == clock < MaxClock /\ clock' = clock + 1
=============================================================================
