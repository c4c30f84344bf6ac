---------------------------- MODULE MCInterrupts ----------------------------
(***************************************************************************)
(* Interrupts for TLC: words of few values, so that the carry of the       *)
(* counter is met often, and the pins of the robot, whose channels are not *)
(* contiguous.                                                             *)
(***************************************************************************)
EXTENDS Interrupts

Pins == <<3, 4, 0, 5>>

=============================================================================
