---------------------------- MODULE MCPerception ----------------------------
(***************************************************************************)
(* Perception for TLC: to begin with any ranges off the line, and any      *)
(* voltages with nothing in sight; after that an enemy on either side, in  *)
(* front or out of sight, on and off the line.                             *)
(***************************************************************************)
EXTENDS Perception

R(left, middle, right) == [front_left |-> left, front |-> middle, front_right |-> right]
V(front, back) == [fl |-> front, fr |-> front, bl |-> back, br |-> back]

AnySurroundings ==
    (RangesType \X {V(700, 700)}) \cup ({R(600, 600, 600)} \X VoltagesType)
SomeSurroundings ==
    {R(600, 600, 600), R(600, 150, 600), R(300, 600, 600), R(600, 600, 300)}
        \X {V(700, 700), V(700, 699)}
NoInput == [enemy |-> EnemyNone, line |-> "NONE"]

=============================================================================
