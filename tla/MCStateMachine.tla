--------------------------- MODULE MCStateMachine ---------------------------
(***************************************************************************)
(* Instances of StateMachine for TLC. One range per position is enough     *)
(* where the range plays no part; the sets of inputs keep one              *)
(* representative of each case the code tells apart.                       *)
(***************************************************************************)
EXTENDS StateMachineRefinement

At(position, range) == [position |-> position, range |-> range]

(* One enemy for every answer of the at_left, at_right, at_front and       *)
(* detected predicates.                                                    *)
EnemiesAllSides == {EnemyNone, At("FRONT", "FAR"), At("FRONT_LEFT", "FAR"),
                    At("FRONT_RIGHT", "FAR"), At("IMPOSSIBLE", "NONE")}
EnemiesTurning == {EnemyNone, At("FRONT_ALL", "CLOSE"), At("FRONT_AND_FRONT_LEFT", "MID"),
                   At("FRONT_AND_FRONT_RIGHT", "MID")}

=============================================================================
