----------------------- MODULE StateMachineRefinement -----------------------
(***************************************************************************)
(* StateMachine implements Strategy: the events, the timer, the internal   *)
(* event, the input history and the search, attack and retreat states are  *)
(* hidden. The plan of an escape is what is left of the table row of the   *)
(* retreat state from move_idx on.                                         *)
(***************************************************************************)
EXTENDS StateMachine

ModeOf == [WAIT |-> "waiting", SEARCH |-> "searching", ATTACK |-> "attacking",
           RETREAT |-> "escaping", MANUAL |-> "remote"]

AbstractMode == IF pc = "halted" THEN "dead" ELSE ModeOf[state]

MovesOf(s) == [i \in 1..move_cnt(s) |-> Drive(retreat_states[s][i].dir, retreat_states[s][i].speed)]

AbstractPlan ==
    IF AbstractMode = "escaping"
    THEN SubSeq(MovesOf(retreat_state), move_idx + 1, move_cnt(retreat_state))
    ELSE << >>

S == INSTANCE Strategy WITH
        Rotations <- {Drive("ROTATE_LEFT", "FAST"), Drive("ROTATE_RIGHT", "FAST")},
        Advance <- Drive("FORWARD", "FAST"),
        Pushes <- {AttackDrive(a) : a \in attack_state_e},
        Plans <- {MovesOf(s) : s \in retreat_state_e},
        RemoteMotions <- {Stopped} \cup [dir : {"FORWARD", "REVERSE", "ROTATE_LEFT",
                                                 "ROTATE_RIGHT"}, speed : {"MAX"}],
        Still <- Stopped,
        mode <- AbstractMode,
        motors <- drive,
        plan <- AbstractPlan

(* The state machine follows the strategy: every iteration of the loop is a *)
(* step of it or leaves it alone.                                          *)
ImplementsStrategy == S!Spec

=============================================================================
