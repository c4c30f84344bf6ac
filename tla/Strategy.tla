------------------------------ MODULE Strategy ------------------------------
(***************************************************************************)
(* What the state machine promises, without its events, timers and         *)
(* priorities: docs/state_machine.uml with the motors added. A robot waits *)
(* until it is started, then searches by rotating and driving forward in   *)
(* turn, attacks, and escapes from a line along a plan of moves that it    *)
(* either follows to the end or replaces by a new one. The remote takes    *)
(* over at any time after the start, for good; an error stops the motors,  *)
(* for good.                                                               *)
(***************************************************************************)
EXTENDS Naturals, Sequences

CONSTANTS Rotations,      \* the two ways to rotate in search of an enemy
          Advance,        \* driving forward in search of an enemy
          Pushes,         \* ways to drive at an enemy
          Plans,          \* ways to leave a line: nonempty sequences of moves
          RemoteMotions,  \* what a command makes the motors do
          Still           \* motors stopped

VARIABLES mode,    \* "waiting", "searching", "attacking", "escaping", "remote", "dead"
          motors,
          plan     \* the moves of an escape that are not over, the current one first

strategyVars == <<mode, motors, plan>>

Init == mode = "waiting" /\ motors = Still /\ plan = << >>

Start ==
    /\ mode = "waiting"
    /\ mode' = "searching"
    /\ motors' \in Rotations
    /\ UNCHANGED plan

Sweep ==
    /\ mode = "searching"
    /\ IF motors = Advance THEN motors' \in Rotations ELSE motors' = Advance
    /\ UNCHANGED <<mode, plan>>

Attack ==
    /\ mode \in {"searching", "attacking"}
    /\ mode' = "attacking"
    /\ motors' \in Pushes
    /\ UNCHANGED plan

LoseEnemy ==
    /\ mode = "attacking"
    /\ mode' = "searching"
    /\ motors' \in Rotations \cup {Advance}
    /\ UNCHANGED plan

Escape ==
    /\ mode \in {"searching", "attacking", "escaping"}
    /\ mode' = "escaping"
    /\ plan' \in Plans
    /\ motors' = Head(plan')

NextMove ==
    /\ mode = "escaping"
    /\ plan # << >>
    /\ plan' = Tail(plan)
    /\ motors' = IF plan' = << >> THEN motors ELSE Head(plan')
    /\ UNCHANGED mode

Escaped ==
    /\ mode = "escaping"
    /\ plan = << >>
    /\ mode' = "searching"
    /\ motors' \in Rotations
    /\ UNCHANGED plan

TakeOver ==
    /\ mode \notin {"waiting", "dead"}
    /\ mode' = "remote"
    /\ motors' \in RemoteMotions \cup {motors}
    /\ plan' = << >>

Die ==
    /\ mode \notin {"waiting", "dead"}
    /\ mode' = "dead"
    /\ motors' = Still
    /\ plan' = << >>

Next == \/ Start \/ Sweep \/ Attack \/ LoseEnemy \/ Escape
        \/ NextMove \/ Escaped \/ TakeOver \/ Die

Spec == Init /\ [][Next]_strategyVars

=============================================================================
