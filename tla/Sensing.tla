------------------------------- MODULE Sensing -------------------------------
(***************************************************************************)
(* enemy_get and line_get on what the sensors measure, and what they would *)
(* answer to the same surroundings seen in a mirror.                       *)
(***************************************************************************)
EXTENDS Enemy, Line

CONSTANTS Ranges,   \* in mm, as the sensors report them
          Voltages  \* in mV

ASSUME RangesAssumption == Ranges \subseteq 0 .. INVALID_RANGE
ASSUME VoltagesAssumption == Voltages \subseteq Nat

RangesType == [{"front_left", "front", "front_right"} -> Ranges]
VoltagesType == [{"fl", "fr", "bl", "br"} -> Voltages]

VARIABLES ranges, voltages   \* of this iteration

Sampled == [enemy |-> enemy_get(ranges), line |-> line_get(voltages)]

-----------------------------------------------------------------------------
MirroredRanges(r) ==
    [front_left |-> r.front_right, front |-> r.front, front_right |-> r.front_left]
MirroredVoltages(v) == [fl |-> v.fr, fr |-> v.fl, bl |-> v.br, br |-> v.bl]

MirroredPosition ==
    [p \in enemy_pos_e |->
        CASE p = "FRONT_LEFT" -> "FRONT_RIGHT" [] p = "FRONT_RIGHT" -> "FRONT_LEFT"
          [] p = "LEFT" -> "RIGHT" [] p = "RIGHT" -> "LEFT"
          [] p = "FRONT_AND_FRONT_LEFT" -> "FRONT_AND_FRONT_RIGHT"
          [] p = "FRONT_AND_FRONT_RIGHT" -> "FRONT_AND_FRONT_LEFT"
          [] OTHER -> p]
MirroredLine ==
    [l \in line_e |->
        CASE l = "LEFT" -> "RIGHT" [] l = "RIGHT" -> "LEFT"
          [] l = "FRONT_LEFT" -> "FRONT_RIGHT" [] l = "FRONT_RIGHT" -> "FRONT_LEFT"
          [] l = "BACK_LEFT" -> "BACK_RIGHT" [] l = "BACK_RIGHT" -> "BACK_LEFT"
          [] l = "DIAGONAL_LEFT" -> "DIAGONAL_RIGHT" [] l = "DIAGONAL_RIGHT" -> "DIAGONAL_LEFT"
          [] OTHER -> l]

(* The two decision trees treat left and right alike: neither the enemy    *)
(* nor the line changes sides by the order in which sensors are looked at. *)
MirrorImage ==
    /\ enemy_get(MirroredRanges(ranges)).position = MirroredPosition[enemy_get(ranges).position]
    /\ line_get(MirroredVoltages(voltages)) = MirroredLine[line_get(voltages)]

=============================================================================
