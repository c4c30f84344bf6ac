-------------------------------- MODULE Line --------------------------------
(***************************************************************************)
(* app/line.c and app/line.h: where the white border line is under the     *)
(* robot, from the voltages of the four QRE1113 sensors at its corners.    *)
(***************************************************************************)
EXTENDS Naturals

line_e == {"NONE", "FRONT", "BACK", "LEFT", "RIGHT", "FRONT_LEFT", "FRONT_RIGHT",
           "BACK_LEFT", "BACK_RIGHT", "DIAGONAL_LEFT", "DIAGONAL_RIGHT"}

LINE_DETECTED_VOLTAGE_THRESHOLD == 700

(* Mutant: the voltage of the right back corner is compared twice. *)
OverLine_copied(v) ==
    {c \in {"fl", "fr", "bl", "br"} :
        v[IF c = "bl" THEN "br" ELSE c] < LINE_DETECTED_VOLTAGE_THRESHOLD}

(* The corners whose sensor is over the line. v maps a corner to a voltage. *)
OverLine(v) == {c \in {"fl", "fr", "bl", "br"} : v[c] < LINE_DETECTED_VOLTAGE_THRESHOLD}

(* The decision tree of line_get, over the set of corners. *)
LineOf(over) ==
    IF "fl" \in over
    THEN CASE "fr" \in over -> "FRONT"
           [] over \cap {"fr", "bl"} = {"bl"} -> "LEFT"
           [] over \cap {"fr", "bl", "br"} = {"br"} -> "DIAGONAL_LEFT"
           [] OTHER -> "FRONT_LEFT"
    ELSE CASE {"fr", "br"} \subseteq over -> "RIGHT"
           [] over = {"fr", "bl"} -> "DIAGONAL_RIGHT"
           [] over = {"fr"} -> "FRONT_RIGHT"
           [] over = {"bl", "br"} -> "BACK"
           [] over = {"bl"} -> "BACK_LEFT"
           [] over = {"br"} -> "BACK_RIGHT"
           [] OTHER -> "NONE"

line_get(v) == LineOf(OverLine(v))

=============================================================================
