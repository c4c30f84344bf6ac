------------------------------- MODULE Enemy -------------------------------
(***************************************************************************)
(* app/enemy.c and app/enemy.h: the layer that turns the ranges measured   *)
(* by the VL53L0X sensors into a discrete enemy position and distance.     *)
(* Only the front, front-left and front-right sensors are compiled in (the *)
(* left and right ones are under #if 0), so the positions LEFT and RIGHT   *)
(* are in the type but are never produced.                                 *)
(***************************************************************************)
EXTENDS Naturals

enemy_pos_e == {"NONE", "FRONT_LEFT", "FRONT", "FRONT_RIGHT", "LEFT", "RIGHT",
                "FRONT_AND_FRONT_LEFT", "FRONT_AND_FRONT_RIGHT", "FRONT_ALL",
                "IMPOSSIBLE"}
enemy_range_e == {"NONE", "CLOSE", "MID", "FAR"}
EnemyType == [position : enemy_pos_e, range : enemy_range_e]

EnemyNone == [position |-> "NONE", range |-> "NONE"]

enemy_detected(e) == e.position \notin {"NONE", "IMPOSSIBLE"}
enemy_at_left(e) == e.position \in {"LEFT", "FRONT_LEFT", "FRONT_AND_FRONT_LEFT"}
enemy_at_right(e) == e.position \in {"RIGHT", "FRONT_RIGHT", "FRONT_AND_FRONT_RIGHT"}
enemy_at_front(e) == e.position \in {"FRONT", "FRONT_ALL"}

-----------------------------------------------------------------------------
(* enemy_get. A measurement is a record of the three ranges in mm; the     *)
(* sums are of values below 600, so 16 bits are enough for them. When the  *)
(* sensors cannot be read enemy_get answers EnemyNone.                     *)
RANGE_DETECT_THRESHOLD == 600
INVALID_RANGE == 65535
RANGE_CLOSE == 100
RANGE_MID == 200

(* Which of the sensors see something nearer than the threshold. *)
Seen(r) == {s \in {"front_left", "front", "front_right"} : r[s] < RANGE_DETECT_THRESHOLD}

PositionOf(seen) ==
    CASE seen = {}                           -> "NONE"
      [] seen = {"front"}                    -> "FRONT"
      [] seen = {"front_left"}               -> "FRONT_LEFT"
      [] seen = {"front_right"}              -> "FRONT_RIGHT"
      [] seen = {"front_left", "front"}      -> "FRONT_AND_FRONT_LEFT"
      [] seen = {"front_right", "front"}     -> "FRONT_AND_FRONT_RIGHT"
      [] seen = {"front_left", "front_right"} -> "IMPOSSIBLE"
      [] OTHER                               -> "FRONT_ALL"

(* The distance the code attributes to the enemy, INVALID_RANGE for none.  *)
MeanRange(r, position) ==
    CASE position = "FRONT"       -> r.front
      [] position = "FRONT_LEFT"  -> r.front_left
      [] position = "FRONT_RIGHT" -> r.front_right
      [] position = "FRONT_AND_FRONT_LEFT"  -> (r.front_left + r.front) \div 2
      [] position = "FRONT_AND_FRONT_RIGHT" -> (r.front_right + r.front) \div 2
      [] position = "FRONT_ALL" ->
             ((r.front_left + r.front) \div 2 + r.front_right) \div 2
      [] OTHER -> INVALID_RANGE

RangeClass(mm) ==
    CASE mm = INVALID_RANGE -> "NONE"
      [] mm < RANGE_CLOSE -> "CLOSE"
      [] RANGE_CLOSE <= mm /\ mm < RANGE_MID -> "MID"
      [] OTHER -> "FAR"

enemy_get(r) ==
    LET position == PositionOf(Seen(r))
    IN  [position |-> position, range |-> RangeClass(MeanRange(r, position))]

=============================================================================
