----------------------------- MODULE MCVl53l0x -----------------------------
(* Vl53l0x for TLC: up to MaxFaults stalls, missing acknowledges and       *)
(* exchanges that fail or lose a byte, at any point, and a SPAD map of a   *)
(* few bits.                                                               *)
EXTENDS Vl53l0x

(* There are enough SPADs of the sensor's type, or not, or only with the   *)
(* last one of the map.                                                    *)
SomeNvm ==
    {[count |-> 2, aperture |-> FALSE, good |-> {0, 1, 3}],
     [count |-> 2, aperture |-> TRUE, good |-> 0 .. 4],
     [count |-> 2, aperture |-> FALSE, good |-> {0, 2}],
     [count |-> 2, aperture |-> TRUE, good |-> {0, 2, 4}]}

(* Also no SPAD at all, and more than there are. *)
SomeGarbage ==
    SomeNvm \cup {[count |-> 0, aperture |-> TRUE, good |-> {}],
                  [count |-> 6, aperture |-> FALSE, good |-> 0 .. 4]}
=============================================================================
