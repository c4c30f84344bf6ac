------------------------------ MODULE MCTimer ------------------------------
(* Timer for TLC, with counters of few bits. *)
EXTENDS Timer
=============================================================================
