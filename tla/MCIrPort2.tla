----------------------------- MODULE MCIrPort2 -----------------------------
(* IrPort2 for TLC, with a buffer that fills up after a few commands. *)
EXTENDS IrPort2
=============================================================================
