------------------------------ MODULE MCDrive ------------------------------
(* Drive for TLC: every direction at every speed. *)
EXTENDS Drive
AllDirections == 1 .. Len(drive_dir_e)
=============================================================================
