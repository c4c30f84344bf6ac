------------------------------- MODULE MCUart -------------------------------
(* Uart for TLC: a small buffer that fills up, and a text with a line feed. *)
EXTENDS Uart

Text == <<"A", LF>>

=============================================================================
