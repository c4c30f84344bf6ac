----------------------------- MODULE MCIrRemote -----------------------------
(***************************************************************************)
(* IrRemote for TLC: frames received whole, not at all, up to an edge,     *)
(* from an edge on and with an edge missing; presses that follow within    *)
(* the timeout of the decoder and after it.                                *)
(***************************************************************************)
EXTENDS IrRemote

Byte(n) == [i \in 0 .. 7 |-> (n \div 2 ^ (7 - i)) % 2]
TwoButtons == {Byte(162), Byte(98)}
Addr == Byte(0)

SomeReceptions == {1 .. 34, {}, {1}, {2}, 1 .. 20, 1 .. 33, 20 .. 34, 1 .. 34 \ {5}}
Gaps == {Ms(110) + 5, Ms(125), Ms(153)}

=============================================================================
