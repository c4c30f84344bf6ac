------------------------------- MODULE IrPort2 -------------------------------
(***************************************************************************)
(* The command buffer of drivers/ir_remote.c between the interrupt that    *)
(* fills it and ir_remote_get_cmd, which empties it statement by statement *)
(* with the interrupt of its pin disabled. Both the IR receiver and, on    *)
(* another pin, the front range sensor interrupt through port 2, and       *)
(* isr_port_2 of drivers/io.c serves every pin whose flag is set, whether  *)
(* its interrupt is enabled or not. queue is what the buffer should hold.  *)
(***************************************************************************)
EXTENDS RingBuffer

CONSTANT QuietAbove    \* with more commands than this the front sensor is quiet

ASSUME CmdsAssumption == "NONE" \notin Data
ASSUME QuietAssumption == QuietAbove \in Nat

VARIABLES arriving,       \* what the next pulse completes, "NONE" for no message
          ir_ifg, ir_ie,  \* flag and enable bit of the IR pin
          front_ifg,      \* flag of the front sensor's pin, which stays enabled
          get_pc, cmd,    \* of ir_remote_get_cmd
          queue           \* the commands put and not got, oldest first

port == <<arriving, ir_ifg, ir_ie, front_ifg>>
port2Vars == <<rbVars, port, get_pc, cmd, queue>>

-----------------------------------------------------------------------------
(* The last pulse of a message, or of a repetition, raises the IR pin. The *)
(* next one is 40 ms away: it does not come before this one is served.     *)
(* Pulses that complete nothing leave the buffer alone.                    *)
Pulse(c) ==
    /\ ~ir_ifg
    /\ ir_ifg' = TRUE
    /\ arriving' = c
    /\ UNCHANGED <<rbVars, ir_ie, front_ifg, get_pc, cmd, queue>>

(* The front sensor has done a measurement. *)
MeasurementDone ==
    /\ ~front_ifg
    /\ Len(queue) <= QuietAbove
    /\ front_ifg' = TRUE
    /\ UNCHANGED <<rbVars, arriving, ir_ifg, ir_ie, get_pc, cmd, queue>>

(* What isr_pulse does with a command. *)
PutCmd(c) ==
    /\ ring_buffer_put(c)
    /\ queue' = Append(IF Len(queue) = buffer_size THEN Tail(queue) ELSE queue, c)

(* isr_port_2 runs for any enabled pin, and serves all of them. *)
isr_port_2 ==
    /\ front_ifg \/ (ir_ifg /\ ir_ie)
    /\ front_ifg' = FALSE
    /\ ir_ifg' = FALSE
    /\ arriving' = "NONE"
    /\ IF ir_ifg THEN PutCmd(arriving) ELSE UNCHANGED <<rbVars, queue>>
    /\ UNCHANGED <<ir_ie, get_pc, cmd>>

-----------------------------------------------------------------------------
(* ir_remote_get_cmd *)
GetGoto(from, to) == get_pc = from /\ get_pc' = to

(* Mutant: the interrupt is not disabled. *)
DisablePin_forgotten == GetGoto("idle", "check") /\ cmd' = "NONE" /\ UNCHANGED <<rbVars, port, queue>>

DisablePin ==
    /\ GetGoto("idle", "check")
    /\ cmd' = "NONE"
    /\ ir_ie' = FALSE
    /\ UNCHANGED <<rbVars, arriving, ir_ifg, front_ifg, queue>>

CheckEmpty ==
    /\ get_pc = "check"
    /\ get_pc' = IF ring_buffer_empty THEN "enable" ELSE "read"
    /\ UNCHANGED <<rbVars, port, cmd, queue>>

(* ring_buffer_get: the element is copied, which takes it off the queue.   *)
ReadTail ==
    /\ GetGoto("read", "increment")
    /\ cmd' = buffer[tail_idx]
    /\ queue' = Tail(queue)
    /\ UNCHANGED <<rbVars, port>>

IncrementTail ==
    /\ GetGoto("increment", "wrap")
    /\ tail_idx' = tail_idx + 1
    /\ UNCHANGED <<buffer, head_idx, full, port, cmd, queue>>

WrapTail ==
    /\ GetGoto("wrap", "clear_full")
    /\ tail_idx' = IF tail_idx = buffer_size THEN 0 ELSE tail_idx
    /\ UNCHANGED <<buffer, head_idx, full, port, cmd, queue>>

ClearFull ==
    /\ GetGoto("clear_full", "enable")
    /\ full' = FALSE
    /\ UNCHANGED <<buffer, head_idx, tail_idx, port, cmd, queue>>

EnablePin ==
    /\ GetGoto("enable", "idle")
    /\ ir_ie' = TRUE
    /\ UNCHANGED <<rbVars, arriving, ir_ifg, front_ifg, cmd, queue>>

Port2Init ==
    /\ RBInit
    /\ arriving = "NONE"
    /\ ir_ifg = FALSE /\ ir_ie = TRUE /\ front_ifg = FALSE
    /\ get_pc = "idle" /\ cmd = "NONE"
    /\ queue = << >>

ir_remote_get_cmd ==
    \/ DisablePin \/ CheckEmpty \/ ReadTail \/ IncrementTail
    \/ WrapTail \/ ClearFull \/ EnablePin

Port2Next ==
    \/ \E c \in Data : Pulse(c)
    \/ MeasurementDone
    \/ isr_port_2
    \/ ir_remote_get_cmd

Port2Spec == Port2Init /\ [][Port2Next]_port2Vars

-----------------------------------------------------------------------------
(* A get reads the oldest of the commands that were put and not got, and   *)
(* between two gets the buffer holds these commands in their order: none   *)
(* is lost, none comes twice. The interrupt of the range sensor lets the   *)
(* IR interrupt into a get that has disabled it; the buffer bears that as  *)
(* long as it is not getting full.                                         *)
HoldsQueue ==
    /\ get_pc = "read" => queue # << >> /\ ring_buffer_peek_tail = Head(queue)
    /\ get_pc = "idle" => Contents = queue

=============================================================================
