------------------------------ MODULE IrRemote ------------------------------
(***************************************************************************)
(* The decoder of drivers/ir_remote.c against a NEC remote. The receiver's *)
(* pin rises at the end of every burst: 34 edges for a message, two for    *)
(* each repetition that follows while the button is held. isr_pulse counts *)
(* edges and tells bits apart by the milliseconds between them, which a    *)
(* timer counts that is restarted at every edge. Time is counted in units  *)
(* of 1/16 ms, in which all durations of the protocol are whole, and jumps *)
(* to the next event. An interrupt is served within LATENCY units; of two  *)
(* that wait the timer's comes first.                                      *)
(***************************************************************************)
EXTENDS Naturals, FiniteSetsExt

CONSTANTS Cmds,        \* commands of the remote's buttons
          addr,        \* of the remote
          NoCmd,       \* nothing is put
          Receptions,  \* sets of edges of a frame that are received
          PressGaps,   \* units from the end of a frame to the first edge of a new press
          MaxHeld,     \* repetitions sent while a button is held
          LATENCY

(* A byte is its bits, the one that is sent first at 0. *)
Bytes == [0 .. 7 -> {0, 1}]

ASSUME IrBytesAssumption == Cmds \subseteq Bytes /\ addr \in Bytes /\ NoCmd \notin Bytes
ASSUME ReceptionsAssumption == Receptions \subseteq SUBSET (1 .. 34)
ASSUME IrNatAssumption == PressGaps \subseteq Nat \ {0} /\ MaxHeld \in Nat /\ LATENCY \in Nat

VARIABLES button, repetition,  \* command sent; 0 for its message, then repetitions
          received,            \* edges of this frame that are received
          edge, wait,          \* next edge of the frame, units until it comes;
                               \* after the last edge, units since then
          tick_in,             \* units until the timer's next interrupt
          ifg, CCIFG,          \* flags of the receiver's pin and of the timer
          ifg_age, ccifg_age,  \* units since they were set
          timer_running, timer_ms, pulse_count, raw,
          out,                 \* what the last isr_pulse put into ir_cmd_buffer
          whole                \* frames received whole since the button was pressed

remote == <<button, repetition, received, edge, wait>>
flags == <<ifg, CCIFG, ifg_age, ccifg_age>>
decoder == <<timer_running, timer_ms, pulse_count, raw, tick_in>>
irVars == <<remote, flags, decoder, out, whole>>

Ms(n) == 16 * n
TIMER_TIMEOUT_ms == 150

-----------------------------------------------------------------------------
(* The remote: address and command, each followed by its inverse. The bit  *)
(* that is sent first is the most significant one of an ir_cmd_e.          *)
MessageBit(cmd, n) ==
    LET bit == (IF n < 16 THEN addr ELSE cmd)[n % 8]
    IN  IF (n \div 8) % 2 = 0 THEN bit ELSE 1 - bit

Edges == IF repetition = 0 THEN 34 ELSE 2

(* Units from edge e of a frame to the next: 5.0625 ms from the leading    *)
(* burst, 2.8125 ms in a repetition, 1.125 or 2.25 ms for a bit.           *)
GapAfter(e) ==
    IF repetition > 0 THEN 45
    ELSE IF e = 1 THEN 81
    ELSE IF MessageBit(button, e - 2) = 1 THEN 36 ELSE 18

(* A frame begins every 108 ms; 16 of the bits of a message are set. *)
GapToRepetition == IF repetition = 0 THEN Ms(108) - 81 - 16 * (18 + 36) ELSE Ms(108) - 45

Edge ==
    /\ wait = 0 /\ edge <= Edges
    /\ IF edge \in received THEN ifg' = TRUE /\ ifg_age' = 0 ELSE UNCHANGED <<ifg, ifg_age>>
    /\ edge' = edge + 1
    /\ wait' = IF edge < Edges THEN GapAfter(edge) ELSE 0
    /\ UNCHANGED <<button, repetition, received, CCIFG, ccifg_age, decoder, out, whole>>

(* The next frame, once the last edge of this one has been served: a       *)
(* repetition, or the message of another press.                            *)
NextFrame ==
    /\ edge > Edges /\ ~ifg
    /\ edge' = 1
    /\ received' \in Receptions
    /\ LET was_whole == 1 .. Edges \subseteq received
       IN  \/ /\ repetition < MaxHeld
              /\ repetition' = repetition + 1
              /\ wait' = GapToRepetition - wait
              /\ whole' = IF was_whole /\ whole = repetition THEN whole + 1 ELSE whole
              /\ UNCHANGED button
           \/ /\ repetition' = 0
              /\ \E gap \in PressGaps : wait' = gap - wait
              /\ whole' = 0
              /\ button' \in Cmds
    /\ out' = NoCmd
    /\ UNCHANGED <<flags, decoder>>

-----------------------------------------------------------------------------
(* Time passes up to the next edge or interrupt of the timer, but not      *)
(* beyond the latency of an interrupt that waits.                          *)
Events == (IF edge <= Edges THEN {wait} ELSE {}) \cup (IF timer_running THEN {tick_in} ELSE {})

Elapse ==
    /\ edge <= Edges \/ ifg
    /\ 0 \notin Events
    /\ ifg => ifg_age < LATENCY
    /\ CCIFG => ccifg_age < LATENCY
    /\ LET d == IF ifg \/ CCIFG THEN 1 ELSE Min(Events)
       IN  /\ wait' = IF edge <= Edges THEN wait - d ELSE wait + d
           /\ tick_in' = IF timer_running THEN tick_in - d ELSE tick_in
           /\ ifg_age' = IF ifg THEN ifg_age + d ELSE 0
           /\ ccifg_age' = IF CCIFG THEN ccifg_age + d ELSE 0
    /\ UNCHANGED <<button, repetition, received, edge, ifg, CCIFG, timer_running,
                   timer_ms, pulse_count, raw, out, whole>>

TimerExpires ==
    /\ timer_running /\ tick_in = 0
    /\ tick_in' = Ms(1)
    /\ CCIFG' = TRUE /\ ccifg_age' = 0
    /\ UNCHANGED <<remote, ifg, ifg_age, timer_running, timer_ms, pulse_count, raw, out, whole>>

-----------------------------------------------------------------------------
(* Mutant: a pulse after a repetition may come until the timer gives up. *)
is_valid_pulse_until_timeout(pulse, ms) ==
    CASE pulse = 0 -> FALSE
      [] pulse = 1 -> ms = 0
      [] pulse = 2 -> ms < 10
      [] pulse \in 3 .. 34 -> ms < 5
      [] pulse = 35 -> ms < 50
      [] pulse > 36 /\ pulse % 2 = 1 -> ms < TIMER_TIMEOUT_ms
      [] OTHER -> ms < 5

is_valid_pulse(pulse, ms) ==
    CASE pulse = 0 -> FALSE
      [] pulse = 1 -> ms = 0
      [] pulse = 2 -> ms < 10
      [] pulse \in 3 .. 34 -> ms < 5
      [] pulse = 35 -> ms < 50
      [] pulse > 36 /\ pulse % 2 = 1 -> ms < 110
      [] OTHER -> ms < 5

is_bit_pulse(pulse) == pulse \in 3 .. 34

(* Mutant: repetitions are not looked at. *)
is_message_pulse_first_only(pulse) == pulse = 34

is_message_pulse(pulse) == pulse = 34 \/ (pulse > 36 /\ pulse % 2 = 1)

(* The lower 16 bits of the message, the most significant one at 0: what   *)
(* is above is not looked at. The command is the upper one of their bytes. *)
ClearedRaw == [i \in 0 .. 15 |-> 0]
ShiftedIn(bit, message) == [i \in 0 .. 15 |-> IF i = 15 THEN bit ELSE message[i + 1]]
CmdOf(message) == [i \in 0 .. 7 |-> message[i]]

(* Mutant: a pulse at a wrong time is not counted as the first of a message. *)
CountFrom_zero(valid, count) == IF valid THEN count ELSE 0

(* A pulse at a wrong time is taken for the first of a message. *)
CountFrom(valid, count) == IF valid THEN count ELSE 1

(* isr_pulse. The timer's interrupt, which has priority, still waits only  *)
(* if it came just now; stopping the timer does not take it back.          *)
isr_pulse ==
    LET count == (pulse_count + 1) % 65536
        valid == is_valid_pulse(count, timer_ms)
    IN  /\ ifg
        /\ CCIFG => ccifg_age = 0
        /\ ifg' = FALSE
        /\ pulse_count' = CountFrom(valid, count)
        /\ raw' = IF ~valid THEN ClearedRaw
                  ELSE IF is_bit_pulse(count)
                  THEN ShiftedIn(IF timer_ms >= 2 THEN 1 ELSE 0, raw)
                  ELSE raw
        /\ out' = IF is_message_pulse(pulse_count') THEN CmdOf(raw') ELSE NoCmd
        /\ timer_running' = TRUE /\ timer_ms' = 0 /\ tick_in' = Ms(1)
        /\ UNCHANGED <<remote, CCIFG, ifg_age, ccifg_age, whole>>

isr_timer_a0 ==
    /\ CCIFG /\ CCIFG' = FALSE
    /\ IF timer_ms < TIMER_TIMEOUT_ms
       THEN timer_ms' = timer_ms + 1 /\ UNCHANGED <<timer_running, pulse_count, raw>>
       ELSE timer_running' = FALSE /\ timer_ms' = 0 /\ pulse_count' = 0 /\ raw' = ClearedRaw
    /\ UNCHANGED <<remote, ifg, ifg_age, ccifg_age, tick_in, out, whole>>

IrInit ==
    /\ button \in Cmds /\ repetition = 0
    /\ received \in Receptions
    /\ edge = 1 /\ wait = Ms(9)
    /\ tick_in = 0
    /\ ifg = FALSE /\ CCIFG = FALSE /\ ifg_age = 0 /\ ccifg_age = 0
    /\ timer_running = FALSE /\ timer_ms = 0 /\ pulse_count = 0 /\ raw = ClearedRaw
    /\ out = NoCmd
    /\ whole = 0

IrNext == Edge \/ NextFrame \/ Elapse \/ TimerExpires \/ isr_pulse \/ isr_timer_a0

IrSpec == IrInit /\ [][IrNext]_irVars

-----------------------------------------------------------------------------
(* The edge that was served last is the one before edge. *)
Served(e) == ~ifg /\ edge = e + 1 /\ 1 .. e \subseteq received
WholeSoFar == whole = repetition

(* Every message that is received whole puts exactly its command, whatever *)
(* was received of the frames before it and wherever they broke off: the   *)
(* decoder always finds back to the start of a message.                    *)
DecodesMessages == repetition = 0 /\ Served(34) => out = button

(* Nothing is put but the command whose button is being pressed, at the end *)
(* of its message or in one of its repetitions, and only if its message    *)
(* has been received whole: no part of a frame, and no command of an       *)
(* earlier press, ever moves the robot.                                    *)
PutsOnlyWhatIsSent ==
    out # NoCmd =>
        /\ out = button
        /\ IF repetition = 0 THEN edge = 35 /\ received = 1 .. 34 ELSE whole > 0

(* As long as a held button is received without a gap, its command is put  *)
(* again in each repetition from the second on, once.                      *)
RepeatsWhileHeld ==
    WholeSoFar /\ repetition > 0 =>
        /\ Served(1) => out = IF repetition = 1 THEN NoCmd ELSE button
        /\ Served(2) => out = NoCmd

=============================================================================
