-------------------------------- MODULE Uart --------------------------------
(***************************************************************************)
(* drivers/uart.c: the trace is sent from the ring buffer by an interrupt, *)
(* a byte per interrupt, while _putchar fills it; a failed ASSERT reports  *)
(* itself over the same peripheral without either. The peripheral moves    *)
(* TXBUF to its shift register, which sets the interrupt flag, and shifts  *)
(* it out on its own time. The byte under way stays in the buffer until    *)
(* the interrupt: a buffer that is not empty means a transmission goes on. *)
(***************************************************************************)
EXTENDS RingBuffer, SequencesExt

CONSTANTS Chars,       \* characters that are traced
          LF, CR,
          AssertText,  \* what assert_trace prints
          MaxTraced    \* bytes to put into the buffer

ASSUME CharsAssumption == Chars \cup {LF, CR} \cup Range(AssertText) \subseteq Data
ASSUME MaxTracedAssumption == MaxTraced \in Nat

VARIABLES txbuf, shift,   \* UCA0TXBUF and the shift register: at most one byte each
          TXIFG, TXIE,    \* interrupt flag and interrupt enable
          wire,           \* the bytes sent
          pc, todo,       \* of the main program; the bytes its call has still to put
          isr,            \* of isr_uart_tx, "none" when it does not run
          traced          \* the bytes put into the buffer

usci == <<txbuf, shift, TXIFG, TXIE, wire>>
uartVars == <<rbVars, usci, pc, todo, isr, traced>>

Garbled == "garbled"

(* A line feed is preceded by a carriage return. *)
Expanded(c) == IF c = LF THEN <<CR, LF>> ELSE <<c>>
ExpandedText == FlattenSeq([i \in DOMAIN AssertText |-> Expanded(AssertText[i])])

-----------------------------------------------------------------------------
(* The peripheral. *)
WriteTxbuf(byte) == txbuf' = <<byte>> /\ TXIFG' = FALSE

TxbufToShift ==
    /\ txbuf # << >> /\ shift = << >>
    /\ shift' = txbuf /\ txbuf' = << >>
    /\ TXIFG' = TRUE
    /\ UNCHANGED <<rbVars, TXIE, wire, pc, todo, isr, traced>>

ShiftedOut ==
    /\ shift # << >>
    /\ wire' = wire \o shift
    /\ shift' = << >>
    /\ UNCHANGED <<rbVars, txbuf, TXIFG, TXIE, pc, todo, isr, traced>>

-----------------------------------------------------------------------------
(* isr_uart_tx. An ASSERT_INTERRUPT that fails spins for ever. *)
IsrGet ==
    /\ isr = "none" /\ TXIE /\ TXIFG
    /\ IF ring_buffer_empty THEN isr' = "stuck" /\ UNCHANGED rbVars
                            ELSE isr' = "clear" /\ ring_buffer_get
    /\ UNCHANGED <<usci, pc, todo, traced>>

(* Mutant: the flag is cleared after the next byte has been written. *)
IsrClear_last ==
    /\ \/ /\ isr = "clear" /\ isr' = "clear_last"
          /\ IF ring_buffer_empty THEN UNCHANGED <<txbuf, TXIFG>>
                                  ELSE WriteTxbuf(ring_buffer_peek_tail)
       \/ /\ isr = "clear_last" /\ isr' = "none"
          /\ TXIFG' = FALSE /\ UNCHANGED txbuf
    /\ UNCHANGED <<rbVars, shift, TXIE, wire, pc, todo, traced>>

IsrClear ==
    /\ isr = "clear"
    /\ isr' = IF ring_buffer_empty THEN "none" ELSE "start"
    /\ TXIFG' = FALSE
    /\ UNCHANGED <<rbVars, txbuf, shift, TXIE, wire, pc, todo, traced>>

IsrStart ==
    /\ isr = "start"
    /\ isr' = "none"
    /\ WriteTxbuf(ring_buffer_peek_tail)
    /\ UNCHANGED <<rbVars, shift, TXIE, wire, pc, todo, traced>>

isr_uart_tx == IsrGet \/ IsrClear \/ IsrStart

-----------------------------------------------------------------------------
(* The main program, which runs when the interrupt does not. *)
Goto(from, to) == isr = "none" /\ pc = from /\ pc' = to

(* Mutant: the flag that is set after a reset stays set. *)
uart_init_flag_kept ==
    /\ Goto("boot", "idle")
    /\ TXIE' = TRUE
    /\ UNCHANGED <<rbVars, txbuf, shift, TXIFG, wire, todo, isr, traced>>

uart_init ==
    /\ Goto("boot", "idle")
    /\ TXIFG' = FALSE /\ TXIE' = TRUE
    /\ UNCHANGED <<rbVars, txbuf, shift, wire, todo, isr, traced>>

(* _putchar, called by the formatting of trace. *)
Putchar(c) ==
    /\ Goto("idle", "poll")
    /\ Len(traced \o Expanded(c)) <= MaxTraced
    /\ todo' = Expanded(c)
    /\ UNCHANGED <<rbVars, usci, isr, traced>>

PollNotFull ==
    /\ Goto("poll", "mask")
    /\ ~full
    /\ UNCHANGED <<rbVars, usci, todo, isr, traced>>

DisableInterrupt ==
    /\ Goto("mask", "put")
    /\ TXIE' = FALSE
    /\ UNCHANGED <<rbVars, txbuf, shift, TXIFG, wire, todo, isr, traced>>

(* Mutant: a transmission is started whether or not one is under way. *)
TxOngoing_never == FALSE

TxOngoing == ~ring_buffer_empty

Put ==
    /\ Goto("put", IF TxOngoing THEN "enable" ELSE "start")
    /\ ring_buffer_put(Head(todo))
    /\ traced' = Append(traced, Head(todo))
    /\ UNCHANGED <<usci, todo, isr>>

uart_tx_start ==
    /\ Goto("start", "enable")
    /\ WriteTxbuf(ring_buffer_peek_tail)
    /\ UNCHANGED <<rbVars, shift, TXIE, wire, todo, isr, traced>>

EnableInterrupt ==
    /\ Goto("enable", IF Len(todo) = 1 THEN "idle" ELSE "poll")
    /\ TXIE' = TRUE
    /\ todo' = Tail(todo)
    /\ UNCHANGED <<rbVars, txbuf, shift, TXIFG, wire, isr, traced>>

_putchar ==
    \/ \E c \in Chars : Putchar(c)
    \/ PollNotFull \/ DisableInterrupt \/ Put \/ uart_tx_start \/ EnableInterrupt

-----------------------------------------------------------------------------
(* assert_trace, from any ASSERT of the main program, also one before      *)
(* uart_init: what the trace has not sent stays unsent. uart_configure     *)
(* means to reset the peripheral but keeps its reset bit as it is, clear   *)
(* since uart_init: a byte that is being shifted out while clock and baud  *)
(* rate are written again may be garbled.                                  *)
uart_init_assert ==
    /\ isr = "none" /\ pc \in {"boot", "idle"} /\ pc' = "report"
    /\ TXIE' = FALSE
    /\ shift' \in {shift} \cup (IF shift = << >> THEN {} ELSE {<<Garbled>>})
    /\ todo' = ExpandedText
    /\ UNCHANGED <<rbVars, txbuf, TXIFG, wire, isr, traced>>

(* uart_putchar_polling writes first, over a byte that waits in TXBUF. *)
ReportChar ==
    /\ Goto("report", "await")
    /\ WriteTxbuf(Head(todo))
    /\ todo' = Tail(todo)
    /\ UNCHANGED <<rbVars, shift, TXIE, wire, isr, traced>>

(* Mutant: the next character does not wait for the one before. *)
AwaitFlag_not ==
    /\ Goto("await", IF todo = << >> THEN "halted" ELSE "report")
    /\ UNCHANGED <<rbVars, usci, todo, isr, traced>>

AwaitFlag ==
    /\ Goto("await", IF todo = << >> THEN "halted" ELSE "report")
    /\ TXIFG
    /\ UNCHANGED <<rbVars, usci, todo, isr, traced>>

uart_trace_assert == ReportChar \/ AwaitFlag

Main == uart_init \/ _putchar \/ uart_trace_assert

UartInit ==
    /\ RBInit
    /\ txbuf = << >> /\ shift = << >>
    /\ TXIFG = TRUE /\ TXIE = FALSE
    /\ wire = << >>
    /\ pc = "boot" /\ todo = << >>
    /\ isr = "none"
    /\ traced = << >>

UartNext == Main \/ uart_init_assert \/ isr_uart_tx \/ TxbufToShift \/ ShiftedOut

(* The program goes on, the interrupt is served and the peripheral sends;  *)
(* nothing says that an ASSERT fails.                                      *)
UartSpec ==
    /\ UartInit /\ [][UartNext]_uartVars
    /\ WF_uartVars(Main)
    /\ WF_uartVars(isr_uart_tx)
    /\ WF_uartVars(TxbufToShift)
    /\ WF_uartVars(ShiftedOut)

-----------------------------------------------------------------------------
OnItsWay == wire \o shift \o txbuf
Reporting == pc \in {"report", "await", "halted"}

(* The bytes traced are sent in their order, none lost and none twice: at  *)
(* any moment they are those handed to the peripheral followed by those in *)
(* the buffer, of which the oldest counts as handed over from the start of *)
(* its transmission to its interrupt.                                      *)
SentInOrder ==
    ~Reporting =>
        traced = OnItsWay \o (IF isr = "none" /\ pc # "start" /\ Contents # << >>
                              THEN Tail(Contents) ELSE Contents)

(* No interrupt finds the buffer empty: the ASSERT_INTERRUPT of isr_uart_tx, *)
(* which would stop the robot with its motors running, never fails.        *)
InterruptFindsByte == isr # "stuck"

(* Everything that is traced is sent, unless an ASSERT fails, so a _putchar *)
(* that polls a full buffer returns and the main loop goes on.             *)
EverythingIsSent ==
    \A n \in 1 .. MaxTraced : Len(traced) >= n ~> Len(wire) >= n \/ Reporting

(* A failed ASSERT is reported: its whole text is sent, after some of the  *)
(* trace, of which at most one byte is garbled.                            *)
AssertIsReported ==
    pc = "report" ~>
        \E n \in 0 .. Len(traced), g \in 0 .. Len(traced) :
            wire = [i \in 1 .. n |-> IF i = g THEN Garbled ELSE traced[i]] \o ExpandedText

=============================================================================
