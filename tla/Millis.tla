------------------------------- MODULE Millis -------------------------------
(***************************************************************************)
(* drivers/millis.c at the grain of the machine: the 32-bit counter is two *)
(* words of a 16-bit processor, which the watchdog interrupt increments    *)
(* and millis() reads one after the other. millis() masks the interrupt    *)
(* meanwhile; a tick that comes then stays pending in WDTIFG.              *)
(***************************************************************************)
EXTENDS Naturals

CONSTANTS WORD,    \* values of a word, 2^16 in the code
          UPTIME   \* ticks of half a millisecond to model

ASSUME WordAssumption == WORD \in Nat \ {0, 1}
ASSUME UptimeAssumption == UPTIME \in Nat /\ UPTIME < WORD * WORD

VARIABLES cnt_lo, cnt_hi,  \* watchdog_interrupt_cnt
          WDTIE, WDTIFG,   \* interrupt enable and interrupt pending
          pc,              \* of millis()
          copy_lo, copy_hi,
          last,            \* what the last call of millis() returned
          now              \* ticks since boot

vars == <<cnt_lo, cnt_hi, WDTIE, WDTIFG, pc, copy_lo, copy_hi, last, now>>

Value(hi, lo) == hi * WORD + lo

(* The hardware ticks. The masked section takes far less than half a       *)
(* millisecond, so a tick never finds the one before it still pending.     *)
Tick ==
    /\ now < UPTIME
    /\ ~WDTIFG
    /\ WDTIFG' = TRUE
    /\ now' = now + 1
    /\ UNCHANGED <<cnt_lo, cnt_hi, WDTIE, pc, copy_lo, copy_hi, last>>

isr_watchdog ==
    /\ WDTIE /\ WDTIFG
    /\ WDTIFG' = FALSE
    /\ IF cnt_lo = WORD - 1 THEN cnt_lo' = 0 /\ cnt_hi' = (cnt_hi + 1) % WORD
                            ELSE cnt_lo' = cnt_lo + 1 /\ UNCHANGED cnt_hi
    /\ UNCHANGED <<WDTIE, pc, copy_lo, copy_hi, last, now>>

(* Mutant: the counter is read with the interrupt enabled. *)
Mask_forgotten ==
    /\ pc = "idle"
    /\ pc' = "read_lo"
    /\ UNCHANGED <<cnt_lo, cnt_hi, WDTIE, WDTIFG, copy_lo, copy_hi, last, now>>

Mask ==
    /\ pc = "idle"
    /\ pc' = "read_lo"
    /\ WDTIE' = FALSE
    /\ UNCHANGED <<cnt_lo, cnt_hi, WDTIFG, copy_lo, copy_hi, last, now>>

ReadLo ==
    /\ pc = "read_lo"
    /\ pc' = "read_hi"
    /\ copy_lo' = cnt_lo
    /\ UNCHANGED <<cnt_lo, cnt_hi, WDTIE, WDTIFG, copy_hi, last, now>>

ReadHi ==
    /\ pc = "read_hi"
    /\ pc' = "unmask"
    /\ copy_hi' = cnt_hi
    /\ UNCHANGED <<cnt_lo, cnt_hi, WDTIE, WDTIFG, copy_lo, last, now>>

(* Mutant: the interrupt stays masked after the call. *)
Unmask_forgotten ==
    /\ pc = "unmask"
    /\ pc' = "idle"
    /\ last' = Value(copy_hi, copy_lo) \div 2
    /\ UNCHANGED <<cnt_lo, cnt_hi, WDTIE, WDTIFG, copy_lo, copy_hi, now>>

Unmask ==
    /\ pc = "unmask"
    /\ pc' = "idle"
    /\ WDTIE' = TRUE
    /\ last' = Value(copy_hi, copy_lo) \div 2
    /\ UNCHANGED <<cnt_lo, cnt_hi, WDTIFG, copy_lo, copy_hi, now>>

Init ==
    /\ cnt_lo = 0 /\ cnt_hi = 0
    /\ WDTIE = TRUE /\ WDTIFG = FALSE
    /\ pc = "idle"
    /\ copy_lo = 0 /\ copy_hi = 0
    /\ last = 0
    /\ now = 0

millis == Mask \/ ReadLo \/ ReadHi \/ Unmask

Next == Tick \/ isr_watchdog \/ millis

Spec == Init /\ [][Next]_vars

-----------------------------------------------------------------------------
(* millis() never returns a mixture of two values of the counter: what it  *)
(* is about to return is the counter, which is at most a tick behind time. *)
NoTornRead ==
    /\ pc = "unmask" => Value(copy_hi, copy_lo) = Value(cnt_hi, cnt_lo)
    /\ now - Value(cnt_hi, cnt_lo) \in {0, 1}

(* No tick is lost: one that came while the interrupt was masked is counted *)
(* in the end.                                                             *)
EveryTickCounted == \A t \in 0 .. UPTIME : now >= t ~> Value(cnt_hi, cnt_lo) >= t

=============================================================================
