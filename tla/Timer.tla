------------------------------- MODULE Timer -------------------------------
(***************************************************************************)
(* app/timer.c over drivers/millis.c. The watchdog interrupt counts half   *)
(* milliseconds in an unsigned counter of COUNTER_RANGE values (2^32 in    *)
(* the code), millis() halves it, and a timer holds the value of millis()  *)
(* at which it expires, 0 meaning cleared. The actual time is kept beside  *)
(* the counter so that the properties can speak of it.                     *)
(***************************************************************************)
EXTENDS Naturals

CONSTANTS COUNTER_RANGE,  \* 2^w for counters of w bits
          Timeouts,       \* the timeouts a client may ask for, in ms
          UPTIME          \* bound on the time modelled, in half ms

ASSUME RangeAssumption == COUNTER_RANGE \in Nat \ {0} /\ COUNTER_RANGE % 2 = 0
ASSUME TimeoutsAssumption == Timeouts \subseteq 1 .. COUNTER_RANGE - 1
ASSUME UptimeAssumption == UPTIME \in Nat

VARIABLES watchdog_interrupt_cnt,
          timer,       \* the timer_t of the client
          now,         \* half milliseconds since boot
          started_at,  \* now at the last timer_start
          timeout      \* the timeout of the last timer_start

vars == <<watchdog_interrupt_cnt, timer, now, started_at, timeout>>

TIMER_CLEARED == 0

millis == watchdog_interrupt_cnt \div 2

(* Mutant: the timer is over as soon as its last millisecond begins. *)
timer_timeout_not_strict == timer # TIMER_CLEARED /\ millis >= timer

timer_timeout == timer # TIMER_CLEARED /\ millis > timer

isr_watchdog ==
    /\ now < UPTIME
    /\ now' = now + 1
    /\ watchdog_interrupt_cnt' = (watchdog_interrupt_cnt + 1) % COUNTER_RANGE
    /\ UNCHANGED <<timer, started_at, timeout>>

(* Mutant: the deadline counts from the one before. *)
timer_start_from_deadline(timeout_ms) ==
    /\ timer' = (timer + timeout_ms) % COUNTER_RANGE
    /\ started_at' = now
    /\ timeout' = timeout_ms
    /\ UNCHANGED <<watchdog_interrupt_cnt, now>>

timer_start(timeout_ms) ==
    /\ timer' = (millis + timeout_ms) % COUNTER_RANGE
    /\ started_at' = now
    /\ timeout' = timeout_ms
    /\ UNCHANGED <<watchdog_interrupt_cnt, now>>

(* Clients clear a timer that is over, and one they no longer need. *)
timer_clear ==
    /\ timer # TIMER_CLEARED
    /\ timer' = TIMER_CLEARED
    /\ UNCHANGED <<watchdog_interrupt_cnt, now, started_at, timeout>>

Init ==
    /\ watchdog_interrupt_cnt = 0
    /\ timer = TIMER_CLEARED
    /\ now = 0
    /\ started_at = 0
    /\ timeout = 0

Next == isr_watchdog \/ timer_clear \/ \E t \in Timeouts : timer_start(t)

Spec == Init /\ [][Next]_vars

-----------------------------------------------------------------------------
Armed == timer # TIMER_CLEARED

(* A timer never fires before its timeout has passed in actual time.       *)
NeverEarly == timer_timeout => now - started_at > 2 * timeout

(* A timer that is not cleared reports the timeout from one millisecond    *)
(* after it at the latest, and goes on reporting it.                       *)
NeverLate == Armed /\ now - started_at >= 2 * timeout + 2 => timer_timeout

=============================================================================
