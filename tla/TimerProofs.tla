----------------------------- MODULE TimerProofs -----------------------------
(***************************************************************************)
(* Proofs about Timer for counters of every width. The timer is right as   *)
(* long as the counter has not wrapped (24.8 days for 2^32 half            *)
(* milliseconds) and no timeout is longer than what millis() can reach.    *)
(***************************************************************************)
EXTENDS Timer, TLAPS

(* The uptime and the timeouts for which the deadline fits the counter.    *)
NoWrap == UPTIME < COUNTER_RANGE /\ Timeouts \subseteq 1 .. COUNTER_RANGE \div 2

(* Without a wrap the counter is the time, and the deadline is the exact   *)
(* sum of the time of the start and the timeout.                           *)
DeadlineInv ==
    /\ watchdog_interrupt_cnt \in Nat /\ now \in Nat /\ now <= UPTIME
    /\ timer \in Nat /\ started_at \in Nat /\ started_at <= now
    /\ timeout \in Nat
    /\ watchdog_interrupt_cnt = now
    /\ timer # TIMER_CLEARED => timer = started_at \div 2 + timeout

LEMMA InitInv == Init => DeadlineInv
BY UptimeAssumption DEF Init, DeadlineInv, TIMER_CLEARED

LEMMA StepInv ==
    ASSUME NoWrap, DeadlineInv, [Next]_vars
    PROVE  DeadlineInv'
<1> USE NoWrap, DeadlineInv, RangeAssumption, UptimeAssumption DEF DeadlineInv, TIMER_CLEARED
<1>1. CASE isr_watchdog
  <2>1. now + 1 < COUNTER_RANGE
    BY <1>1 DEF isr_watchdog, NoWrap
  <2>2. watchdog_interrupt_cnt' = now + 1
    BY <1>1, <2>1 DEF isr_watchdog
  <2>3. QED
    BY <1>1, <2>2 DEF isr_watchdog
<1>2. ASSUME NEW t \in Timeouts, timer_start(t)
      PROVE  DeadlineInv'
  <2>1. millis + t \in 0 .. COUNTER_RANGE - 1
    BY DEF millis, NoWrap
  <2>2. timer' = now \div 2 + t
    BY <1>2, <2>1 DEF timer_start, millis
  <2>3. QED
    BY <1>2, <2>2 DEF timer_start, NoWrap
<1>3. CASE timer_clear
  BY <1>3 DEF timer_clear
<1>4. CASE UNCHANGED vars
  BY <1>4 DEF vars
<1>5. QED
  BY <1>1, <1>2, <1>3, <1>4 DEF Next

LEMMA Invariance == NoWrap => (Spec => []DeadlineInv)
<1>1. NoWrap /\ DeadlineInv /\ [Next]_vars => DeadlineInv'
  BY StepInv
<1>2. SUFFICES ASSUME NoWrap PROVE Spec => []DeadlineInv
  OBVIOUS
<1>3. DeadlineInv /\ [Next]_vars => DeadlineInv'
  BY <1>1, <1>2
<1>4. QED
  BY InitInv, <1>3, PTL DEF Spec

(* A timer never reports its timeout early.                                *)
THEOREM TimerNeverEarly == NoWrap => (Spec => []NeverEarly)
<1> SUFFICES ASSUME NoWrap
             PROVE  Spec => []NeverEarly
  OBVIOUS
<1>1. DeadlineInv => NeverEarly
  BY DEF DeadlineInv, NeverEarly, timer_timeout, millis, TIMER_CLEARED
<1>2. Spec => []DeadlineInv
  BY Invariance
<1>3. QED
  BY <1>1, <1>2, PTL

(* An armed timer reports its timeout a millisecond after it at the        *)
(* latest, and goes on doing so.                                           *)
THEOREM TimerNeverLate == NoWrap => (Spec => []NeverLate)
<1> SUFFICES ASSUME NoWrap
             PROVE  Spec => []NeverLate
  OBVIOUS
<1>1. DeadlineInv => NeverLate
  BY DEF DeadlineInv, NeverLate, Armed, timer_timeout, millis, TIMER_CLEARED
<1>2. Spec => []DeadlineInv
  BY Invariance
<1>3. QED
  BY <1>1, <1>2, PTL

=============================================================================
