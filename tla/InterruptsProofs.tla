-------------------------- MODULE InterruptsProofs --------------------------
(***************************************************************************)
(* Proofs about Interrupts, for words of any width and sensors on any      *)
(* channels: the two functions that keep interrupts off read what they     *)
(* mean to read. Each proof is about one of the two functions and carries  *)
(* the other along only as far as both share the processor.                *)
(***************************************************************************)
EXTENDS Interrupts, TLAPS

(***************************************************************************)
(* millis(). The counter is the number of ticks served, and does not wrap  *)
(* within UPTIME; at most one tick waits. Between its two reads millis()   *)
(* keeps the interrupt masked, so that what it has copied still stands.    *)
(***************************************************************************)
MillisTypeOK ==
    /\ cnt_lo \in 0 .. WORD - 1 /\ cnt_hi \in 0 .. WORD - 1
    /\ pc \in {"idle", "read_lo", "read_hi", "unmask"}
    /\ copy_lo \in 0 .. WORD - 1 /\ copy_hi \in 0 .. WORD - 1
    /\ now \in 0 .. UPTIME

CounterInv == now = Value(cnt_hi, cnt_lo) + (IF WDTIFG THEN 1 ELSE 0)

CopyInv ==
    /\ pc # "idle" => ~WDTIE
    /\ pc \in {"read_hi", "unmask"} => copy_lo = cnt_lo
    /\ pc = "unmask" => copy_hi = cnt_hi

MillisInv == MillisTypeOK /\ CounterInv /\ CopyInv

LEMMA Bounds == WORD \in Nat /\ WORD > 1 /\ UPTIME \in Nat
BY WordAssumption, UptimeAssumption

LEMMA MillisInit == InterruptsInit => MillisInv
<1>1. Value(0, 0) = 0
  BY WordAssumption DEF Value
<1>2. InterruptsInit => MillisTypeOK
  BY Bounds DEF InterruptsInit, Init, MillisTypeOK
<1>3. InterruptsInit => CounterInv
  BY <1>1 DEF InterruptsInit, Init, CounterInv
<1>4. InterruptsInit => CopyInv
  BY DEF InterruptsInit, Init, CopyInv
<1>5. QED
  BY <1>2, <1>3, <1>4 DEF MillisInv

(* An increment carries into the high word, and does not leave the range   *)
(* of the counter as long as the uptime is in it.                          *)
LEMMA Increment ==
    ASSUME NEW lo \in 0 .. WORD - 1, NEW hi \in 0 .. WORD - 1, Value(hi, lo) + 1 <= UPTIME
    PROVE  lo = WORD - 1 =>
               (hi + 1) % WORD = hi + 1 /\ hi + 1 < WORD /\ Value(hi + 1, 0) = Value(hi, lo) + 1
<1> SUFFICES ASSUME lo = WORD - 1
             PROVE  (hi + 1) % WORD = hi + 1 /\ hi + 1 < WORD
                    /\ Value(hi + 1, 0) = Value(hi, lo) + 1
  OBVIOUS
<1>1. Value(hi + 1, 0) = Value(hi, lo) + 1
  BY WordAssumption DEF Value
<1>2. hi + 1 < WORD
  <2>1. Value(hi + 1, 0) < WORD * WORD
    BY <1>1, WordAssumption, UptimeAssumption DEF Value
  <2>2. hi + 1 = WORD => Value(hi + 1, 0) = WORD * WORD
    BY WordAssumption DEF Value
  <2>3. QED
    BY <2>1, <2>2, WordAssumption
<1>3. QED
  BY <1>1, <1>2, WordAssumption

LEMMA MillisStep == MillisInv /\ [InterruptsNext]_allVars => MillisInv'
<1> SUFFICES ASSUME MillisInv, [InterruptsNext]_allVars
             PROVE  MillisInv'
  OBVIOUS
<1> USE Bounds DEF MillisInv, MillisTypeOK
<1>1. CASE Tick
  BY <1>1 DEF Tick, CounterInv, CopyInv, Value
<1>2. CASE isr_watchdog
  <2>1. WDTIE /\ WDTIFG /\ ~WDTIFG' /\ UNCHANGED <<WDTIE, pc, copy_lo, copy_hi, last, now>>
    BY <1>2 DEF isr_watchdog
  <2>2. Value(cnt_hi, cnt_lo) \in Nat /\ Value(cnt_hi, cnt_lo) + 1 = now
    BY <2>1 DEF CounterInv, Value
  <2>3. /\ cnt_lo' \in 0 .. WORD - 1 /\ cnt_hi' \in 0 .. WORD - 1
        /\ Value(cnt_hi', cnt_lo') = now
    <3>1. CASE cnt_lo = WORD - 1
      BY <1>2, <2>2, <3>1, Increment DEF isr_watchdog
    <3>2. CASE cnt_lo # WORD - 1
      BY <1>2, <2>2, <3>2 DEF isr_watchdog, Value
    <3>3. QED
      BY <3>1, <3>2
  <2>4. pc = "idle"
    BY <2>1 DEF CopyInv
  <2>5. MillisTypeOK'
    BY <2>1, <2>3, <2>4
  <2>6. CounterInv'
    BY <2>1, <2>3 DEF CounterInv
  <2>7. CopyInv'
    BY <2>1, <2>3, <2>4 DEF CopyInv
  <2>8. QED
    BY <2>5, <2>6, <2>7
<1>3. CASE millis
  <2>1. CASE Mask
    BY <2>1 DEF Mask, CounterInv, CopyInv, Value
  <2>2. CASE ReadLo
    BY <2>2 DEF ReadLo, CounterInv, CopyInv, Value
  <2>3. CASE ReadHi
    BY <2>3 DEF ReadHi, CounterInv, CopyInv, Value
  <2>4. CASE Unmask
    BY <2>4 DEF Unmask, CounterInv, CopyInv, Value
  <2>5. QED
    BY <1>3, <2>1, <2>2, <2>3, <2>4 DEF millis
<1>4. CASE UNCHANGED vars
  BY <1>4 DEF vars, CounterInv, CopyInv, Value
<1>5. QED
  BY <1>1, <1>2, <1>3, <1>4
  DEF InterruptsNext, MainMillis, MainAdc, Watchdog, Adc10, Hardware, allVars

(* millis() never mixes two values of the counter, and the counter is at   *)
(* most one tick behind time, for words of any width.                      *)
THEOREM ReadsAreNotTorn == InterruptsSpec => []NoTornRead
<1>1. MillisInv => NoTornRead
  BY WordAssumption DEF MillisInv, MillisTypeOK, CounterInv, CopyInv, NoTornRead, Value
<1>2. QED
  BY MillisInit, MillisStep, <1>1, PTL DEF InterruptsSpec

-----------------------------------------------------------------------------
(***************************************************************************)
(* adc_get_channel_values. The converter has written the first samples of  *)
(* the round under way to its block; it stands still from the end of a     *)
(* round to the end of the interrupt. Outside the interrupt the cache is   *)
(* all of the round before, and a call keeps the interrupt off.            *)
(***************************************************************************)
Sample == {NoSample} \cup (Channels \X Nat)

(* What the cache holds of a channel between two interrupts. *)
Cached(c) == IF round = 0 THEN NoSample ELSE <<c, round - 1>>

AdcTypeOK ==
    /\ round \in Nat /\ sampled \in 0 .. dtc_channel_cnt
    /\ adc_dtc_block \in [Channels -> Sample]
    /\ adc_dtc_block_cache \in [Channels -> Sample]
    /\ isr_i \in 0 .. dtc_channel_cnt
    /\ adc_pc \in {"idle", "copy", "enable"}
    /\ adc_i \in 1 .. Len(adc_pins)
    /\ values \in [Channels -> Sample]

BlockInv == \A i \in 0 .. sampled - 1 : adc_dtc_block[i] = <<dtc_channel_cnt - 1 - i, round>>

RoundInv ==
    /\ ADC10IFG \/ in_isr => sampled = dtc_channel_cnt
    /\ ADC10IFG => ~in_isr

CacheInv ==
    /\ in_isr => \A c \in 0 .. isr_i - 1 : adc_dtc_block_cache[c] = <<c, round>>
    /\ ~in_isr => \A c \in Channels : adc_dtc_block_cache[c] = Cached(c)

CallInv ==
    /\ adc_pc # "idle" => ~GIE /\ ~in_isr
    /\ adc_pc = "copy" => \A j \in 1 .. adc_i - 1 : values[adc_pins[j]] = Cached(adc_pins[j])
    /\ adc_pc = "enable" =>
           \A j \in 1 .. Len(adc_pins) : values[adc_pins[j]] = Cached(adc_pins[j])

AdcInv == AdcTypeOK /\ BlockInv /\ RoundInv /\ CacheInv /\ CallInv

(* The channels go from 0 to the last pin's. *)
LEMMA PinsAreChannels ==
    /\ Len(adc_pins) \in Nat \ {0}
    /\ dtc_channel_cnt \in Nat \ {0}
    /\ \A j \in 1 .. Len(adc_pins) : adc_pins[j] \in Channels
<1> DEFINE S == ToSet(adc_pins)
<1>1. Len(adc_pins) \in Nat \ {0} /\ \A j \in 1 .. Len(adc_pins) : adc_pins[j] \in 0 .. 7
  BY AdcPinsAssumption
<1>2. S = {adc_pins[j] : j \in 1 .. Len(adc_pins)}
  BY AdcPinsAssumption DEF ToSet
<1>3. S \subseteq 0 .. 7 /\ S # {}
  BY <1>1, <1>2
<1>4. \E m \in S : \A y \in S : m >= y
  <2> HIDE DEF S
  <2>1. SUFFICES ASSUME \A m \in S : \E y \in S : y > m
                 PROVE  FALSE
    BY <1>3
  <2>2. ASSUME NEW n \in 0 .. 7, \A y \in S : y <= n
        PROVE  \A y \in S : y <= n - 1
    BY <1>3, <2>1, <2>2
  <2>3. \A y \in S : y <= 3
    BY <1>3, <2>2
  <2>4. \A y \in S : y < 0
    BY <1>3, <2>2, <2>3
  <2>5. PICK y \in S : y \in 0 .. 7
    BY <1>3
  <2>6. QED
    BY <2>4, <2>5
<1>5. Max(S) \in S /\ \A y \in S : Max(S) >= y
  BY <1>4 DEF Max
<1>6. QED
  BY <1>1, <1>2, <1>3, <1>5 DEF dtc_channel_cnt, Channels

LEMMA AdcInitInv == InterruptsInit => AdcInv
BY PinsAreChannels
DEF InterruptsInit, AdcInit, AdcInv, AdcTypeOK, BlockInv, RoundInv, CacheInv, CallInv, Cached,
    Sample, Channels

LEMMA AdcStep == AdcInv /\ [InterruptsNext]_allVars => AdcInv'
<1> SUFFICES ASSUME AdcInv, [InterruptsNext]_allVars
             PROVE  AdcInv'
  OBVIOUS
<1> USE PinsAreChannels DEF AdcInv, AdcTypeOK
<1>1. CASE Convert
  <2>1. /\ sampled < dtc_channel_cnt /\ ~ADC10IFG /\ ~in_isr
        /\ sampled' = sampled + 1
        /\ adc_dtc_block' = [adc_dtc_block EXCEPT ![sampled] = <<dtc_channel_cnt - 1 - sampled, round>>]
        /\ ADC10IFG' = (sampled' = dtc_channel_cnt)
        /\ UNCHANGED <<round, adc_dtc_block_cache, isr, GIE, call>>
    BY <1>1 DEF Convert, RoundInv
  <2>2. <<dtc_channel_cnt - 1 - sampled, round>> \in Sample
    BY <2>1 DEF Sample, Channels
  <2>3. AdcTypeOK'
    BY <2>1, <2>2 DEF isr, call, Channels
  <2>4. BlockInv'
    BY <2>1 DEF BlockInv, Channels
  <2>5. RoundInv' /\ CacheInv' /\ CallInv'
    BY <2>1 DEF RoundInv, CacheInv, CallInv, Cached, isr, call
  <2>6. QED
    BY <2>3, <2>4, <2>5
<1>2. CASE EnterIsr
  <2>1. /\ GIE /\ ADC10IFG /\ ~ADC10IFG' /\ in_isr' /\ isr_i' = 0
        /\ UNCHANGED <<dtc, adc_dtc_block_cache, GIE, call>>
    BY <1>2 DEF EnterIsr
  <2>2. QED
    BY <2>1 DEF BlockInv, RoundInv, CacheInv, CallInv, dtc, call
<1>3. CASE CopyToCache
  <2>1. /\ in_isr /\ isr_i < dtc_channel_cnt /\ isr_i' = isr_i + 1
        /\ adc_dtc_block_cache' = [adc_dtc_block_cache EXCEPT
                                     ![isr_i] = adc_dtc_block[dtc_channel_cnt - 1 - isr_i]]
        /\ UNCHANGED <<dtc, ADC10IFG, in_isr, GIE, call>>
    BY <1>3 DEF CopyToCache
  <2>2. sampled = dtc_channel_cnt /\ ~ADC10IFG /\ adc_pc = "idle"
    BY <2>1 DEF RoundInv, CallInv
  <2>3. adc_dtc_block[dtc_channel_cnt - 1 - isr_i] = <<isr_i, round>>
    BY <2>1, <2>2 DEF BlockInv
  <2>4. AdcTypeOK'
    BY <2>1 DEF dtc, call, Channels
  <2>5. CacheInv'
    BY <2>1, <2>3 DEF CacheInv, Channels, dtc
  <2>6. BlockInv' /\ RoundInv' /\ CallInv'
    BY <2>1, <2>2 DEF BlockInv, RoundInv, CallInv, dtc, call
  <2>7. QED
    BY <2>4, <2>5, <2>6
<1>4. CASE StartConversion
  <2>1. /\ in_isr /\ isr_i = dtc_channel_cnt /\ ~in_isr'
        /\ round' = round + 1 /\ sampled' = 0
        /\ UNCHANGED <<adc_dtc_block, adc_dtc_block_cache, ADC10IFG, isr_i, GIE, call>>
    BY <1>4 DEF StartConversion
  <2>2. ~ADC10IFG /\ adc_pc = "idle"
    BY <2>1 DEF RoundInv, CallInv
  <2>3. round' # 0 /\ round' - 1 = round
    BY <2>1
  <2>4. CacheInv'
    BY <2>1, <2>3 DEF CacheInv, Cached, Channels
  <2>5. QED
    BY <2>1, <2>2, <2>4 DEF BlockInv, RoundInv, CallInv, call
<1>5. CASE adc_get_channel_values
  <2>1. CASE DisableInterrupts
    BY <2>1 DEF DisableInterrupts, NoIsr, BlockInv, RoundInv, CacheInv, CallInv, Cached, dtc, isr,
                Sample
  <2>2. CASE CopyFromCache
    <3>1. /\ ~in_isr /\ adc_pc = "copy" /\ ~GIE
          /\ UNCHANGED <<dtc, adc_dtc_block_cache, ADC10IFG, isr, GIE>>
          /\ values' = [values EXCEPT ![adc_pins[adc_i]] = adc_dtc_block_cache[adc_pins[adc_i]]]
          /\ \/ adc_i = Len(adc_pins) /\ adc_pc' = "enable" /\ adc_i' = adc_i
             \/ adc_i < Len(adc_pins) /\ adc_pc' = "copy" /\ adc_i' = adc_i + 1
      BY <2>2 DEF CopyFromCache, NoIsr, CallInv
    <3>2. adc_dtc_block_cache[adc_pins[adc_i]] = Cached(adc_pins[adc_i])
      BY <3>1 DEF CacheInv
    <3>3. \A j \in 1 .. adc_i : values'[adc_pins[j]] = Cached(adc_pins[j])
      BY <3>1, <3>2 DEF CallInv
    <3>4. AdcTypeOK'
      BY <3>1 DEF dtc, isr
    <3>5. BlockInv' /\ RoundInv' /\ CacheInv'
      BY <3>1 DEF BlockInv, RoundInv, CacheInv, Cached, dtc, isr
    <3>6. CallInv'
      BY <3>1, <3>3 DEF CallInv, Cached, dtc, isr
    <3>7. QED
      BY <3>4, <3>5, <3>6
  <2>3. CASE EnableInterrupts
    BY <2>3 DEF EnableInterrupts, NoIsr, BlockInv, RoundInv, CacheInv, CallInv, Cached, dtc, isr
  <2>4. QED
    BY <1>5, <2>1, <2>2, <2>3 DEF adc_get_channel_values
<1>6. CASE UNCHANGED adcVars
  BY <1>6 DEF adcVars, dtc, isr, call, BlockInv, RoundInv, CacheInv, CallInv, Cached
<1>7. QED
  BY <1>1, <1>2, <1>3, <1>4, <1>5, <1>6
  DEF InterruptsNext, MainMillis, MainAdc, Watchdog, Adc10, Hardware, isr_adc10, allVars

(* What a call returns is of one round, the last one that was copied, for  *)
(* sensors on any channels in any order.                                   *)
THEOREM SamplesAreOfOneRound == InterruptsSpec => []SamplesOfOneRound
<1>1. ASSUME AdcInv
      PROVE  SamplesOfOneRound
  <2>1. \A c \in ToSet(adc_pins) : \E j \in 1 .. Len(adc_pins) : c = adc_pins[j]
    BY AdcPinsAssumption DEF ToSet
  <2>2. QED
    BY <1>1, <2>1 DEF AdcInv, CallInv, Cached, SamplesOfOneRound
<1>2. QED
  BY AdcInitInv, AdcStep, <1>1, PTL DEF InterruptsSpec

=============================================================================
