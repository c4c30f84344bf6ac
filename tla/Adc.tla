--------------------------------- MODULE Adc ---------------------------------
(***************************************************************************)
(* drivers/adc.c: the converter samples all channels from the last one     *)
(* that is a pin's down to 0, the DTC writes them to adc_dtc_block, and an *)
(* interrupt copies them, turned around, to the cache and starts the next  *)
(* round. adc_get_channel_values copies the channels that are pins out of  *)
(* the cache, with all interrupts disabled. A sample is its channel and    *)
(* the round it was taken in.                                              *)
(***************************************************************************)
EXTENDS Naturals, Sequences, FiniteSetsExt, SequencesExt

CONSTANTS adc_pins,  \* channels of the line sensors, in the order of io_adc_pins_arr
          ROUNDS     \* rounds to model

ASSUME AdcPinsAssumption == adc_pins \in Seq(0 .. 7) /\ adc_pins # << >>
ASSUME RoundsAssumption == ROUNDS \in Nat

VARIABLES round, sampled,          \* round under way, channels sampled in it
          adc_dtc_block, adc_dtc_block_cache,
          ADC10IFG,
          in_isr, isr_i,           \* of isr_adc10
          GIE,                     \* interrupts are enabled globally
          adc_pc, adc_i, values    \* of adc_get_channel_values

dtc == <<round, sampled, adc_dtc_block>>
isr == <<in_isr, isr_i>>
call == <<adc_pc, adc_i, values>>
adcVars == <<dtc, adc_dtc_block_cache, ADC10IFG, isr, GIE, call>>

dtc_channel_cnt == Max(ToSet(adc_pins)) + 1
Channels == 0 .. dtc_channel_cnt - 1
NoSample == << >>   \* the zeros of the static arrays

AdcInit ==
    /\ round = 0 /\ sampled = 0
    /\ adc_dtc_block = [i \in Channels |-> NoSample]
    /\ adc_dtc_block_cache = [c \in Channels |-> NoSample]
    /\ ADC10IFG = FALSE
    /\ in_isr = FALSE /\ isr_i = 0
    /\ GIE = TRUE
    /\ adc_pc = "idle" /\ adc_i = 1
    /\ values = [c \in Channels |-> NoSample]

(* The converter samples the next channel; the last one ends the round.    *)
Convert ==
    /\ round < ROUNDS /\ sampled < dtc_channel_cnt
    /\ adc_dtc_block' = [adc_dtc_block EXCEPT ![sampled] = <<dtc_channel_cnt - 1 - sampled, round>>]
    /\ sampled' = sampled + 1
    /\ ADC10IFG' = (sampled' = dtc_channel_cnt)
    /\ UNCHANGED <<round, adc_dtc_block_cache, isr, GIE, call>>

-----------------------------------------------------------------------------
(* isr_adc10, statement by statement. Its flag is reset on its entry, and  *)
(* no interrupt interrupts another.                                        *)
NoIsr == ~in_isr

EnterIsr ==
    /\ GIE /\ ADC10IFG /\ NoIsr
    /\ ADC10IFG' = FALSE
    /\ in_isr' = TRUE /\ isr_i' = 0
    /\ UNCHANGED <<dtc, adc_dtc_block_cache, GIE, call>>

CopyToCache ==
    /\ in_isr /\ isr_i < dtc_channel_cnt
    /\ adc_dtc_block_cache' = [adc_dtc_block_cache EXCEPT
                                 ![isr_i] = adc_dtc_block[dtc_channel_cnt - 1 - isr_i]]
    /\ isr_i' = isr_i + 1
    /\ UNCHANGED <<dtc, ADC10IFG, in_isr, GIE, call>>

StartConversion ==
    /\ in_isr /\ isr_i = dtc_channel_cnt
    /\ in_isr' = FALSE
    /\ round' = round + 1 /\ sampled' = 0
    /\ UNCHANGED <<adc_dtc_block, adc_dtc_block_cache, ADC10IFG, isr_i, GIE, call>>

isr_adc10 == EnterIsr \/ CopyToCache \/ StartConversion

-----------------------------------------------------------------------------
(* adc_get_channel_values, into a local array of its caller. *)

(* Mutant: nothing is disabled. *)
DisableInterrupts_forgotten ==
    /\ NoIsr /\ adc_pc = "idle"
    /\ adc_pc' = "copy" /\ adc_i' = 1
    /\ values' = [c \in Channels |-> NoSample]
    /\ UNCHANGED <<dtc, adc_dtc_block_cache, ADC10IFG, isr, GIE>>

DisableInterrupts ==
    /\ NoIsr /\ adc_pc = "idle"
    /\ GIE' = FALSE
    /\ adc_pc' = "copy" /\ adc_i' = 1
    /\ values' = [c \in Channels |-> NoSample]
    /\ UNCHANGED <<dtc, adc_dtc_block_cache, ADC10IFG, isr>>

CopyFromCache ==
    /\ NoIsr /\ adc_pc = "copy"
    /\ values' = [values EXCEPT ![adc_pins[adc_i]] = adc_dtc_block_cache[adc_pins[adc_i]]]
    /\ IF adc_i = Len(adc_pins) THEN adc_pc' = "enable" /\ UNCHANGED adc_i
                                ELSE adc_i' = adc_i + 1 /\ UNCHANGED adc_pc
    /\ UNCHANGED <<dtc, adc_dtc_block_cache, ADC10IFG, isr, GIE>>

(* Mutant: the interrupts stay disabled. *)
EnableInterrupts_forgotten ==
    /\ NoIsr /\ adc_pc = "enable"
    /\ adc_pc' = "idle"
    /\ UNCHANGED <<dtc, adc_dtc_block_cache, ADC10IFG, isr, GIE, adc_i, values>>

EnableInterrupts ==
    /\ NoIsr /\ adc_pc = "enable"
    /\ GIE' = TRUE
    /\ adc_pc' = "idle"
    /\ UNCHANGED <<dtc, adc_dtc_block_cache, ADC10IFG, isr, adc_i, values>>

adc_get_channel_values == DisableInterrupts \/ CopyFromCache \/ EnableInterrupts

-----------------------------------------------------------------------------
(* What a call returns is one sample per pin, of that pin's channel, all of *)
(* the last round that has been copied, which is the one before the round  *)
(* under way: the robot never compares corners seen at different moments.  *)
(* Before the end of the first round it returns zeros.                     *)
SamplesOfOneRound ==
    adc_pc = "enable" =>
        \A c \in ToSet(adc_pins) :
            values[c] = IF round = 0 THEN NoSample ELSE <<c, round - 1>>

(* However often the program disables interrupts, the converter starts     *)
(* round after round.                                                      *)
ConversionsGoOn == <>(round = ROUNDS)

=============================================================================
