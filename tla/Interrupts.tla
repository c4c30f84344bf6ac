----------------------------- MODULE Interrupts -----------------------------
(***************************************************************************)
(* The watchdog's and the converter's interrupt on one processor, with the *)
(* two functions that keep them off: millis() masks the watchdog's,        *)
(* adc_get_channel_values disables all. The main program calls one or the  *)
(* other, and runs while no interrupt does; one interrupt does not         *)
(* interrupt another.                                                      *)
(***************************************************************************)
EXTENDS Millis, Adc

allVars == <<vars, adcVars>>

InterruptsInit == Init /\ AdcInit

MainMillis == NoIsr /\ adc_pc = "idle" /\ millis /\ UNCHANGED adcVars
MainAdc == pc = "idle" /\ adc_get_channel_values /\ UNCHANGED vars
Watchdog == GIE /\ NoIsr /\ isr_watchdog /\ UNCHANGED adcVars
Adc10 == isr_adc10 /\ UNCHANGED vars

(* The hardware. *)
Hardware ==
    \/ Tick /\ UNCHANGED adcVars
    \/ Convert /\ UNCHANGED vars

InterruptsNext == MainMillis \/ MainAdc \/ Watchdog \/ Adc10 \/ Hardware

(* The converter converts, the program goes on, and the processor serves a *)
(* pending interrupt before the instruction that follows its enabling.     *)
InterruptsSpec ==
    /\ InterruptsInit /\ [][InterruptsNext]_allVars
    /\ WF_allVars(Convert /\ UNCHANGED vars)
    /\ WF_allVars(MainMillis /\ pc # "idle")
    /\ WF_allVars(MainAdc /\ adc_pc # "idle")
    /\ SF_allVars(Watchdog)
    /\ SF_allVars(Adc10)

=============================================================================
