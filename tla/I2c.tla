-------------------------------- MODULE I2c --------------------------------
(***************************************************************************)
(* drivers/i2c.c: a polling master. A call of i2c_write or i2c_read goes   *)
(* through phases; in each it waits for a flag of the peripheral, counting *)
(* retries down, and checks whether the slave has answered. One step here  *)
(* is one look at the flag. The bus may stall at any time, for a while or  *)
(* for good, and a slave may fail to acknowledge.                          *)
(*                                                                         *)
(* A call ends in phase "ok" or "error" for its caller to take.            *)
(***************************************************************************)
EXTENDS Naturals

CONSTANTS RETRY_COUNT,  \* UINT16_MAX, also what retries-- makes of 0
          MaxFaults     \* how often a slave or the bus fails

ASSUME RetriesAssumption == RETRY_COUNT \in Nat /\ RETRY_COUNT > 1
ASSUME FaultsAssumption == MaxFaults \in Nat

VARIABLES phase,    \* what the call waits for
          reading,  \* the call is an i2c_read
          left,     \* bytes it has yet to send or to wait for
          retries,
          flag,     \* the flag that the phase waits for is set
          nack,     \* UCNACKIFG
          lost,     \* a byte of this call was overwritten or read before it came
          bus,      \* "works" or "stalls"
          faults

callVars == <<phase, reading, left, retries, flag, nack, lost>>
i2cVars == <<callVars, bus, faults>>

Waits == {"start", "tx", "restart", "rx", "stop", "last"}

(* Mutant: every wait counts down with retries--. *)
PostDecremented_all == Waits

(* i2c_wait_tx_byte and i2c_wait_rx_byte count with retries--, the others  *)
(* with --retries.                                                         *)
PostDecremented == {"tx", "rx", "last"}

GoesOn == retries # IF phase \in PostDecremented THEN 0 ELSE 1

(* The value of retries after the wait. *)
Remaining ==
    IF flag THEN retries ELSE IF retries = 0 THEN RETRY_COUNT ELSE retries - 1

WaitOk == Remaining # 0 /\ ~nack

(* A bus that works is ready long before the retries are used up.          *)
InTime == bus = "stalls" \/ retries > 1

(* Starts the call: the start condition, and the register's address in TXBUF. *)
Begin(reads, size) ==
    /\ phase' = "start" /\ retries' = RETRY_COUNT
    /\ reading' = reads
    /\ left' = IF reads THEN size - 1 ELSE size
    /\ flag' = FALSE /\ nack' = FALSE /\ lost' = FALSE
    /\ UNCHANGED <<bus, faults>>

(* The caller takes the result. *)
NoCall ==
    /\ phase' = "idle" /\ retries' = RETRY_COUNT
    /\ reading' = FALSE /\ left' = 0
    /\ flag' = FALSE /\ nack' = FALSE /\ lost' = FALSE
    /\ UNCHANGED <<bus, faults>>

NextPhase ==
    CASE phase = "start" -> "tx"
      [] phase = "tx" -> IF reading THEN "restart" ELSE IF left > 0 THEN "tx" ELSE "stop"
      [] phase \in {"restart", "rx"} -> IF left > 0 THEN "rx" ELSE "stop"
      [] phase = "stop" -> IF reading THEN "last" ELSE "ok"
      [] phase = "last" -> "ok"

Poll ==
    /\ phase \in Waits
    /\ ~flag /\ GoesOn /\ InTime
    /\ retries' = retries - 1
    /\ UNCHANGED <<phase, reading, left, flag, nack, lost, bus, faults>>

(* The wait is over, with the flag set or with no retries left. A byte that *)
(* is not out yet is overwritten, or cut off by the condition that follows; *)
(* one that has not come yet is read as whatever RXBUF holds.              *)
WaitEnds ==
    /\ phase \in Waits
    /\ flag \/ (~GoesOn /\ InTime)
    /\ phase' = IF WaitOk THEN NextPhase ELSE "error"
    /\ left' = IF phase # "start" /\ phase' \in {"tx", "rx"} THEN left - 1 ELSE left
    /\ retries' = RETRY_COUNT
    /\ flag' = FALSE
    /\ lost' = (lost \/ ~flag)
    /\ UNCHANGED <<reading, nack, bus, faults>>

-----------------------------------------------------------------------------
(* The peripheral, the bus and the slaves; answered says whether a slave   *)
(* has the address that is sent.                                           *)
Acknowledged == phase \in {"start", "tx", "restart"} \/ (phase = "stop" /\ ~reading)

BusReady(answered) ==
    /\ phase \in Waits
    /\ ~flag /\ bus = "works"
    /\ flag' = TRUE
    /\ \/ /\ nack' = (nack \/ (phase \in {"start", "restart"} /\ ~answered))
          /\ UNCHANGED faults
       \/ /\ Acknowledged /\ faults < MaxFaults
          /\ nack' = TRUE /\ faults' = faults + 1
    /\ UNCHANGED <<phase, reading, left, retries, lost, bus>>

Stall ==
    /\ phase \in Waits /\ ~flag /\ bus = "works" /\ faults < MaxFaults
    /\ bus' = "stalls" /\ faults' = faults + 1
    /\ UNCHANGED callVars

Resume ==
    /\ phase \in Waits /\ bus = "stalls"
    /\ bus' = "works"
    /\ UNCHANGED <<callVars, faults>>

I2cInit ==
    /\ phase = "idle" /\ reading = FALSE /\ left = 0 /\ retries = RETRY_COUNT
    /\ flag = FALSE /\ nack = FALSE /\ lost = FALSE
    /\ bus = "works" /\ faults = 0
=============================================================================
