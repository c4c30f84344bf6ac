------------------------------ MODULE Vl53l0x ------------------------------
(***************************************************************************)
(* drivers/vl53l0x.c: reading the three range sensors that are in use. The *)
(* main loop calls vl53l0x_read_range_multiple on every iteration; one     *)
(* step here is the exchanges of one function with one sensor. The front   *)
(* sensor interrupts when its measurement is done; the sensors measure on  *)
(* their own meanwhile. pc is the function the driver is in and the sensor *)
(* that it is about.                                                       *)
(*                                                                         *)
(* An exchange works, reports an error, or loses a byte and is reported as *)
(* ok (I2c). A write that loses a byte does nothing; a read that does gives *)
(* anything. A start cut short may leave the sensor astray, in another bank *)
(* of registers: it then answers anything, until it is started again.      *)
(*                                                                         *)
(* Ranges are abstracted to the round they were measured in: "current" is  *)
(* the round started last, "garbage" is no range at all.                   *)
(***************************************************************************)
EXTENDS Vl53l0xInit

VARIABLES status_multiple,
          first_call,     \* the call started the first round
          latest_ranges,  \* sensor -> age of its entry in latest_ranges
          result,         \* of the last call: "none", "fresh", "cached" or "error"
          sensor          \* sensor -> what it measures, its interrupt status, its range,
                          \*           whether it is astray

measureVars == <<status_multiple, first_call, latest_ranges, result, sensor>>
vars == <<initVars, measureVars>>

(* What only the initialisation changes. *)
bootVars == <<callVars, bus, step, device, spads, nvm, irq_enabled>>

Sensors == {"FRONT", "FRONT_LEFT", "FRONT_RIGHT"}

Copy == At("copy", "NONE")
Asserted == At("assert", "NONE")
Stuck == At("stuck", "NONE")

Aged(age) == IF age = "current" THEN "stale" ELSE age

-----------------------------------------------------------------------------
(* The sensors, as the driver uses them: a measurement that is over sets   *)
(* the interrupt status, which the pin of the front sensor follows; the    *)
(* port latches the edge, so a status that is still set makes no new one.  *)
MeasurementDone(s) ==
    /\ sensor[s].busy # "none"
    /\ sensor' = [sensor EXCEPT ![s] = [@ EXCEPT !.busy = "none", !.status = TRUE,
                                                 !.range = sensor[s].busy]]
    /\ irq' = (irq \/ (s = "FRONT" /\ ~sensor[s].status))
    /\ UNCHANGED <<pc, initialized, status_multiple, first_call, latest_ranges, result, faults>>

front_measurement_done_isr ==
    /\ irq /\ irq_enabled
    /\ irq' = FALSE
    /\ status_multiple' = "DONE"
    /\ UNCHANGED <<pc, initialized, first_call, latest_ranges, result, sensor, faults>>

-----------------------------------------------------------------------------
(* n more exchanges fail or lose a byte. *)
Faults(n) == faults + n <= MaxFaults /\ faults' = faults + n
Fault == Faults(1)

Return(r) == pc' = Idle /\ result' = r

(* vl53l0x_init, from main; its caller enemy_init goes on after a failure. *)
Boot ==
    /\ vl53l0x_init
    /\ sensor' = [s \in Sensors |-> [sensor[s] EXCEPT !.status = "STATUS" \in device'[s].done]]
    /\ UNCHANGED <<status_multiple, first_call, latest_ranges, result>>

(* Mutant: whether the front sensor has interrupted is not looked at. *)
CallFrom_sides_only(status) ==
    IF status = "NOT_STARTED" THEN At("start", "NONE") ELSE At("check", "FRONT_LEFT")

(* What a call does first. *)
CallFrom(status) ==
    IF status = "NOT_STARTED" THEN At("start", "NONE")
    ELSE IF status = "DONE" THEN At("check", "FRONT_LEFT")
    ELSE Copy

Call ==
    /\ pc = Idle
    /\ pc' = IF initialized THEN CallFrom(status_multiple) ELSE Asserted
    /\ first_call' = (status_multiple = "NOT_STARTED")
    /\ result' = "none"
    /\ UNCHANGED <<initialized, status_multiple, latest_ranges, sensor, irq, faults>>

(* The busy wait of the first call. *)
WaitDone ==
    /\ pc = At("wait", "NONE")
    /\ status_multiple = "DONE"
    /\ pc' = At("check", "FRONT_LEFT")
    /\ UNCHANGED <<initialized, status_multiple, first_call, latest_ranges, result,
                   sensor, irq, faults>>

(* The sides are asked first, then, as a sanity check, the front sensor.   *)
AfterCheck(s) ==
    IF s = "FRONT_LEFT" THEN At("check", "FRONT_RIGHT")
    ELSE IF s = "FRONT_RIGHT" THEN At("check", "FRONT")
    ELSE At("read", "FRONT")

(* vl53l0x_is_sysrange_done: an exchange that fails counts as not done, one *)
(* that loses a byte may say either. A front sensor that is not done fails *)
(* the ASSERT(false).                                                      *)
IsSysrangeDone(s) ==
    /\ pc = At("check", s)
    /\ \E done \in BOOLEAN :
          /\ \/ (done = sensor[s].status \/ sensor[s].astray) /\ UNCHANGED faults
             \/ Fault
          /\ pc' = IF done THEN AfterCheck(s) ELSE IF s = "FRONT" THEN Asserted ELSE Copy
    /\ UNCHANGED <<initialized, status_multiple, first_call, latest_ranges, result, sensor, irq>>

(* Mutant: the right sensor is not read. *)
AfterRead_no_right(s) == IF s = "FRONT" THEN At("read", "FRONT_LEFT") ELSE At("start", "NONE")

AfterRead(s) ==
    IF s = "FRONT" THEN At("read", "FRONT_LEFT")
    ELSE IF s = "FRONT_LEFT" THEN At("read", "FRONT_RIGHT")
    ELSE At("start", "NONE")

(* vl53l0x_read_range polls until the sensor says that it is done, reads   *)
(* the range and clears the status twice.                                  *)
ReadExchanges == {"poll", "range", "clear", "clear_again"}

(* It polls the status until the sensor is done, or seems to be. *)
SaysDone(s) == sensor[s].status \/ sensor[s].astray

(* All exchanges are reported as ok, those of lossy lost a byte. A range or *)
(* an end of a measurement that is not the sensor's, and a status that is  *)
(* not cleared, go unnoticed.                                              *)
ReadRange(s) ==
    /\ pc = At("read", s)
    /\ \E lossy \in SUBSET ReadExchanges :
          LET is_range == "range" \notin lossy /\ ~sensor[s].astray
              cleared == ~({"clear", "clear_again"} \subseteq lossy) /\ ~sensor[s].astray
          IN  /\ SaysDone(s) \/ "poll" \in lossy
              /\ latest_ranges' =
                     [latest_ranges EXCEPT ![s] = IF is_range THEN sensor[s].range ELSE "garbage"]
              /\ sensor' = [sensor EXCEPT ![s].status = @ /\ ~cleared]
              /\ garbled' = (garbled \/ ~(sensor[s].status /\ is_range /\ cleared))
              /\ Faults(Cardinality(lossy))
    /\ pc' = AfterRead(s)
    /\ UNCHANGED <<initialized, status_multiple, first_call, result, irq>>

(* A failure while it polls, between the bytes of the range, or before or  *)
(* after the status is cleared. Some of these take a byte lost before; one *)
(* fault is counted.                                                       *)
ReadRangeFails(s) ==
    /\ pc = At("read", s)
    /\ Fault
    /\ Return("error")
    /\ \E age \in {latest_ranges[s], "garbage", sensor[s].range} :
          latest_ranges' = [latest_ranges EXCEPT ![s] = age]
    /\ \E cleared \in BOOLEAN : sensor' = [sensor EXCEPT ![s].status = @ /\ ~cleared]
    /\ UNCHANGED <<initialized, status_multiple, first_call, garbled, irq>>

(* vl53l0x_start_measuring_multiple begins a round, unless one is still    *)
(* MEASURING.                                                              *)
StartMultiple ==
    /\ pc = At("start", "NONE")
    /\ IF status_multiple = "MEASURING"
       THEN Return("error") /\ UNCHANGED <<status_multiple, sensor, latest_ranges>>
       ELSE /\ pc' = At("start", "FRONT")
            /\ status_multiple' = "MEASURING"
            /\ sensor' = [s \in Sensors |->
                             [sensor[s] EXCEPT !.busy = Aged(@), !.range = Aged(@)]]
            /\ latest_ranges' = [s \in Sensors |-> Aged(latest_ranges[s])]
            /\ UNCHANGED result
    /\ UNCHANGED <<initialized, first_call, irq, faults>>

(* Mutant: the right sensor is not started. *)
AfterStart_no_right(s) ==
    IF s = "FRONT" THEN At("start", "FRONT_LEFT") ELSE At("started", "NONE")

AfterStart(s) ==
    IF s = "FRONT" THEN At("start", "FRONT_LEFT")
    ELSE IF s = "FRONT_LEFT" THEN At("start", "FRONT_RIGHT")
    ELSE At("started", "NONE")

(* vl53l0x_start_sysrange writes the start from a bank of registers to the *)
(* other and back; after a failure or a lost byte, the sensor may have     *)
(* started or be left astray, whether or not the driver knows, and if      *)
(* astray be polled for ever for having taken the start.                   *)
Begun(s) == [sensor EXCEPT ![s] = [@ EXCEPT !.busy = "current", !.astray = FALSE]]

StartSysrange(s) ==
    /\ pc = At("start", s)
    /\ \/ sensor' = Begun(s) /\ UNCHANGED faults /\ pc' = AfterStart(s) /\ UNCHANGED result
       \/ /\ \/ sensor' = Begun(s)
             \/ \E astray \in BOOLEAN : sensor' = [sensor EXCEPT ![s].astray = astray]
          /\ Fault
          /\ \/ Return("error")
             \/ pc' = AfterStart(s) /\ UNCHANGED result
             \/ sensor'[s].astray /\ pc' = Stuck /\ UNCHANGED result
    /\ UNCHANGED <<initialized, status_multiple, first_call, latest_ranges, irq>>

(* The round is under way: the first call waits for it, a later one has    *)
(* fresh values to return.                                                 *)
Started ==
    /\ pc = At("started", "NONE")
    /\ IF first_call THEN pc' = At("wait", "NONE") /\ first_call' = FALSE /\ UNCHANGED result
                     ELSE Return("fresh") /\ UNCHANGED first_call
    /\ UNCHANGED <<initialized, status_multiple, latest_ranges, sensor, irq, faults>>

ReturnCached ==
    /\ pc = Copy
    /\ Return("cached")
    /\ UNCHANGED <<initialized, status_multiple, first_call, latest_ranges, sensor, irq, faults>>

(* assert_handler, the busy wait of the first call, and the polls of a     *)
(* sensor that is not done or has not taken the start.                     *)
Halted == pc = Asserted /\ UNCHANGED vars
BusyWait ==
    /\ \/ pc = At("wait", "NONE") /\ status_multiple # "DONE"
       \/ \E s \in Sensors : pc = At("read", s) /\ ~sensor[s].status
       \/ pc = Stuck
    /\ UNCHANGED vars

Exchange(s) ==
    \/ (IsSysrangeDone(s) \/ StartSysrange(s)) /\ UNCHANGED garbled
    \/ ReadRange(s) \/ ReadRangeFails(s)

(* vl53l0x_read_range_multiple; an exchange sets the sensor's address first. *)
Measure ==
    /\ \/ /\ Call \/ WaitDone \/ StartMultiple \/ Started \/ ReturnCached
          /\ UNCHANGED <<slave, garbled>>
       \/ \E s \in Sensors : Exchange(s) /\ slave' = vl53l0x_cfgs[s]
    /\ UNCHANGED bootVars

Driver == Boot \/ Measure

(* The sensors, the bus and the interrupt. *)
Measured(s) == MeasurementDone(s) /\ UNCHANGED <<bootVars, garbled, slave>>
Served == front_measurement_done_isr /\ UNCHANGED <<bootVars, garbled, slave>>
Prepared(s) == SensorDone(s) /\ UNCHANGED measureVars

Init ==
    /\ InitInit
    /\ status_multiple = "NOT_STARTED"
    /\ first_call = FALSE
    /\ latest_ranges = [s \in Sensors |-> "none"]
    /\ result = "none"
    /\ sensor = [s \in Sensors |->
                    [busy |-> "none", status |-> FALSE, range |-> "none", astray |-> FALSE]]

Next ==
    \/ Driver
    \/ Bus /\ UNCHANGED measureVars
    \/ Served
    \/ \E s \in Sensors : Measured(s)
    \/ \E s \in AllSensors : Prepared(s)
    \/ Halted \/ BusyWait

Spec == Init /\ [][Next]_vars

(* The program runs, a bus that does not stall carries on, the interrupt is *)
(* served, and a sensor finishes what it has begun. A bus that stalls need *)
(* not come back.                                                          *)
FairSpec ==
    /\ Spec
    /\ WF_vars(Driver)
    /\ WF_vars(BusWorks /\ UNCHANGED measureVars)
    /\ WF_vars(Served)
    /\ \A s \in Sensors : WF_vars(Measured(s))
    /\ \A s \in AllSensors : WF_vars(Prepared(s))

-----------------------------------------------------------------------------
(* Values returned as fresh are all of one round, the one before the round *)
(* this call has started; the call that returns them never mixes rounds,   *)
(* however the ends of the measurements and the interrupt interleave and   *)
(* whichever exchanges fail or lose a byte: a check that lies, a start that *)
(* is lost, one of the two clears. It cannot help what is excepted with    *)
(* garbled: a byte lost by vl53l0x_init, by a range or its last poll, or by *)
(* both clears, or a range asked of a sensor that is astray.               *)
FreshIsOneRound ==
    pc = At("start", "NONE") /\ ~first_call /\ ~garbled =>
        \A s \in Sensors : latest_ranges[s] = "current"

(* An ASSERT stops the program only after a fault of the bus, or because   *)
(* there are too few good SPADs.                                           *)
AssertsOnlyAfterFault == pc = Asserted => faults > 0 \/ Refused

(* Whatever it returned in between, the driver goes on returning fresh     *)
(* values, unless an exchange fails or the initialisation has.             *)
AlwaysFreshAgain == []<>(result = "fresh") \/ <>(faults > 0 \/ Refused)

(* vl53l0x.h:48: "It starts measuring if no measurement is ongoing". A     *)
(* driver that is going to return cached values waits for a measurement.   *)
CachedOnlyWhileMeasuring ==
    pc = Copy /\ ~garbled =>
        \/ irq \/ \E s \in Sensors : sensor[s].busy # "none"
        \/ \A s \in Sensors : sensor[s].status

=============================================================================
