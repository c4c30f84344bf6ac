---------------------------- MODULE Vl53l0xInit ----------------------------
(***************************************************************************)
(* drivers/vl53l0x.c: vl53l0x_init. The five sensors boot with the same    *)
(* address; the driver wakes them one by one, gives each an address of its *)
(* own, and then configures and calibrates each through its registers. An  *)
(* exchange is a call of I2c and reaches every sensor that has the address. *)
(*                                                                         *)
(* pc is the function the driver is in and the sensor that it is about,    *)
(* step the exchange of that function. Runs of exchanges that write        *)
(* settings of one kind are one exchange here.                             *)
(***************************************************************************)
EXTENDS I2c, Sequences, FiniteSets

CONSTANTS SPAD_MAX_COUNT,             \* bits of the SPAD map that stand for a SPAD
          SPAD_APERTURE_START_INDEX,
          Nvm,                        \* what a sensor may have been calibrated to
          Garbage                     \* what may be read instead, once a byte was lost

ASSUME SpadsAssumption ==
    /\ SPAD_MAX_COUNT \in Nat \ {0} /\ SPAD_APERTURE_START_INDEX \in Nat
    /\ \A n \in Nvm \cup Garbage :
          n.count \in Nat /\ n.aperture \in BOOLEAN /\ n.good \subseteq Nat

VARIABLES pc, step,
          slave,        \* UCB0I2CSA
          device,       \* the sensors
          spads,        \* the new SPAD map
          nvm,          \* what it is made of, once it is read from the sensor: {n}
          garbled,      \* a byte was lost unnoticed, so a sensor is not as it should be
          irq,          \* edge of the front sensor's pin latched, not yet served
          irq_enabled,
          initialized

initVars == <<i2cVars, pc, step, slave, device, spads, nvm, garbled, irq, irq_enabled, initialized>>

AllSensors == {"FRONT", "LEFT", "RIGHT", "FRONT_LEFT", "FRONT_RIGHT"}

At(op, s) == <<op, s>>
Idle == At("idle", "NONE")

VL53L0X_DEFAULT_ADDRESS == 41

(* Mutant: two sensors are given the same address. *)
vl53l0x_cfgs_shared ==
    [FRONT |-> 48, LEFT |-> 49, RIGHT |-> 50, FRONT_RIGHT |-> 51, FRONT_LEFT |-> 51]

(* The sensors' own addresses. *)
vl53l0x_cfgs ==
    [FRONT |-> 48, LEFT |-> 49, RIGHT |-> 50, FRONT_RIGHT |-> 51, FRONT_LEFT |-> 52]

(* The sensor after s; vl53l0x_init_addresses and vl53l0x_init agree on it. *)
After(s) ==
    CASE s = "FRONT" -> "LEFT"
      [] s = "LEFT" -> "RIGHT"
      [] s = "RIGHT" -> "FRONT_LEFT"
      [] s = "FRONT_LEFT" -> "FRONT_RIGHT"
      [] s = "FRONT_RIGHT" -> "NONE"

-----------------------------------------------------------------------------
(* Exchanges: a write of a value to a register, a read of one, and a read  *)
(* that is repeated until the sensor has set the register.                 *)
Write(r, v) == [op |-> "write", reg |-> r, value |-> v, size |-> 1]
Read(r, n) == [op |-> "read", reg |-> r, value |-> "none", size |-> n]
PollUntilSet(r) == [op |-> "poll", reg |-> r, value |-> "none", size |-> 1]

(* vl53l0x_init_address, once the sensor is awake. *)
InitAddress == <<Read("MODEL_ID", 1), Write("ADDRESS", "own")>>

(* vl53l0x_perform_single_ref_calibration *)
Calibration(type) ==
    <<Write("SEQUENCE", type), Write("SYSRANGE_START", "start"), PollUntilSet("STATUS"),
      Write("INTERRUPT_CLEAR", "clear"), Write("SYSRANGE_START", "stop")>>

(* vl53l0x_data_init, vl53l0x_static_init and vl53l0x_perform_ref_calibration. *)
DataInit == <<Write("MODE", "2v8"), Read("STOP_VARIABLE", 1)>>

SpadsFromNvm ==
    <<Write("STROBE", "start"), PollUntilSet("STROBE"), Read("SPADS", 2),
      [Write("SPADS", "selected") EXCEPT !.size = 2]>>

StaticInit ==
    SpadsFromNvm \o
    <<Write("TUNING", "default"), Write("GPIO", "new_sample_ready"),
      Write("INTERRUPT_CLEAR", "clear"), Write("SEQUENCE", "range")>>

(* Mutant: the sequence steps are not restored after the calibrations.     *)
RefCalibration_not_restored == Calibration("VHV") \o Calibration("PHASE")

RefCalibration ==
    Calibration("VHV") \o Calibration("PHASE") \o <<Write("SEQUENCE", "range")>>

InitConfig == DataInit \o StaticInit \o RefCalibration

Program(op) == IF op = "address" THEN InitAddress ELSE InitConfig

-----------------------------------------------------------------------------
(* Mutant: SPADs of both types are enabled. *)
Offset_ignored(n) == 0

Offset(n) == IF n.aperture THEN SPAD_APERTURE_START_INDEX ELSE 0

(* vl53l0x_set_spads_from_nvm, the loop over the bits of the SPAD map: what *)
(* the bit i adds, and what is enabled before it.                          *)
WithBit(n, i, enabled) ==
    IF Cardinality(enabled) # n.count /\ i >= Offset(n) /\ i \in n.good
    THEN enabled \cup {i} ELSE enabled

EnabledBefore(n) ==
    LET enabled[i \in 0 .. SPAD_MAX_COUNT - 1] ==
            IF i = 0 THEN {} ELSE WithBit(n, i - 1, enabled[i - 1])
    IN  enabled

(* The loop fails at the first bit that no SPAD has, before it looks       *)
(* whether the last SPAD was still needed: that one comes too late.        *)
SpadMap(n) ==
    LET spad_map == EnabledBefore(n)[SPAD_MAX_COUNT - 1]
    IN  [ok |-> Cardinality(spad_map) = n.count, map |-> spad_map]

-----------------------------------------------------------------------------
(* The sensors: only those that are awake and have the address answer. They *)
(* fetch values from their memory and measure on their own, and then set   *)
(* the register that the driver polls; the pin of the front sensor follows *)
(* its status and has its edge latched, even with the interrupt disabled.  *)
Answering == {s \in AllSensors : device[s].awake /\ device[s].addr = slave}

SensorDone(s) ==
    /\ device[s].busy # "none"
    /\ device' = [device EXCEPT ![s].busy = "none", ![s].done = @ \cup {device[s].busy}]
    /\ irq' = (irq \/ (s = "FRONT" /\ device[s].busy = "STATUS"))
    /\ UNCHANGED <<i2cVars, pc, step, slave, spads, nvm, garbled, irq_enabled, initialized>>

(* What a write does to a sensor. *)
Written(d, s, e) ==
    CASE e.reg = "ADDRESS" -> [d EXCEPT !.addr = vl53l0x_cfgs[s]]
      [] e.reg = "STROBE" -> [d EXCEPT !.busy = "STROBE", !.done = @ \ {"STROBE"}]
      [] e.reg = "SYSRANGE_START" ->
             [d EXCEPT !.busy = IF e.value = "start" THEN "STATUS" ELSE "none"]
      [] e.reg = "INTERRUPT_CLEAR" -> [d EXCEPT !.done = @ \ {"STATUS"}]
      [] OTHER -> [d EXCEPT !.regs[e.reg] = e.value]

-----------------------------------------------------------------------------
Current == Program(pc[1])[step]
InitOps == {"address", "config"}

(* vl53l0x_init_address: the sensor leaves hardware standby. *)
Wake ==
    /\ pc[1] = "wake"
    /\ device' = [device EXCEPT ![pc[2]].awake = TRUE]
    /\ slave' = VL53L0X_DEFAULT_ADDRESS
    /\ pc' = At("address", pc[2])
    /\ UNCHANGED <<i2cVars, step, spads, nvm, garbled, irq, irq_enabled, initialized>>

(* vl53l0x_init_config *)
Select ==
    /\ pc[1] = "select"
    /\ slave' = vl53l0x_cfgs[pc[2]]
    /\ pc' = At("config", pc[2])
    /\ UNCHANGED <<i2cVars, step, device, spads, nvm, garbled, irq, irq_enabled, initialized>>

(* The driver calls i2c_read or i2c_write. *)
Transfer ==
    /\ pc[1] \in InitOps /\ phase = "idle"
    /\ Begin(Current.op # "write", Current.size)
    /\ UNCHANGED <<pc, step, slave, device, spads, nvm, garbled, irq, irq_enabled, initialized>>

Transferring ==
    /\ Poll \/ WaitEnds
    /\ UNCHANGED <<pc, step, slave, device, spads, nvm, garbled, irq, irq_enabled, initialized>>

(* Any failure ends vl53l0x_init; enemy_init traces it and goes on.        *)
Fails == pc' = Idle /\ step' = 1

(* What comes after the last exchange of a function. *)
NextSensor(op, s) ==
    IF op = "address"
    THEN IF After(s) = "NONE" THEN At("select", "FRONT") ELSE At("wake", After(s))
    ELSE IF s = "FRONT" THEN At("interrupt", s)
    ELSE IF After(s) = "NONE" THEN At("finish", "NONE") ELSE At("select", After(s))

Advances ==
    IF step < Len(Program(pc[1])) THEN step' = step + 1 /\ pc' = pc
                                  ELSE step' = 1 /\ pc' = NextSensor(pc[1], pc[2])

Returned(how) == phase = how /\ NoCall

TransferFailed ==
    /\ Returned("error")
    /\ Fails
    /\ UNCHANGED <<slave, device, spads, nvm, garbled, irq, irq_enabled, initialized>>

(* A write reaches all sensors that answer, if they took every byte of it. *)
WriteDone ==
    /\ Returned("ok") /\ Current.op = "write"
    /\ device' = IF lost \/ nack THEN device
                 ELSE [s \in AllSensors |-> IF s \in Answering
                                            THEN Written(device[s], s, Current) ELSE device[s]]
    /\ Advances
    /\ spads' = {} /\ nvm' = {}
    /\ garbled' = (garbled \/ lost)
    /\ UNCHANGED <<slave, irq, irq_enabled, initialized>>

(* vl53l0x_read_strobe and the wait for a calibration. *)
PollDone ==
    /\ Returned("ok") /\ Current.op = "poll"
    /\ \/ (lost \/ \E s \in Answering : Current.reg \in device[s].done) /\ Advances
       \/ (lost \/ \E s \in Answering : Current.reg \notin device[s].done) /\ UNCHANGED <<pc, step>>
    /\ garbled' = (garbled \/ lost)
    /\ UNCHANGED <<slave, device, spads, nvm, irq, irq_enabled, initialized>>

(* The model id, the stop variable, or the SPADs to enable: a wrong model  *)
(* id and SPADs that cannot be enabled end the initialisation. Once a byte *)
(* was lost, the number, the type and the map of the SPADs are anything.   *)
ReadDone ==
    /\ Returned("ok") /\ Current.op = "read"
    /\ IF Current.reg = "SPADS"
       THEN \E n \in IF garbled \/ lost THEN Garbage ELSE Nvm :
                /\ nvm' = {n} /\ spads' = SpadMap(n).map
                /\ IF SpadMap(n).ok THEN Advances ELSE Fails
       ELSE (Advances \/ (lost /\ Fails)) /\ UNCHANGED <<nvm, spads>>
    /\ garbled' = (garbled \/ lost)
    /\ UNCHANGED <<slave, device, irq, irq_enabled, initialized>>

(* Selecting the edge disables the interrupt and clears the pin's flag, which *)
(* the calibration of the front sensor has set.                            *)
io_set_interrupt_trigger == irq' = FALSE

vl53l0x_configure_front_sensor_interrupt ==
    /\ pc[1] = "interrupt"
    /\ io_set_interrupt_trigger
    /\ irq_enabled' = TRUE
    /\ pc' = At("select", After("FRONT"))
    /\ UNCHANGED <<i2cVars, step, slave, device, spads, nvm, garbled, initialized>>

Finish ==
    /\ pc[1] = "finish"
    /\ initialized' = TRUE
    /\ pc' = Idle
    /\ UNCHANGED <<i2cVars, step, slave, device, spads, nvm, garbled, irq, irq_enabled>>

vl53l0x_init ==
    \/ Wake \/ Select \/ Transfer \/ Transferring
    \/ TransferFailed \/ WriteDone \/ PollDone \/ ReadDone
    \/ vl53l0x_configure_front_sensor_interrupt \/ Finish

(* The bus carries on, stalls, or comes back. *)
Bus ==
    /\ BusReady(Answering # {}) \/ Stall \/ Resume
    /\ UNCHANGED <<pc, step, slave, device, spads, nvm, garbled, irq, irq_enabled, initialized>>

BusWorks ==
    /\ BusReady(Answering # {})
    /\ UNCHANGED <<pc, step, slave, device, spads, nvm, garbled, irq, irq_enabled, initialized>>

Registers == {"MODE", "SPADS", "TUNING", "GPIO", "SEQUENCE"}

InitInit ==
    /\ I2cInit
    /\ pc = At("wake", "FRONT") /\ step = 1
    /\ slave = VL53L0X_DEFAULT_ADDRESS
    /\ device = [s \in AllSensors |->
                    [awake |-> FALSE, addr |-> VL53L0X_DEFAULT_ADDRESS, busy |-> "none",
                     done |-> {}, regs |-> [r \in Registers |-> "boot"]]]
    /\ spads = {} /\ nvm = {}
    /\ garbled = FALSE
    /\ irq = FALSE /\ irq_enabled = FALSE
    /\ initialized = FALSE

-----------------------------------------------------------------------------
(* Every exchange of the initialisation is answered by the sensor that it  *)
(* is about and by no other, though all of them boot with one address: as  *)
(* long as no byte was lost without an error, no two are awake with it.    *)
OneSensorAnswers ==
    pc[1] \in InitOps /\ ~garbled => Answering = {pc[2]}

(* vl53l0x_init succeeds only with every sensor at its own address, set to *)
(* measure ranges and with no interrupt left over from its calibration,    *)
(* whichever exchanges were not acknowledged or stalled on the way.        *)
ReadyWhenInitialized ==
    initialized /\ ~garbled /\ pc = Idle =>
        /\ irq_enabled
        /\ \A s \in AllSensors :
              /\ device[s].addr = vl53l0x_cfgs[s]
              /\ device[s].busy = "none" /\ "STATUS" \notin device[s].done
              /\ device[s].regs = [MODE |-> "2v8", SPADS |-> "selected", TUNING |-> "default",
                                   GPIO |-> "new_sample_ready", SEQUENCE |-> "range"]

(* Good SPADs of the sensor's type suffice. *)
OfItsType(n, i) == n.aperture <=> i >= SPAD_APERTURE_START_INDEX
Enough(n) == n.count <= Cardinality({i \in n.good : i < SPAD_MAX_COUNT /\ OfItsType(n, i)})

(* The SPADs that are enabled are good ones, as many as the sensor was     *)
(* calibrated with, and if there are enough of its type, of that type only *)
(* (comment of vl53l0x_get_spad_info_from_nvm), unless a byte was lost.    *)
SpadsOfOneType ==
    pc[1] = "config" /\ ~garbled =>
        \A n \in nvm :
            /\ Cardinality(spads) = n.count
            /\ spads \subseteq n.good
            /\ Enough(n) => \A i \in spads : OfItsType(n, i)

(* The initialisation has ended because a sensor's SPADs cannot be enabled. *)
Refused == \E n \in nvm : ~SpadMap(n).ok

(* The initialisation ends, whatever the bus does: even one that stalls for *)
(* good is reported, so no wait for a sensor polls it for ever. Only a bus *)
(* that comes back, after the request that the sensor should answer was    *)
(* lost without an error, can leave the driver polling.                    *)
InitEnds ==
    /\ <>(pc[1] = "idle" \/ garbled)
    /\ <>(pc[1] = "idle") \/ []<>(bus # "stalls")

=============================================================================
