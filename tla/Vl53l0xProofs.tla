--------------------------- MODULE Vl53l0xProofs ---------------------------
(***************************************************************************)
(* Proofs about Vl53l0x for any number of retries and of faults, and any   *)
(* SPADs: every exchange of the initialisation reaches one sensor, and     *)
(* what the initialisation leaves behind; that values returned as fresh    *)
(* are of one round; that without a fault no ASSERT fails; and which SPADs *)
(* are enabled.                                                            *)
(***************************************************************************)
EXTENDS Vl53l0x, SequenceTheorems, FiniteSetTheorems, WellFoundedInduction, TLAPS

Values == {"boot", "2v8", "selected", "default", "new_sample_ready", "VHV", "PHASE", "range"}
Ages == {"none", "current", "stale", "garbage"}

Device == [awake : BOOLEAN, addr : Nat, busy : {"none", "STROBE", "STATUS"},
           done : SUBSET {"STROBE", "STATUS"}, regs : [Registers -> Values]]
Sensor == [busy : Ages, status : BOOLEAN, range : Ages, astray : BOOLEAN]

BootPcs == ({"wake", "address", "select", "config"} \X AllSensors)
              \cup {At("interrupt", "FRONT"), At("finish", "NONE")}
MeasurePcs == {Idle, Copy, Asserted, Stuck, At("start", "NONE"), At("started", "NONE"), At("wait", "NONE")}
                 \cup ({"check", "read", "start"} \X Sensors)

(* The order in which the sensors are initialised. *)
Rank == [FRONT |-> 1, LEFT |-> 2, RIGHT |-> 3, FRONT_LEFT |-> 4, FRONT_RIGHT |-> 5]

-----------------------------------------------------------------------------
(* The invariant *)
CallType ==
    /\ faults \in Nat /\ retries \in Nat
    /\ bus \in {"works", "stalls"}
    /\ phase \in Waits \cup {"idle", "ok", "error"}

TypeInv ==
    /\ CallType
    /\ device \in [AllSensors -> Device]
    /\ sensor \in [Sensors -> Sensor]
    /\ latest_ranges \in [Sensors -> Ages]
    /\ status_multiple \in {"NOT_STARTED", "MEASURING", "DONE"}

(* Where the driver can be: only once it is initialised it measures. *)
PlaceInv ==
    /\ pc \in BootPcs \cup MeasurePcs
    /\ initialized => pc \in MeasurePcs
    /\ pc \in MeasurePcs /\ ~initialized => pc = Idle \/ pc = Asserted
    /\ step \in Nat
    /\ IF pc[1] = "address" THEN step \in 1 .. 2
       ELSE IF pc[1] = "config" THEN step \in 1 .. 21 ELSE step = 1
    /\ pc[1] \notin InitOps => phase = "idle"

(* A call of I2c reports an error, or loses a byte, only after a fault. *)
CallInv ==
    /\ phase = "ok" => ~nack
    /\ phase \notin PostDecremented => retries > 0
    /\ faults = 0 => /\ bus = "works" /\ retries > 0
                     /\ ~nack /\ ~lost /\ ~garbled /\ phase # "error"

(* The sensors are woken one by one, and have left the default address     *)
(* before the next one wakes.                                              *)
Woken(s) == device[s].awake /\ device[s].addr = vl53l0x_cfgs[s]
Asleep(s) == ~device[s].awake /\ device[s].addr = VL53L0X_DEFAULT_ADDRESS

AddressInv ==
    /\ pc[1] \in {"wake", "address"} =>
           \A s \in AllSensors : /\ Rank[s] < Rank[pc[2]] => Woken(s)
                                 /\ Rank[s] > Rank[pc[2]] => Asleep(s)
    /\ pc[1] = "wake" => Asleep(pc[2])
    /\ pc[1] = "address" => /\ device[pc[2]].awake /\ device[pc[2]].addr = VL53L0X_DEFAULT_ADDRESS
                            /\ slave = VL53L0X_DEFAULT_ADDRESS
    /\ pc[1] \notin {"wake", "address"} /\ (pc \in BootPcs \/ initialized) =>
           \A s \in AllSensors : Woken(s)
    /\ pc[1] = "config" => slave = vl53l0x_cfgs[pc[2]]

(* What a sensor has been set to before the k-th exchange of InitConfig;   *)
(* two calibrations and the fetching of the SPADs go on in the sensor      *)
(* until the driver has seen their end.                                    *)
Polled(k) == IF k = 4 THEN "STROBE" ELSE "STATUS"

Configured(d, k) ==
    /\ k > 1 => d.regs["MODE"] = "2v8"
    /\ k > 6 => d.regs["SPADS"] = "selected"
    /\ k > 7 => d.regs["TUNING"] = "default"
    /\ k > 8 => d.regs["GPIO"] = "new_sample_ready"
    /\ k > 21 => d.regs["SEQUENCE"] = "range"
    /\ IF k \in {4, 13, 18}
       THEN /\ d.busy \in {"none", Polled(k)}
            /\ Polled(k) \in d.done => d.busy = "none"
       ELSE d.busy = "none"
    /\ k > 9 /\ k \notin {13, 14, 18, 19} => "STATUS" \notin d.done

Stage(s) ==
    IF pc[1] \in {"wake", "address"} THEN 1
    ELSE IF pc[1] \in {"select", "config"}
         THEN IF Rank[s] < Rank[pc[2]] THEN 22 ELSE IF s = pc[2] THEN step ELSE 1
    ELSE IF pc[1] = "interrupt" /\ s # "FRONT" THEN 1 ELSE 22

ConfigInv == pc \in BootPcs \/ initialized =>
                 \A s \in AllSensors : Configured(device[s], Stage(s))

(* The interrupt is enabled with no edge latched, and nothing measures yet. *)
BootInv ==
    /\ pc \in BootPcs => /\ status_multiple = "NOT_STARTED"
                         /\ \A s \in Sensors : sensor[s].busy = "none"
    /\ pc \in BootPcs /\ irq_enabled => ~irq
    /\ pc \in BootPcs => (irq_enabled <=> pc[1] \notin {"wake", "address"} /\ pc[2] # "FRONT")
    /\ initialized => irq_enabled

(* Whatever the checks said, a range that was read is of this round, and   *)
(* its sensor is done and cleared: a measurement starts only from there.   *)
Quiet(s) == sensor[s].busy = "none" /\ ~sensor[s].status
Read1(s) == Quiet(s) /\ latest_ranges[s] = "current"

RoundInv ==
    /\ \A s \in Sensors :
          /\ sensor[s].busy \in {"none", "current"}
          /\ sensor[s].status => sensor[s].busy = "none" /\ sensor[s].range = "current"
    /\ status_multiple = "NOT_STARTED" => \A s \in Sensors : Quiet(s)
    /\ pc = At("read", "FRONT_LEFT") => Read1("FRONT")
    /\ pc = At("read", "FRONT_RIGHT") => Read1("FRONT") /\ Read1("FRONT_LEFT")
    /\ pc = At("start", "NONE") => \A s \in Sensors : IF first_call THEN Quiet(s) ELSE Read1(s)
    /\ pc \in {"start"} \X Sensors => status_multiple # "NOT_STARTED"
    /\ pc = At("start", "FRONT") => \A s \in Sensors : Quiet(s)
    /\ pc = At("start", "FRONT_LEFT") => Quiet("FRONT_LEFT") /\ Quiet("FRONT_RIGHT")
    /\ pc = At("start", "FRONT_RIGHT") => Quiet("FRONT_RIGHT")

(* A sensor is astray only after a fault. *)
AstrayInv == faults = 0 => \A s \in Sensors : ~sensor[s].astray

(* Without a fault the front sensor is done when it is asked. *)
PromptInv ==
    /\ pc # Asserted
    /\ initialized =>
          /\ irq => sensor["FRONT"].status
          /\ sensor["FRONT"].busy # "none" => status_multiple = "MEASURING"
          /\ status_multiple # "MEASURING" => ~irq
          /\ status_multiple = "DONE" =>
                \/ sensor["FRONT"].status
                \/ pc \in {At("read", "FRONT_LEFT"), At("read", "FRONT_RIGHT"), At("start", "NONE")}
          /\ pc[1] \in {"check", "read"} => status_multiple = "DONE"
          /\ pc = At("start", "FRONT") => ~irq /\ status_multiple = "MEASURING"
    /\ pc \in MeasurePcs => initialized

Vl53l0xInv ==
    /\ TypeInv /\ PlaceInv /\ CallInv
    /\ ~garbled => AddressInv /\ ConfigInv /\ BootInv
    /\ ~garbled /\ initialized => RoundInv
    /\ AstrayInv
    /\ faults = 0 /\ ~Refused => PromptInv

-----------------------------------------------------------------------------
(* The exchanges of the initialisation *)
SelectSpads == [Write("SPADS", "selected") EXCEPT !.size = 2]

Exchanges ==
    {Write("MODE", "2v8"), Read("STOP_VARIABLE", 1), Write("STROBE", "start"), PollUntilSet("STROBE"),
     Read("SPADS", 2), SelectSpads, Write("TUNING", "default"), Write("GPIO", "new_sample_ready"),
     Write("INTERRUPT_CLEAR", "clear"), Write("SEQUENCE", "range"), Write("SEQUENCE", "VHV"),
     Write("SEQUENCE", "PHASE"), Write("SYSRANGE_START", "start"), PollUntilSet("STATUS"),
     Write("SYSRANGE_START", "stop")}

LEMMA Joined ==
    ASSUME NEW S, NEW s \in Seq(S), NEW t \in Seq(S)
    PROVE  /\ s \o t \in Seq(S) /\ Len(s \o t) = Len(s) + Len(t)
           /\ \A j \in 1 .. Len(s) : (s \o t)[j] = s[j]
           /\ \A j \in 1 .. Len(t) : (s \o t)[Len(s) + j] = t[j]
<1>1. /\ s \o t \in Seq(S) /\ Len(s \o t) = Len(s) + Len(t)
      /\ \A j \in 1 .. Len(s) + Len(t) :
             (s \o t)[j] = IF j <= Len(s) THEN s[j] ELSE t[j - Len(s)]
  BY ConcatProperties
<1>2. Len(s) \in Nat /\ Len(t) \in Nat
  BY LenProperties
<1>3. ASSUME NEW j \in 1 .. Len(s)
      PROVE  (s \o t)[j] = s[j]
  <2>1. j \in 1 .. Len(s) + Len(t) /\ j <= Len(s)
    BY <1>2
  <2>2. QED
    BY <1>1, <2>1
<1>4. ASSUME NEW j \in 1 .. Len(t)
      PROVE  (s \o t)[Len(s) + j] = t[j]
  <2>1. /\ Len(s) + j \in 1 .. Len(s) + Len(t)
        /\ ~(Len(s) + j <= Len(s)) /\ Len(s) + j - Len(s) = j
    BY <1>2
  <2>2. QED
    BY <1>1, <2>1
<1>5. QED
  BY <1>1, <1>3, <1>4

LEMMA StaticInitExchanges ==
    /\ StaticInit \in Seq(Exchanges) /\ Len(StaticInit) = 8
    /\ StaticInit[1] = Write("STROBE", "start")
    /\ StaticInit[2] = PollUntilSet("STROBE")
    /\ StaticInit[3] = Read("SPADS", 2)
    /\ StaticInit[4] = SelectSpads
    /\ StaticInit[5] = Write("TUNING", "default")
    /\ StaticInit[6] = Write("GPIO", "new_sample_ready")
    /\ StaticInit[7] = Write("INTERRUPT_CLEAR", "clear")
    /\ StaticInit[8] = Write("SEQUENCE", "range")
<1> DEFINE a == SpadsFromNvm
           b == << Write("TUNING", "default"), Write("GPIO", "new_sample_ready"),
                   Write("INTERRUPT_CLEAR", "clear"), Write("SEQUENCE", "range") >>
<1>1. a \in Seq(Exchanges) /\ b \in Seq(Exchanges)
  BY DEF SpadsFromNvm, SelectSpads, Exchanges
<1>2. Len(a) = 4 /\ Len(b) = 4
  BY DEF SpadsFromNvm
<1>3. /\ a[1] = Write("STROBE", "start") /\ a[2] = PollUntilSet("STROBE")
      /\ a[3] = Read("SPADS", 2) /\ a[4] = SelectSpads
  BY DEF SpadsFromNvm, SelectSpads
<1>4. /\ b[1] = Write("TUNING", "default") /\ b[2] = Write("GPIO", "new_sample_ready")
      /\ b[3] = Write("INTERRUPT_CLEAR", "clear") /\ b[4] = Write("SEQUENCE", "range")
  OBVIOUS
<1>5. StaticInit = a \o b
  BY DEF StaticInit
<1> HIDE DEF a, b
<1>6. /\ StaticInit \in Seq(Exchanges) /\ Len(StaticInit) = 8
      /\ \A j \in 1 .. 4 : StaticInit[j] = a[j]
      /\ \A j \in 1 .. 4 : StaticInit[4 + j] = b[j]
  <2>1. /\ a \o b \in Seq(Exchanges) /\ Len(a \o b) = Len(a) + Len(b)
        /\ \A j \in 1 .. Len(a) : (a \o b)[j] = a[j]
        /\ \A j \in 1 .. Len(b) : (a \o b)[Len(a) + j] = b[j]
    BY <1>1, Joined
  <2>2. /\ StaticInit \in Seq(Exchanges) /\ Len(StaticInit) = Len(a) + Len(b)
        /\ \A j \in 1 .. Len(a) : StaticInit[j] = a[j]
        /\ \A j \in 1 .. Len(b) : StaticInit[Len(a) + j] = b[j]
    BY <2>1, <1>5
  <2>3. Len(a) = 4 /\ Len(b) = 4
    BY <1>2
  <2>4. QED
    BY <2>2, <2>3
<1>7. /\ StaticInit[1] = a[1] /\ StaticInit[2] = a[2] /\ StaticInit[3] = a[3] /\ StaticInit[4] = a[4] /\ StaticInit[5] = b[1]
       /\ StaticInit[6] = b[2] /\ StaticInit[7] = b[3] /\ StaticInit[8] = b[4]
  BY <1>6
<1>8. QED
  BY <1>3, <1>4, <1>6, <1>7

LEMMA CalibrationExchanges ==
    ASSUME NEW type \in {"VHV", "PHASE"}
    PROVE  /\ Calibration(type) \in Seq(Exchanges) /\ Len(Calibration(type)) = 5
           /\ Calibration(type)[1] = Write("SEQUENCE", type)
           /\ Calibration(type)[2] = Write("SYSRANGE_START", "start")
           /\ Calibration(type)[3] = PollUntilSet("STATUS")
           /\ Calibration(type)[4] = Write("INTERRUPT_CLEAR", "clear")
           /\ Calibration(type)[5] = Write("SYSRANGE_START", "stop")
<1>1. Write("SEQUENCE", type) \in Exchanges
  BY DEF Exchanges
<1>2. /\ Write("SYSRANGE_START", "start") \in Exchanges /\ PollUntilSet("STATUS") \in Exchanges
      /\ Write("INTERRUPT_CLEAR", "clear") \in Exchanges
      /\ Write("SYSRANGE_START", "stop") \in Exchanges
  BY DEF Exchanges
<1>3. Calibration(type) \in Seq(Exchanges)
  BY <1>1, <1>2 DEF Calibration
<1>4. QED
  BY <1>3 DEF Calibration

LEMMA RefCalibrationExchanges ==
    /\ RefCalibration \in Seq(Exchanges) /\ Len(RefCalibration) = 11
    /\ RefCalibration[1] = Write("SEQUENCE", "VHV")
    /\ RefCalibration[2] = Write("SYSRANGE_START", "start")
    /\ RefCalibration[3] = PollUntilSet("STATUS")
    /\ RefCalibration[4] = Write("INTERRUPT_CLEAR", "clear")
    /\ RefCalibration[5] = Write("SYSRANGE_START", "stop")
    /\ RefCalibration[6] = Write("SEQUENCE", "PHASE")
    /\ RefCalibration[7] = Write("SYSRANGE_START", "start")
    /\ RefCalibration[8] = PollUntilSet("STATUS")
    /\ RefCalibration[9] = Write("INTERRUPT_CLEAR", "clear")
    /\ RefCalibration[10] = Write("SYSRANGE_START", "stop")
    /\ RefCalibration[11] = Write("SEQUENCE", "range")
<1> DEFINE a == Calibration("VHV")
           b == Calibration("PHASE")
           c == <<Write("SEQUENCE", "range")>>
           ab == a \o b
<1>1. a \in Seq(Exchanges) /\ b \in Seq(Exchanges)
  BY CalibrationExchanges
<1>2. c \in Seq(Exchanges)
  BY DEF Exchanges
<1>3. Len(a) = 5 /\ Len(b) = 5
  BY CalibrationExchanges
<1>4. Len(c) = 1 /\ c[1] = Write("SEQUENCE", "range")
  OBVIOUS
<1>5. RefCalibration = ab \o c
  BY DEF RefCalibration
<1> HIDE DEF a, b, c, ab
<1>6. /\ ab \in Seq(Exchanges) /\ Len(ab) = 10
      /\ \A j \in 1 .. 5 : ab[j] = a[j]
      /\ \A j \in 1 .. 5 : ab[5 + j] = b[j]
  <2>1. /\ a \o b \in Seq(Exchanges) /\ Len(a \o b) = Len(a) + Len(b)
        /\ \A j \in 1 .. Len(a) : (a \o b)[j] = a[j]
        /\ \A j \in 1 .. Len(b) : (a \o b)[Len(a) + j] = b[j]
    BY <1>1, Joined
  <2>2. /\ ab \in Seq(Exchanges) /\ Len(ab) = Len(a) + Len(b)
        /\ \A j \in 1 .. Len(a) : ab[j] = a[j]
        /\ \A j \in 1 .. Len(b) : ab[Len(a) + j] = b[j]
    BY <2>1 DEF ab
  <2>3. Len(a) = 5 /\ Len(b) = 5
    BY <1>3
  <2>4. QED
    BY <2>2, <2>3
<1>7. /\ RefCalibration \in Seq(Exchanges) /\ Len(RefCalibration) = 11
      /\ \A j \in 1 .. 10 : RefCalibration[j] = ab[j]
      /\ \A j \in 1 .. 1 : RefCalibration[10 + j] = c[j]
  <2>1. /\ ab \o c \in Seq(Exchanges) /\ Len(ab \o c) = Len(ab) + Len(c)
        /\ \A j \in 1 .. Len(ab) : (ab \o c)[j] = ab[j]
        /\ \A j \in 1 .. Len(c) : (ab \o c)[Len(ab) + j] = c[j]
    <3>1. ab \in Seq(Exchanges)
      BY <1>6
    <3>2. QED
      BY <1>2, <3>1, Joined
  <2>2. /\ RefCalibration \in Seq(Exchanges) /\ Len(RefCalibration) = Len(ab) + Len(c)
        /\ \A j \in 1 .. Len(ab) : RefCalibration[j] = ab[j]
        /\ \A j \in 1 .. Len(c) : RefCalibration[Len(ab) + j] = c[j]
    BY <2>1, <1>5
  <2>3. Len(ab) = 10 /\ Len(c) = 1
    BY <1>4, <1>6
  <2>4. QED
    BY <2>2, <2>3
<1>8. /\ ab[1] = a[1] /\ ab[2] = a[2] /\ ab[3] = a[3] /\ ab[4] = a[4] /\ ab[5] = a[5]
       /\ ab[6] = b[1] /\ ab[7] = b[2] /\ ab[8] = b[3] /\ ab[9] = b[4] /\ ab[10] = b[5]
  BY <1>6
<1>9. /\ RefCalibration[1] = ab[1] /\ RefCalibration[2] = ab[2] /\ RefCalibration[3] = ab[3] /\ RefCalibration[4] = ab[4] /\ RefCalibration[5] = ab[5]
       /\ RefCalibration[6] = ab[6] /\ RefCalibration[7] = ab[7] /\ RefCalibration[8] = ab[8] /\ RefCalibration[9] = ab[9] /\ RefCalibration[10] = ab[10]
       /\ RefCalibration[11] = c[1]
  BY <1>7
<1>10. /\ RefCalibration[1] = a[1] /\ RefCalibration[2] = a[2] /\ RefCalibration[3] = a[3]
       /\ RefCalibration[4] = a[4] /\ RefCalibration[5] = a[5] /\ RefCalibration[6] = b[1]
       /\ RefCalibration[7] = b[2] /\ RefCalibration[8] = b[3] /\ RefCalibration[9] = b[4]
       /\ RefCalibration[10] = b[5] /\ RefCalibration[11] = c[1]
  BY <1>8, <1>9
<1>11. RefCalibration \in Seq(Exchanges) /\ Len(RefCalibration) = 11
  BY <1>7
<1>12. QED
  BY <1>4, <1>10, <1>11, CalibrationExchanges DEF a, b

(* The 21 exchanges of vl53l0x_init_config, in order. *)
LEMMA InitConfigExchanges ==
    /\ InitConfig \in Seq(Exchanges) /\ Len(InitConfig) = 21
    /\ InitConfig[1] = Write("MODE", "2v8") /\ InitConfig[2] = Read("STOP_VARIABLE", 1)
    /\ InitConfig[3] = Write("STROBE", "start") /\ InitConfig[4] = PollUntilSet("STROBE")
    /\ InitConfig[5] = Read("SPADS", 2) /\ InitConfig[6] = SelectSpads
    /\ InitConfig[7] = Write("TUNING", "default")
    /\ InitConfig[8] = Write("GPIO", "new_sample_ready")
    /\ InitConfig[9] = Write("INTERRUPT_CLEAR", "clear")
    /\ InitConfig[10] = Write("SEQUENCE", "range")
    /\ InitConfig[11] = Write("SEQUENCE", "VHV")
    /\ InitConfig[12] = Write("SYSRANGE_START", "start")
    /\ InitConfig[13] = PollUntilSet("STATUS")
    /\ InitConfig[14] = Write("INTERRUPT_CLEAR", "clear")
    /\ InitConfig[15] = Write("SYSRANGE_START", "stop")
    /\ InitConfig[16] = Write("SEQUENCE", "PHASE")
    /\ InitConfig[17] = Write("SYSRANGE_START", "start")
    /\ InitConfig[18] = PollUntilSet("STATUS")
    /\ InitConfig[19] = Write("INTERRUPT_CLEAR", "clear")
    /\ InitConfig[20] = Write("SYSRANGE_START", "stop")
    /\ InitConfig[21] = Write("SEQUENCE", "range")
<1> DEFINE a == DataInit
           b == StaticInit
           c == RefCalibration
           ab == a \o b
<1>1. a \in Seq(Exchanges)
  BY DEF DataInit, Exchanges
<1>2. Len(a) = 2 /\ a[1] = Write("MODE", "2v8") /\ a[2] = Read("STOP_VARIABLE", 1)
  BY DEF DataInit
<1>3. b \in Seq(Exchanges) /\ c \in Seq(Exchanges)
  BY StaticInitExchanges, RefCalibrationExchanges
<1>4. Len(b) = 8 /\ Len(c) = 11
  BY StaticInitExchanges, RefCalibrationExchanges
<1>5. InitConfig = ab \o c
  BY DEF InitConfig
<1> HIDE DEF a, b, c, ab
<1>6. /\ ab \in Seq(Exchanges) /\ Len(ab) = 10
      /\ \A j \in 1 .. 2 : ab[j] = a[j]
      /\ \A j \in 1 .. 8 : ab[2 + j] = b[j]
  <2>1. /\ a \o b \in Seq(Exchanges) /\ Len(a \o b) = Len(a) + Len(b)
        /\ \A j \in 1 .. Len(a) : (a \o b)[j] = a[j]
        /\ \A j \in 1 .. Len(b) : (a \o b)[Len(a) + j] = b[j]
    BY <1>1, <1>3, Joined
  <2>2. /\ ab \in Seq(Exchanges) /\ Len(ab) = Len(a) + Len(b)
        /\ \A j \in 1 .. Len(a) : ab[j] = a[j]
        /\ \A j \in 1 .. Len(b) : ab[Len(a) + j] = b[j]
    BY <2>1 DEF ab
  <2>3. Len(a) = 2 /\ Len(b) = 8
    BY <1>2, <1>4
  <2>4. QED
    BY <2>2, <2>3
<1>7. /\ InitConfig \in Seq(Exchanges) /\ Len(InitConfig) = 21
      /\ \A j \in 1 .. 10 : InitConfig[j] = ab[j]
      /\ \A j \in 1 .. 11 : InitConfig[10 + j] = c[j]
  <2>1. /\ ab \o c \in Seq(Exchanges) /\ Len(ab \o c) = Len(ab) + Len(c)
        /\ \A j \in 1 .. Len(ab) : (ab \o c)[j] = ab[j]
        /\ \A j \in 1 .. Len(c) : (ab \o c)[Len(ab) + j] = c[j]
    <3>1. ab \in Seq(Exchanges)
      BY <1>6
    <3>2. QED
      BY <1>3, <3>1, Joined
  <2>2. /\ InitConfig \in Seq(Exchanges) /\ Len(InitConfig) = Len(ab) + Len(c)
        /\ \A j \in 1 .. Len(ab) : InitConfig[j] = ab[j]
        /\ \A j \in 1 .. Len(c) : InitConfig[Len(ab) + j] = c[j]
    BY <2>1, <1>5
  <2>3. Len(ab) = 10 /\ Len(c) = 11
    BY <1>4, <1>6
  <2>4. QED
    BY <2>2, <2>3
<1>8. /\ ab[1] = a[1] /\ ab[2] = a[2] /\ ab[3] = b[1] /\ ab[4] = b[2] /\ ab[5] = b[3]
       /\ ab[6] = b[4] /\ ab[7] = b[5] /\ ab[8] = b[6] /\ ab[9] = b[7] /\ ab[10] = b[8]
  BY <1>6
<1>9. /\ InitConfig[1] = ab[1] /\ InitConfig[2] = ab[2] /\ InitConfig[3] = ab[3] /\ InitConfig[4] = ab[4] /\ InitConfig[5] = ab[5]
       /\ InitConfig[6] = ab[6] /\ InitConfig[7] = ab[7] /\ InitConfig[8] = ab[8] /\ InitConfig[9] = ab[9] /\ InitConfig[10] = ab[10]
       /\ InitConfig[11] = c[1] /\ InitConfig[12] = c[2] /\ InitConfig[13] = c[3] /\ InitConfig[14] = c[4] /\ InitConfig[15] = c[5]
       /\ InitConfig[16] = c[6] /\ InitConfig[17] = c[7] /\ InitConfig[18] = c[8] /\ InitConfig[19] = c[9] /\ InitConfig[20] = c[10]
       /\ InitConfig[21] = c[11]
  BY <1>7
<1>10. /\ InitConfig[1] = a[1] /\ InitConfig[2] = a[2] /\ InitConfig[3] = b[1]
       /\ InitConfig[4] = b[2] /\ InitConfig[5] = b[3] /\ InitConfig[6] = b[4]
       /\ InitConfig[7] = b[5] /\ InitConfig[8] = b[6] /\ InitConfig[9] = b[7]
       /\ InitConfig[10] = b[8]
  BY <1>8, <1>9
<1>11. InitConfig \in Seq(Exchanges) /\ Len(InitConfig) = 21
  BY <1>7
<1>12. QED
  BY <1>2, <1>9, <1>10, <1>11, StaticInitExchanges, RefCalibrationExchanges DEF b, c

LEMMA InitAddressExchanges ==
    /\ Len(InitAddress) = 2
    /\ InitAddress[1] = Read("MODEL_ID", 1) /\ InitAddress[2] = Write("ADDRESS", "own")
BY DEF InitAddress

-----------------------------------------------------------------------------
(* What the exchanges of InitConfig make of a sensor *)
LEMMA WrittenRegister ==
    ASSUME NEW d \in Device, NEW s \in AllSensors, NEW e,
           e.reg \in Registers, e.value \in Values
    PROVE  /\ Written(d, s, e) \in Device
           /\ Written(d, s, e).awake = d.awake /\ Written(d, s, e).addr = d.addr
           /\ Written(d, s, e).busy = d.busy /\ Written(d, s, e).done = d.done
           /\ Written(d, s, e).regs = [d.regs EXCEPT ![e.reg] = e.value]
<1>1. Written(d, s, e) = [d EXCEPT !.regs[e.reg] = e.value]
  BY DEF Written, Registers
<1>2. [d.regs EXCEPT ![e.reg] = e.value] \in [Registers -> Values]
  BY DEF Device
<1>3. QED
  BY <1>1, <1>2 DEF Device

LEMMA WrittenCommand ==
    ASSUME NEW d \in Device, NEW s \in AllSensors
    PROVE  LET strobe == Written(d, s, Write("STROBE", "start"))
               start == Written(d, s, Write("SYSRANGE_START", "start"))
               stop == Written(d, s, Write("SYSRANGE_START", "stop"))
               clear == Written(d, s, Write("INTERRUPT_CLEAR", "clear"))
           IN  /\ strobe = [d EXCEPT !.busy = "STROBE", !.done = d.done \ {"STROBE"}]
               /\ start = [d EXCEPT !.busy = "STATUS"]
               /\ stop = [d EXCEPT !.busy = "none"]
               /\ clear = [d EXCEPT !.done = d.done \ {"STATUS"}]
BY DEF Written, Write, Device

LEMMA ExchangeConfigures ==
    ASSUME NEW d \in Device, NEW s \in AllSensors, NEW k \in 1 .. 21, Configured(d, k)
    PROVE  /\ InitConfig[k].op = "write" =>
                  /\ Written(d, s, InitConfig[k]) \in Device
                  /\ Configured(Written(d, s, InitConfig[k]), k + 1)
                  /\ Written(d, s, InitConfig[k]).awake = d.awake
                  /\ Written(d, s, InitConfig[k]).addr = d.addr
           /\ InitConfig[k].op = "read" => Configured(d, k + 1)
           /\ InitConfig[k].op = "poll" /\ InitConfig[k].reg \in d.done => Configured(d, k + 1)
<1>1. CASE k \in {1, 6, 7, 8, 10, 11, 16, 21}
  <2>1. ASSUME k = 1
        PROVE  InitConfig[k].op = "write" /\ InitConfig[k].reg = "MODE" /\ InitConfig[k].value = "2v8"
    BY <2>1, InitConfigExchanges DEF Write
  <2>2. ASSUME k = 6
        PROVE  InitConfig[k].op = "write" /\ InitConfig[k].reg = "SPADS" /\ InitConfig[k].value = "selected"
    BY <2>2, InitConfigExchanges DEF Write, SelectSpads
  <2>3. ASSUME k = 7
        PROVE  InitConfig[k].op = "write" /\ InitConfig[k].reg = "TUNING" /\ InitConfig[k].value = "default"
    BY <2>3, InitConfigExchanges DEF Write
  <2>4. ASSUME k = 8
        PROVE  InitConfig[k].op = "write" /\ InitConfig[k].reg = "GPIO" /\ InitConfig[k].value = "new_sample_ready"
    BY <2>4, InitConfigExchanges DEF Write
  <2>5. ASSUME k = 10
        PROVE  InitConfig[k].op = "write" /\ InitConfig[k].reg = "SEQUENCE" /\ InitConfig[k].value = "range"
    BY <2>5, InitConfigExchanges DEF Write
  <2>6. ASSUME k = 11
        PROVE  InitConfig[k].op = "write" /\ InitConfig[k].reg = "SEQUENCE" /\ InitConfig[k].value = "VHV"
    BY <2>6, InitConfigExchanges DEF Write
  <2>7. ASSUME k = 16
        PROVE  InitConfig[k].op = "write" /\ InitConfig[k].reg = "SEQUENCE" /\ InitConfig[k].value = "PHASE"
    BY <2>7, InitConfigExchanges DEF Write
  <2>8. ASSUME k = 21
        PROVE  InitConfig[k].op = "write" /\ InitConfig[k].reg = "SEQUENCE" /\ InitConfig[k].value = "range"
    BY <2>8, InitConfigExchanges DEF Write
  <2>9. /\ InitConfig[k].op = "write"
        /\ InitConfig[k].reg \in Registers /\ InitConfig[k].value \in Values
    BY <1>1, <2>1, <2>2, <2>3, <2>4, <2>5, <2>6, <2>7, <2>8 DEF Registers, Values
  <2> DEFINE e == Written(d, s, InitConfig[k])
  <2>10. /\ e \in Device /\ e.awake = d.awake /\ e.addr = d.addr
         /\ e.busy = d.busy /\ e.done = d.done
         /\ e.regs = [d.regs EXCEPT ![InitConfig[k].reg] = InitConfig[k].value]
    BY <2>9, WrittenRegister
  <2> HIDE DEF e
  <2>11. Configured(e, k + 1)
    BY <1>1, <2>1, <2>2, <2>3, <2>4, <2>5, <2>6, <2>7, <2>8, <2>10 DEF Configured, Device, Registers, Polled
  <2>12. QED
    BY <2>9, <2>10, <2>11 DEF e
<1>2. CASE k \in {2, 5}
  <2>1. InitConfig[k].op = "read"
    BY <1>2, InitConfigExchanges DEF Read
  <2>2. Configured(d, k + 1)
    BY <1>2 DEF Configured
  <2>3. QED
    BY <2>1, <2>2
<1>3. CASE k = 3
  <2> DEFINE e == Written(d, s, Write("STROBE", "start"))
  <2>1. InitConfig[k] = Write("STROBE", "start")
    BY <1>3, InitConfigExchanges
  <2>2. e = [d EXCEPT !.busy = "STROBE", !.done = d.done \ {"STROBE"}]
    BY WrittenCommand
  <2> HIDE DEF e
  <2>3. e \in Device /\ e.awake = d.awake /\ e.addr = d.addr
    BY <2>2 DEF Device
  <2>4. Configured(e, k + 1)
    BY <1>3, <2>2 DEF Configured, Device, Polled
  <2>5. QED
    BY <2>1, <2>3, <2>4 DEF e, Write
<1>4. CASE k \in {12, 17}
  <2> DEFINE e == Written(d, s, Write("SYSRANGE_START", "start"))
  <2>1. InitConfig[k] = Write("SYSRANGE_START", "start")
    BY <1>4, InitConfigExchanges
  <2>2. e = [d EXCEPT !.busy = "STATUS"]
    BY WrittenCommand
  <2> HIDE DEF e
  <2>3. e \in Device /\ e.awake = d.awake /\ e.addr = d.addr
    BY <2>2 DEF Device
  <2>4. Configured(e, k + 1)
    BY <1>4, <2>2 DEF Configured, Device, Polled
  <2>5. QED
    BY <2>1, <2>3, <2>4 DEF e, Write
<1>5. CASE k \in {15, 20}
  <2> DEFINE e == Written(d, s, Write("SYSRANGE_START", "stop"))
  <2>1. InitConfig[k] = Write("SYSRANGE_START", "stop")
    BY <1>5, InitConfigExchanges
  <2>2. e = [d EXCEPT !.busy = "none"]
    BY WrittenCommand
  <2> HIDE DEF e
  <2>3. e \in Device /\ e.awake = d.awake /\ e.addr = d.addr
    BY <2>2 DEF Device
  <2>4. Configured(e, k + 1)
    BY <1>5, <2>2 DEF Configured, Device, Polled
  <2>5. QED
    BY <2>1, <2>3, <2>4 DEF e, Write
<1>6. CASE k \in {9, 14, 19}
  <2> DEFINE e == Written(d, s, Write("INTERRUPT_CLEAR", "clear"))
  <2>1. InitConfig[k] = Write("INTERRUPT_CLEAR", "clear")
    BY <1>6, InitConfigExchanges
  <2>2. e = [d EXCEPT !.done = d.done \ {"STATUS"}]
    BY WrittenCommand
  <2> HIDE DEF e
  <2>3. e \in Device /\ e.awake = d.awake /\ e.addr = d.addr
    BY <2>2 DEF Device
  <2>4. Configured(e, k + 1)
    BY <1>6, <2>2 DEF Configured, Device, Polled
  <2>5. QED
    BY <2>1, <2>3, <2>4 DEF e, Write
<1>7. CASE k \in {4, 13, 18}
  <2>1. InitConfig[k].op = "poll" /\ InitConfig[k].reg = Polled(k)
    BY <1>7, InitConfigExchanges DEF PollUntilSet, Polled
  <2>2. Polled(k) \in d.done => Configured(d, k + 1)
    BY <1>7 DEF Configured, Polled
  <2>3. QED
    BY <2>1, <2>2
<1>8. QED
  BY <1>1, <1>2, <1>3, <1>4, <1>5, <1>6, <1>7

-----------------------------------------------------------------------------
(* Where the driver is *)
LEMMA Addresses ==
    /\ \A s \in AllSensors : /\ vl53l0x_cfgs[s] \in Nat
                             /\ vl53l0x_cfgs[s] # VL53L0X_DEFAULT_ADDRESS
                             /\ Rank[s] \in 1 .. 5
    /\ \A s, t \in AllSensors : vl53l0x_cfgs[s] = vl53l0x_cfgs[t] => s = t
    /\ \A s, t \in AllSensors : Rank[s] = Rank[t] => s = t
BY DEF AllSensors, vl53l0x_cfgs, VL53L0X_DEFAULT_ADDRESS, Rank

LEMMA Order ==
    \A s \in AllSensors :
        /\ Rank[s] = 1 <=> s = "FRONT"
        /\ Rank[s] = 5 <=> After(s) = "NONE"
        /\ After(s) # "NONE" => /\ After(s) \in AllSensors /\ After(s) # "FRONT"
                                /\ Rank[After(s)] = Rank[s] + 1
BY DEF AllSensors, Rank, After

LEMMA Places ==
    ASSUME NEW p
    PROVE  /\ p \in BootPcs =>
                 /\ p \notin MeasurePcs
                 /\ p[1] \in {"wake", "address", "select", "config", "interrupt", "finish"}
                 /\ p[1] \in {"wake", "address", "select", "config"} => p[2] \in AllSensors
                 /\ p[1] = "interrupt" => p[2] = "FRONT"
                 /\ p[1] = "finish" => p[2] = "NONE"
                 /\ p = At(p[1], p[2])
           /\ p \in MeasurePcs =>
                 /\ p[1] \in {"idle", "copy", "assert", "stuck",
                             "start", "started", "wait", "check", "read"}
                 /\ p[1] \in {"check", "read"} => p[2] \in Sensors
                 /\ p = At(p[1], p[2])
BY DEF BootPcs, MeasurePcs, At, Idle, Copy, Asserted, Stuck, Sensors, AllSensors

LEMMA OneAnswers ==
    ASSUME PlaceInv, AddressInv, TypeInv, pc[1] \in InitOps
    PROVE  Answering = {pc[2]} /\ pc[2] \in AllSensors
<1>1. pc \in BootPcs /\ pc[2] \in AllSensors /\ pc[1] \in {"address", "config"}
  BY Places DEF PlaceInv, InitOps
<1>2. ASSUME NEW s \in AllSensors
      PROVE  device[s].awake /\ device[s].addr = slave <=> s = pc[2]
  <2>1. CASE pc[1] = "address"
    <3>1. s = pc[2] \/ Rank[s] < Rank[pc[2]] \/ Rank[s] > Rank[pc[2]]
      BY <1>1, Addresses
    <3>2. CASE s = pc[2]
      BY <2>1, <3>2 DEF AddressInv
    <3>3. CASE Rank[s] < Rank[pc[2]]
      <4>1. device[s].addr = vl53l0x_cfgs[s] /\ slave = VL53L0X_DEFAULT_ADDRESS
        BY <2>1, <3>3 DEF AddressInv, Woken
      <4>2. s # pc[2]
        BY <1>1, <3>3, Addresses
      <4>3. QED
        BY <4>1, <4>2, Addresses
    <3>4. CASE Rank[s] > Rank[pc[2]]
      <4>1. ~device[s].awake
        BY <2>1, <3>4 DEF AddressInv, Asleep
      <4>2. s # pc[2]
        BY <1>1, <3>4, Addresses
      <4>3. QED
        BY <4>1, <4>2
    <3>5. QED
      BY <3>1, <3>2, <3>3, <3>4
  <2>2. CASE pc[1] = "config"
    BY <1>1, <2>2, Addresses DEF AddressInv, Woken
  <2>3. QED
    BY <1>1, <2>1, <2>2
<1>3. QED
  BY <1>1, <1>2 DEF Answering

(* The exchange that the driver is at. *)
LEMMA CurrentExchange ==
    ASSUME PlaceInv
    PROVE  /\ pc[1] = "address" => /\ step = 1 \/ step = 2
                                   /\ step = 1 => Current = Read("MODEL_ID", 1)
                                   /\ step = 2 => Current = Write("ADDRESS", "own")
                                   /\ Len(Program(pc[1])) = 2
           /\ pc[1] = "config" => /\ step \in 1 .. 21 /\ Current = InitConfig[step]
                                  /\ Current \in Exchanges
                                  /\ Len(Program(pc[1])) = 21
<1>1. ASSUME pc[1] = "address"
      PROVE  /\ step = 1 \/ step = 2
             /\ step = 1 => Current = Read("MODEL_ID", 1)
             /\ step = 2 => Current = Write("ADDRESS", "own")
             /\ Len(Program(pc[1])) = 2
  <2>1. Program(pc[1]) = InitAddress /\ Current = InitAddress[step]
    BY <1>1 DEF Current, Program
  <2>2. step = 1 \/ step = 2
    BY <1>1 DEF PlaceInv
  <2>3. QED
    BY <2>1, <2>2, InitAddressExchanges
<1>2. ASSUME pc[1] = "config"
      PROVE  /\ step \in 1 .. 21 /\ Current = InitConfig[step]
             /\ Current \in Exchanges
             /\ Len(Program(pc[1])) = 21
  <2>1. Program(pc[1]) = InitConfig /\ Current = InitConfig[step]
    BY <1>2 DEF Current, Program
  <2>2. step \in 1 .. 21
    BY <1>2 DEF PlaceInv
  <2>3. InitConfig \in Seq(Exchanges) /\ Len(InitConfig) = 21
    BY InitConfigExchanges
  <2>4. InitConfig[step] \in Exchanges
    BY <2>2, <2>3, ElementOfSeq
  <2>5. QED
    BY <2>1, <2>2, <2>3, <2>4
<1>3. QED
  BY <1>1, <1>2

(* What comes after an exchange: a driver that goes on stays in the order. *)
LEMMA AddressAdvances ==
    ASSUME PlaceInv, pc[1] = "address", Advances
    PROVE  /\ step = 1 => step' = 2 /\ pc' = pc
           /\ step = 2 => step' = 1 /\ pc' = IF After(pc[2]) = "NONE" THEN At("select", "FRONT")
                                                                    ELSE At("wake", After(pc[2]))
           /\ pc' \in BootPcs /\ step' \in Nat
           /\ step = 1 \/ step = 2
<1>1. pc \in BootPcs /\ pc[2] \in AllSensors
  BY Places DEF PlaceInv
<1> DEFINE last == Len(Program(pc[1]))
<1>2. last = 2 /\ (step = 1 \/ step = 2)
  BY CurrentExchange
<1>9. IF step < last THEN step' = step + 1 /\ pc' = pc
                     ELSE step' = 1 /\ pc' = NextSensor(pc[1], pc[2])
  BY DEF Advances
<1> HIDE DEF last
<1>3. step = 1 => step' = 2 /\ pc' = pc
  BY <1>2, <1>9
<1>4. step = 2 => step' = 1 /\ pc' = IF After(pc[2]) = "NONE" THEN At("select", "FRONT")
                                                             ELSE At("wake", After(pc[2]))
  <2>1. step = 2 => step' = 1 /\ pc' = NextSensor(pc[1], pc[2])
    BY <1>2, <1>9
  <2>2. QED
    BY <2>1 DEF NextSensor
<1>5. At("select", "FRONT") \in BootPcs
  BY DEF BootPcs, At, AllSensors
<1>6. \A s \in AllSensors : At("wake", s) \in BootPcs
  BY DEF BootPcs, At
<1>7. pc' \in BootPcs
  BY <1>1, <1>2, <1>3, <1>4, <1>5, <1>6, Order
<1>8. QED
  BY <1>2, <1>3, <1>4, <1>7

LEMMA ConfigAdvances ==
    ASSUME PlaceInv, pc[1] = "config", Advances
    PROVE  /\ step < 21 => step' = step + 1 /\ pc' = pc
           /\ step = 21 => /\ step' = 1
                           /\ pc' = IF pc[2] = "FRONT" THEN At("interrupt", "FRONT")
                                    ELSE IF After(pc[2]) = "NONE" THEN At("finish", "NONE")
                                    ELSE At("select", After(pc[2]))
           /\ pc' \in BootPcs /\ step' \in Nat /\ step \in 1 .. 21
<1>1. pc \in BootPcs /\ pc[2] \in AllSensors
  BY Places DEF PlaceInv
<1>2. Len(Program(pc[1])) = 21 /\ step \in 1 .. 21
  BY CurrentExchange
<1>3. step < 21 => step' = step + 1 /\ pc' = pc
  BY <1>2 DEF Advances
<1>4. step = 21 => /\ step' = 1
                   /\ pc' = IF pc[2] = "FRONT" THEN At("interrupt", "FRONT")
                            ELSE IF After(pc[2]) = "NONE" THEN At("finish", "NONE")
                            ELSE At("select", After(pc[2]))
  <2>1. step = 21 => step' = 1 /\ pc' = NextSensor(pc[1], pc[2])
    BY <1>2 DEF Advances
  <2>2. pc[1] # "address"
    OBVIOUS
  <2>3. QED
    BY <2>1, <2>2 DEF NextSensor
<1>5. At("interrupt", "FRONT") \in BootPcs /\ At("finish", "NONE") \in BootPcs
  BY DEF BootPcs
<1>6. \A s \in AllSensors : At("select", s) \in BootPcs
  BY DEF BootPcs, At
<1>7. pc' \in BootPcs
  BY <1>1, <1>2, <1>3, <1>4, <1>5, <1>6, Order
<1>8. QED
  BY <1>2, <1>3, <1>4, <1>7

(* While a sensor is configured the others keep their stage.               *)
LEMMA StageAdvances ==
    ASSUME PlaceInv, pc[1] = "config", Advances, NEW s \in AllSensors
    PROVE  /\ Stage(s)' = IF s = pc[2] THEN step + 1 ELSE Stage(s)
           /\ Stage(pc[2]) = step
<1> DEFINE now == pc[2]
<1>1. now \in AllSensors /\ pc = At("config", now)
  BY Places DEF PlaceInv
<1>2. Stage(s) = IF Rank[s] < Rank[now] THEN 22 ELSE IF s = now THEN step ELSE 1
  BY DEF Stage
<1>3. Stage(now) = step
  BY <1>1, Addresses DEF Stage
<1>4. step \in 1 .. 21
  BY ConfigAdvances
<1>5. CASE step < 21
  <2>1. step' = step + 1 /\ pc' = pc
    BY <1>5, ConfigAdvances
  <2>2. Stage(s)' = IF Rank[s] < Rank[now] THEN 22 ELSE IF s = now THEN step + 1 ELSE 1
    BY <2>1 DEF Stage
  <2>3. s = now => ~(Rank[s] < Rank[now])
    BY <1>1, Addresses
  <2>4. QED
    BY <1>2, <1>3, <2>2, <2>3
<1>6. CASE step = 21 /\ now = "FRONT"
  <2>1. pc' = At("interrupt", "FRONT")
    BY <1>6, ConfigAdvances
  <2>2. Stage(s)' = IF s # "FRONT" THEN 1 ELSE 22
    BY <2>1 DEF Stage, At
  <2>3. ~(Rank[s] < Rank[now])
    BY <1>1, <1>6, Addresses, Order
  <2>4. QED
    BY <1>2, <1>3, <1>6, <2>2, <2>3
<1>7. CASE step = 21 /\ now # "FRONT" /\ After(now) = "NONE"
  <2>1. pc' = At("finish", "NONE")
    BY <1>7, ConfigAdvances
  <2>2. Stage(s)' = 22
    BY <2>1 DEF Stage, At
  <2>3. s # now => Rank[s] < Rank[now]
    BY <1>1, <1>7, Addresses, Order
  <2>4. QED
    BY <1>2, <1>3, <1>7, <2>2, <2>3
<1>8. CASE step = 21 /\ now # "FRONT" /\ After(now) # "NONE"
  <2>1. pc' = At("select", After(now)) /\ step' = 1
    BY <1>8, ConfigAdvances
  <2>2. Stage(s)' = IF Rank[s] < Rank[After(now)] THEN 22 ELSE 1
    BY <2>1 DEF Stage, At
  <2>3. Rank[s] < Rank[After(now)] <=> Rank[s] < Rank[now] \/ s = now
    BY <1>1, <1>8, Addresses, Order
  <2>4. QED
    BY <1>2, <1>3, <1>8, <2>2, <2>3
<1>9. QED
  BY <1>4, <1>5, <1>6, <1>7, <1>8

-----------------------------------------------------------------------------
(* The calls of I2c *)
LEMMA CallProceeds ==
    ASSUME TypeInv, PlaceInv, CallInv, ~garbled => AddressInv,
           Transfer \/ Transferring \/ Bus
    PROVE  /\ faults' \in Nat /\ retries' \in Nat /\ bus' \in {"works", "stalls"}
           /\ phase' \in Waits \cup {"idle", "ok", "error"}
           /\ CallInv'
           /\ pc[1] \in InitOps
           /\ UNCHANGED <<pc, step, slave, device, garbled, irq, irq_enabled, initialized>>
<1> USE DEF TypeInv, CallType, CallInv
<1>1. RETRY_COUNT \in Nat /\ RETRY_COUNT > 1
  BY RetriesAssumption
<1>2. CASE Transfer
  BY <1>1, <1>2 DEF Transfer, Begin, Waits
<1>3. CASE Transferring
  <2>1. phase \in Waits /\ pc[1] \in InitOps
    BY <1>3 DEF Transferring, Poll, WaitEnds, PlaceInv, Waits
  <2>2. UNCHANGED <<pc, step, slave, device, garbled, irq, irq_enabled, initialized>>
    BY <1>3 DEF Transferring
  <2>3. CASE Poll
    <3>1. /\ faults' = faults /\ bus' = bus /\ phase' = phase /\ retries' = retries - 1
          /\ GoesOn /\ InTime
      BY <2>3 DEF Poll
    <3>2. nack' = nack /\ lost' = lost
      BY <2>3 DEF Poll
    <3>3. phase \in PostDecremented => retries > 0
      BY <3>1 DEF GoesOn
    <3>4. phase \notin PostDecremented => retries > 1
      BY <3>1 DEF GoesOn
    <3>5. bus = "works" => retries > 1
      BY <3>1 DEF InTime
    <3>6. retries' \in Nat /\ (phase' \notin PostDecremented => retries' > 0)
      BY <3>1, <3>3, <3>4
    <3>7. faults' = 0 => bus' = "works" /\ retries' > 0
      BY <3>1, <3>5
    <3>8. faults' = 0 => ~nack' /\ ~lost' /\ ~garbled' /\ phase' # "error"
      BY <2>2, <3>1, <3>2
    <3>9. phase' = "ok" => ~nack'
      BY <3>1, <3>2
    <3>10. QED
      BY <2>1, <2>2, <3>1, <3>6, <3>7, <3>8, <3>9
  <2>4. CASE WaitEnds
    <3>1. /\ faults' = faults /\ bus' = bus /\ nack' = nack /\ retries' = RETRY_COUNT
          /\ flag \/ (~GoesOn /\ InTime)
          /\ phase' = IF WaitOk THEN NextPhase ELSE "error"
          /\ lost' = (lost \/ ~flag)
      BY <2>4 DEF WaitEnds
    <3>2. NextPhase \in Waits \cup {"ok"}
      BY <2>1 DEF NextPhase, Waits
    <3>3. ASSUME faults = 0
          PROVE  flag /\ WaitOk
      <4>1. bus = "works" /\ retries > 0 /\ ~nack
        BY <3>3
      <4>2. InTime => retries > 1
        BY <4>1 DEF InTime
      <4>3. InTime => GoesOn
        BY <4>2 DEF GoesOn
      <4>4. flag
        BY <3>1, <4>3
      <4>5. QED
        BY <4>1, <4>4 DEF WaitOk, Remaining
    <3>4. phase' \in Waits \cup {"ok", "error"}
      BY <3>1, <3>2
    <3>5. phase' = "ok" => ~nack'
      BY <3>1 DEF WaitOk
    <3>6. ASSUME faults' = 0
          PROVE  /\ bus' = "works" /\ retries' > 0
                 /\ ~nack' /\ ~lost' /\ ~garbled' /\ phase' # "error"
      <4>1. faults = 0
        BY <3>1, <3>6
      <4>2. phase' = NextPhase /\ phase' # "error"
        BY <3>1, <3>2, <3>3, <4>1 DEF Waits
      <4>3. bus' = "works" /\ retries' > 0
        BY <1>1, <3>1, <4>1
      <4>4. ~nack' /\ ~lost' /\ ~garbled'
        BY <2>2, <3>1, <3>3, <4>1
      <4>5. QED
        BY <4>2, <4>3, <4>4
    <3>7. QED
      BY <1>1, <2>1, <2>2, <3>1, <3>4, <3>5, <3>6
  <2>5. QED
    BY <1>3, <2>3, <2>4 DEF Transferring
<1>4. CASE Bus
  <2>1. phase \in Waits /\ pc[1] \in InitOps
    BY <1>4 DEF Bus, BusReady, Stall, Resume, PlaceInv, Waits
  <2>2. UNCHANGED <<pc, step, slave, device, garbled, irq, irq_enabled, initialized>>
    BY <1>4 DEF Bus
  <2>3. CASE BusReady(Answering # {})
    <3>1. ~garbled => Answering # {}
      BY <2>1, OneAnswers
    <3>2. faults = 0 => Answering # {}
      BY <3>1
    <3>3. phase' = phase /\ phase # "ok" /\ retries' = retries /\ lost' = lost /\ bus' = bus
      BY <2>1, <2>3 DEF BusReady, Waits
    <3>4. \/ faults' = faults /\ nack' = (nack \/ (phase \in {"start", "restart"} /\ Answering = {}))
          \/ faults' = faults + 1
      BY <2>3 DEF BusReady
    <3>5. faults' \in Nat
      BY <3>4
    <3>6. ASSUME faults' = 0
          PROVE  faults = 0 /\ ~nack'
      <4>1. faults = 0 /\ faults' # faults + 1
        BY <3>4, <3>6
      <4>2. QED
        BY <3>2, <3>4, <4>1
    <3>7. faults' = 0 => bus' = "works" /\ retries' > 0
      BY <3>3, <3>6
    <3>8. faults' = 0 => ~nack' /\ ~lost' /\ ~garbled' /\ phase' # "error"
      BY <2>2, <3>3, <3>6
    <3>9. QED
      BY <2>1, <2>2, <3>3, <3>5, <3>7, <3>8
  <2>4. CASE Stall
    BY <2>1, <2>2, <2>4 DEF Stall, callVars
  <2>5. CASE Resume
    BY <2>1, <2>2, <2>5 DEF Resume, callVars
  <2>6. QED
    BY <1>4, <2>3, <2>4, <2>5 DEF Bus
<1>5. QED
  BY <1>2, <1>3, <1>4

(* The caller takes the result of a call, and with it what it has lost. *)
LEMMA CallTaken ==
    ASSUME TypeInv, CallInv, NEW how, Returned(how), garbled' = garbled \/ garbled' = (garbled \/ lost)
    PROVE  /\ faults' \in Nat /\ retries' \in Nat /\ bus' \in {"works", "stalls"}
           /\ phase' = "idle" /\ faults' = faults
           /\ CallInv'
<1>1. /\ phase' = "idle" /\ retries' = RETRY_COUNT /\ bus' = bus /\ faults' = faults
      /\ ~nack' /\ ~lost'
  BY DEF Returned, NoCall
<1>2. faults \in Nat /\ bus \in {"works", "stalls"}
  BY DEF TypeInv, CallType
<1>3. faults = 0 => bus = "works" /\ ~lost /\ ~garbled
  BY DEF CallInv
<1>4. faults = 0 => ~garbled'
  BY <1>3
<1>5. RETRY_COUNT \in Nat /\ RETRY_COUNT > 0
  BY RetriesAssumption
<1>6. QED
  BY <1>1, <1>2, <1>3, <1>4, <1>5 DEF CallInv

-----------------------------------------------------------------------------
(* Types and places: the initialisation *)
LEMMA WrittenIsDevice ==
    ASSUME NEW d \in Device, NEW s \in AllSensors,
           NEW e \in Exchanges \cup {Write("ADDRESS", "own")}, e.op = "write"
    PROVE  Written(d, s, e) \in Device
<1>1. \/ e.reg \in Registers /\ e.value \in Values
      \/ e.reg \in {"ADDRESS", "STROBE", "SYSRANGE_START", "INTERRUPT_CLEAR"}
  BY DEF Exchanges, Write, Read, PollUntilSet, SelectSpads, Registers, Values
<1>2. CASE e.reg \in Registers /\ e.value \in Values
  BY <1>2, WrittenRegister
<1>3. CASE e.reg = "ADDRESS"
  <2>1. Written(d, s, e) = [d EXCEPT !.addr = vl53l0x_cfgs[s]]
    BY <1>3 DEF Written
  <2>2. vl53l0x_cfgs[s] \in Nat
    BY Addresses
  <2>3. QED
    BY <2>1, <2>2 DEF Device
<1>4. CASE e.reg = "STROBE"
  <2>1. Written(d, s, e) = [d EXCEPT !.busy = "STROBE", !.done = d.done \ {"STROBE"}]
    BY <1>4 DEF Written, Device
  <2>2. QED
    BY <2>1 DEF Device
<1>5. CASE e.reg = "SYSRANGE_START"
  <2>1. Written(d, s, e) = [d EXCEPT !.busy = IF e.value = "start" THEN "STATUS" ELSE "none"]
    BY <1>5 DEF Written
  <2>2. QED
    BY <2>1 DEF Device
<1>6. CASE e.reg = "INTERRUPT_CLEAR"
  <2>1. Written(d, s, e) = [d EXCEPT !.done = d.done \ {"STATUS"}]
    BY <1>6 DEF Written, Device
  <2>2. QED
    BY <2>1 DEF Device
<1>7. QED
  BY <1>1, <1>2, <1>3, <1>4, <1>5, <1>6

LEMMA BootDevices ==
    ASSUME TypeInv, PlaceInv, vl53l0x_init
    PROVE  /\ device' \in [AllSensors -> Device]
           /\ pc \in BootPcs /\ ~initialized
<1>1. pc \in BootPcs
  <2>1. pc[1] \in {"wake", "address", "select", "config", "interrupt", "finish"}
    BY DEF vl53l0x_init, Wake, Select, Transfer, Transferring, Poll, WaitEnds, TransferFailed,
           WriteDone, PollDone, ReadDone, vl53l0x_configure_front_sensor_interrupt, Finish,
           Returned, PlaceInv, InitOps, Waits
  <2>2. QED
    BY <2>1, Places DEF PlaceInv
<1>2. ~initialized
  BY <1>1, Places DEF PlaceInv
<1>3. device \in [AllSensors -> Device]
  BY DEF TypeInv
<1>4. CASE Wake
  <2>1. pc[2] \in AllSensors /\ device' = [device EXCEPT ![pc[2]].awake = TRUE]
    BY <1>1, <1>4, Places DEF Wake
  <2>2. device' = [device EXCEPT ![pc[2]] = [device[pc[2]] EXCEPT !.awake = TRUE]]
    BY <2>1
  <2>3. [device[pc[2]] EXCEPT !.awake = TRUE] \in Device
    <3>1. device[pc[2]] \in Device
      BY <1>3, <2>1
    <3>2. \A d \in Device : [d EXCEPT !.awake = TRUE] \in Device
      BY DEF Device
    <3>3. QED
      BY <3>1, <3>2
  <2>4. QED
    BY <1>1, <1>2, <1>3, <2>1, <2>2, <2>3
<1>5. CASE WriteDone
  <2>1. pc[1] \in InitOps /\ Current.op = "write"
    BY <1>5 DEF WriteDone, Returned, PlaceInv
  <2>2. Current \in Exchanges \cup {Write("ADDRESS", "own")}
    BY <2>1, CurrentExchange DEF InitOps, Read
  <2>3. \A s \in AllSensors : device'[s] \in {device[s], Written(device[s], s, Current)}
    BY <1>5 DEF WriteDone
  <2>4. \A s \in AllSensors : Written(device[s], s, Current) \in Device
    BY <1>3, <2>1, <2>2, WrittenIsDevice
  <2>5. device' = [s \in AllSensors |-> device'[s]]
    BY <1>3, <1>5 DEF WriteDone
  <2>6. QED
    BY <1>1, <1>2, <1>3, <2>3, <2>4, <2>5
<1>6. CASE vl53l0x_init /\ ~Wake /\ ~WriteDone
  <2>1. device' = device
    BY <1>6 DEF vl53l0x_init, Select, Transfer, Transferring, TransferFailed, PollDone, ReadDone,
               vl53l0x_configure_front_sensor_interrupt, Finish
  <2>2. QED
    BY <1>1, <1>2, <1>3, <2>1
<1>7. QED
  BY <1>4, <1>5, <1>6

LEMMA BootSensors ==
    ASSUME TypeInv, PlaceInv, Boot
    PROVE  /\ sensor' \in [Sensors -> Sensor]
           /\ \A s \in Sensors : /\ sensor'[s].busy = sensor[s].busy
                                 /\ sensor'[s].status <=> "STATUS" \in device'[s].done
           /\ status_multiple' = status_multiple /\ latest_ranges' = latest_ranges
           /\ vl53l0x_init
<1>1. /\ sensor' = [s \in Sensors |-> [sensor[s] EXCEPT !.status = "STATUS" \in device'[s].done]]
      /\ status_multiple' = status_multiple /\ latest_ranges' = latest_ranges
      /\ vl53l0x_init
  BY DEF Boot
<1>2. sensor \in [Sensors -> Sensor]
  BY DEF TypeInv
<1>3. ASSUME NEW s \in Sensors
      PROVE  /\ sensor'[s] \in Sensor
             /\ sensor'[s].busy = sensor[s].busy
             /\ sensor'[s].status <=> "STATUS" \in device'[s].done
  <2>1. ("STATUS" \in device'[s].done) \in BOOLEAN
    OBVIOUS
  <2>2. sensor[s] \in Sensor
    BY <1>2
  <2>3. sensor'[s] = [sensor[s] EXCEPT !.status = "STATUS" \in device'[s].done]
    BY <1>1
  <2>4. QED
    BY <2>1, <2>2, <2>3 DEF Sensor
<1>4. sensor' \in [Sensors -> Sensor]
  BY <1>1, <1>3
<1>5. QED
  BY <1>1, <1>3, <1>4

(* Any failure leaves the driver idle and not initialised. *)
LEMMA FailsToIdle ==
    ASSUME Fails, ~initialized', phase' = "idle"
    PROVE  PlaceInv'
<1>1. pc' = Idle /\ step' = 1
  BY DEF Fails
<1>2. Idle \in MeasurePcs /\ Idle[1] = "idle"
  BY DEF MeasurePcs, Idle, At
<1>3. QED
  BY <1>1, <1>2 DEF PlaceInv

LEMMA AdvancesInPlace ==
    ASSUME PlaceInv, pc[1] \in InitOps, Advances, ~initialized', phase' = "idle"
    PROVE  PlaceInv'
<1>1. CASE pc[1] = "address"
  <2>1. pc' \in BootPcs /\ pc' \notin MeasurePcs
    BY <1>1, AddressAdvances, Places
  <2>2. CASE step = 1
    <3>1. step' = 2 /\ pc' = pc
      BY <1>1, <2>2, AddressAdvances
    <3>2. QED
      BY <1>1, <2>1, <3>1 DEF PlaceInv
  <2>3. CASE step = 2
    <3>1. step' = 1 /\ pc'[1] \in {"select", "wake"}
      BY <1>1, <2>3, AddressAdvances DEF At
    <3>2. QED
      BY <2>1, <3>1 DEF PlaceInv
  <2>4. QED
    BY <1>1, <2>2, <2>3, AddressAdvances
<1>2. CASE pc[1] = "config"
  <2>1. pc' \in BootPcs /\ pc' \notin MeasurePcs /\ step \in 1 .. 21
    BY <1>2, ConfigAdvances, Places
  <2>2. CASE step < 21
    <3>1. step' = step + 1 /\ pc' = pc
      BY <1>2, <2>2, ConfigAdvances
    <3>2. QED
      BY <1>2, <2>1, <2>2, <3>1 DEF PlaceInv
  <2>3. CASE step = 21
    <3>1. step' = 1 /\ pc'[1] \in {"interrupt", "finish", "select"}
      BY <1>2, <2>3, ConfigAdvances DEF At
    <3>2. QED
      BY <2>1, <3>1 DEF PlaceInv
  <2>4. QED
    BY <2>1, <2>2, <2>3
<1>3. QED
  BY <1>1, <1>2 DEF InitOps

LEMMA BootPlaces ==
    ASSUME TypeInv, PlaceInv, CallInv, ~garbled => AddressInv, vl53l0x_init
    PROVE  PlaceInv' /\ CallInv' /\ CallType'
<1>1. pc \in BootPcs /\ ~initialized
  BY BootDevices
<1>2. CASE Wake
  <2>1. pc[2] \in AllSensors /\ pc[1] = "wake"
    BY <1>1, <1>2, Places DEF Wake
  <2>2. pc' = At("address", pc[2]) /\ UNCHANGED <<i2cVars, step, garbled, initialized>>
    BY <1>2 DEF Wake
  <2>3. pc' \in BootPcs /\ pc' \notin MeasurePcs /\ pc'[1] = "address"
    BY <2>1, <2>2, Places DEF BootPcs, At
  <2>4. CallInv' /\ CallType'
    BY <2>2 DEF CallInv, CallType, TypeInv, i2cVars, callVars
  <2>5. step' = 1
    BY <2>1, <2>2 DEF PlaceInv
  <2>6. PlaceInv'
    BY <1>1, <2>2, <2>3, <2>5 DEF PlaceInv, InitOps
  <2>7. QED
    BY <2>4, <2>6
<1>3. CASE Select
  <2>1. pc[2] \in AllSensors /\ pc[1] = "select"
    BY <1>1, <1>3, Places DEF Select
  <2>2. pc' = At("config", pc[2]) /\ UNCHANGED <<i2cVars, step, garbled, initialized>>
    BY <1>3 DEF Select
  <2>3. pc' \in BootPcs /\ pc' \notin MeasurePcs /\ pc'[1] = "config"
    BY <2>1, <2>2, Places DEF BootPcs, At
  <2>4. CallInv' /\ CallType'
    BY <2>2 DEF CallInv, CallType, TypeInv, i2cVars, callVars
  <2>5. step' = 1
    BY <2>1, <2>2 DEF PlaceInv
  <2>6. PlaceInv'
    BY <1>1, <2>2, <2>3, <2>5 DEF PlaceInv, InitOps
  <2>7. QED
    BY <2>4, <2>6
<1>4. CASE vl53l0x_configure_front_sensor_interrupt
  <2>1. pc[1] = "interrupt" /\ pc' = At("select", "LEFT")
        /\ UNCHANGED <<i2cVars, step, garbled, initialized>>
    BY <1>4 DEF vl53l0x_configure_front_sensor_interrupt, After
  <2>2. pc' \in BootPcs /\ pc' \notin MeasurePcs /\ pc'[1] = "select"
    BY <2>1, Places DEF BootPcs, At, AllSensors
  <2>3. CallInv' /\ CallType'
    BY <2>1 DEF CallInv, CallType, TypeInv, i2cVars, callVars
  <2>4. step' = 1 /\ phase' = "idle"
    BY <2>1 DEF PlaceInv, InitOps, i2cVars, callVars
  <2>5. PlaceInv'
    BY <1>1, <2>1, <2>2, <2>4 DEF PlaceInv, InitOps
  <2>6. QED
    BY <2>3, <2>5
<1>5. CASE Finish
  <2>1. pc[1] = "finish" /\ pc' = Idle /\ UNCHANGED <<i2cVars, step, garbled>>
    BY <1>5 DEF Finish
  <2>2. pc' \in MeasurePcs /\ pc'[1] = "idle"
    BY <2>1 DEF MeasurePcs, Idle, At
  <2>3. CallInv' /\ CallType'
    BY <2>1 DEF CallInv, CallType, TypeInv, i2cVars, callVars
  <2>4. step' = 1 /\ phase' = "idle"
    BY <2>1 DEF PlaceInv, InitOps, i2cVars, callVars
  <2>5. PlaceInv'
    BY <2>1, <2>2, <2>4 DEF PlaceInv, InitOps
  <2>6. QED
    BY <2>3, <2>5
<1>6. CASE Transfer \/ Transferring
  <2>1. /\ CallInv' /\ CallType' /\ pc[1] \in InitOps
        /\ pc' = pc /\ step' = step /\ initialized' = initialized
    BY <1>6, CallProceeds DEF CallType
  <2>2. PlaceInv'
    BY <2>1 DEF PlaceInv
  <2>3. QED
    BY <2>1, <2>2
<1>7. ASSUME TransferFailed \/ WriteDone \/ PollDone \/ ReadDone
      PROVE  PlaceInv' /\ CallInv' /\ CallType'
  <2>1. PICK how \in {"ok", "error"} : Returned(how)
    BY <1>7 DEF TransferFailed, WriteDone, PollDone, ReadDone
  <2>2. garbled' = garbled \/ garbled' = (garbled \/ lost)
    BY <1>7 DEF TransferFailed, WriteDone, PollDone, ReadDone
  <2>3. CallInv' /\ CallType' /\ phase' = "idle"
    BY <2>1, <2>2, CallTaken DEF CallType
  <2>4. pc[1] \in InitOps
    BY <2>1 DEF Returned, PlaceInv
  <2>5. ~initialized'
    BY <1>1, <1>7 DEF TransferFailed, WriteDone, PollDone, ReadDone
  <2>6. Fails \/ Advances \/ (pc' = pc /\ step' = step)
    BY <1>7 DEF TransferFailed, WriteDone, PollDone, ReadDone
  <2>7. CASE Fails
    BY <2>3, <2>5, <2>7, FailsToIdle
  <2>8. CASE Advances
    BY <2>3, <2>4, <2>5, <2>8, AdvancesInPlace
  <2>9. CASE pc' = pc /\ step' = step
    <3>1. PlaceInv'
      BY <1>1, <2>3, <2>5, <2>9, Places DEF PlaceInv
    <3>2. QED
      BY <2>3, <3>1
  <2>10. QED
    BY <2>6, <2>7, <2>8, <2>9
<1>8. QED
  BY <1>2, <1>3, <1>4, <1>5, <1>6, <1>7 DEF vl53l0x_init

-----------------------------------------------------------------------------
(* The addresses: the initialisation *)
LEMMA StaysUngarbled ==
    ASSUME vl53l0x_init, ~garbled'
    PROVE  ~garbled /\ (WriteDone \/ PollDone \/ ReadDone => ~lost)
<1>1. CASE WriteDone \/ PollDone \/ ReadDone
  <2>1. garbled' = (garbled \/ lost)
    BY <1>1 DEF WriteDone, PollDone, ReadDone
  <2>2. QED
    BY <2>1
<1>2. CASE ~(WriteDone \/ PollDone \/ ReadDone)
  <2>1. garbled' = garbled
    BY <1>2 DEF vl53l0x_init, Wake, Select, Transfer, Transferring, TransferFailed,
                vl53l0x_configure_front_sensor_interrupt, Finish
  <2>2. QED
    BY <1>2, <2>1
<1>3. QED
  BY <1>1, <1>2

(* A write reaches the sensor that the exchange is about, and no other. *)
LEMMA WriteReaches ==
    ASSUME Vl53l0xInv, WriteDone, ~garbled'
    PROVE  /\ pc[1] \in InitOps /\ pc[2] \in AllSensors /\ Current.op = "write"
           /\ Advances /\ slave' = slave /\ ~initialized'
           /\ \A s \in AllSensors :
                  device'[s] = IF s = pc[2] THEN Written(device[s], s, Current) ELSE device[s]
<1>1. TypeInv /\ PlaceInv /\ CallInv
  BY DEF Vl53l0xInv
<1>2. ~garbled /\ ~lost
  BY StaysUngarbled DEF vl53l0x_init
<1>3. phase = "ok" /\ ~nack
  BY <1>1 DEF WriteDone, Returned, CallInv
<1>4. pc[1] \in InitOps
  BY <1>1, <1>3 DEF PlaceInv
<1>5. AddressInv
  BY <1>2 DEF Vl53l0xInv
<1>6. Answering = {pc[2]} /\ pc[2] \in AllSensors
  BY <1>1, <1>4, <1>5, OneAnswers
<1>7. ~initialized
  BY <1>1, BootDevices DEF vl53l0x_init
<1>8. QED
  BY <1>2, <1>3, <1>4, <1>6, <1>7 DEF WriteDone

LEMMA ConfigKeepsAddresses ==
    ASSUME PlaceInv, AddressInv, pc[1] = "config", Advances \/ pc' = pc, slave' = slave,
           \A s \in AllSensors : /\ device'[s].awake <=> device[s].awake
                                 /\ device'[s].addr = device[s].addr
    PROVE  AddressInv'
<1>1. pc \in BootPcs
  BY Places DEF PlaceInv
<1>2. \A s \in AllSensors : Woken(s)
  BY <1>1 DEF AddressInv
<1>3. \A s \in AllSensors : Woken(s)'
  BY <1>2 DEF Woken
<1>4. pc' = pc \/ pc'[1] \in {"interrupt", "finish", "select"}
  BY ConfigAdvances DEF At
<1>5. pc'[1] = "config" => pc' = pc
  BY <1>4
<1>6. pc'[1] \notin {"wake", "address"}
  BY <1>4
<1>7. QED
  BY <1>3, <1>5, <1>6 DEF AddressInv

LEMMA AddressIsGiven ==
    ASSUME Vl53l0xInv, WriteDone, ~garbled', pc[1] = "address"
    PROVE  AddressInv'
<1>0. PICK now : now = pc[2]
  OBVIOUS
<1>1. /\ now \in AllSensors /\ Current.op = "write" /\ Advances
      /\ \A s \in AllSensors :
             device'[s] = IF s = now THEN Written(device[s], s, Current) ELSE device[s]
  BY <1>0, WriteReaches
<1>2. PlaceInv /\ TypeInv /\ AddressInv
  BY StaysUngarbled DEF Vl53l0xInv, vl53l0x_init
<1>3. step = 2 /\ Current = Write("ADDRESS", "own")
  <2>1. step = 1 \/ step = 2
    BY <1>2, CurrentExchange
  <2>2. step # 1
    BY <1>1, <1>2, CurrentExchange DEF Read
  <2>3. QED
    BY <1>2, <2>1, <2>2, CurrentExchange
<1>4. device[now] \in Device
  BY <1>1, <1>2 DEF TypeInv
<1>5. device'[now] = [device[now] EXCEPT !.addr = vl53l0x_cfgs[now]]
  <2>1. device'[now] = Written(device[now], now, Current)
    BY <1>1
  <2>2. Current.reg = "ADDRESS"
    BY <1>3 DEF Write
  <2>3. QED
    BY <2>1, <2>2 DEF Written
<1>6. Woken(now)'
  <2>1. device[now].awake
    BY <1>0, <1>2 DEF AddressInv
  <2>2. device'[now].addr = vl53l0x_cfgs[now] /\ device'[now].awake
    BY <1>4, <1>5, <2>1 DEF Device
  <2>3. QED
    BY <2>2 DEF Woken
<1>7. \A s \in AllSensors : s # now => (Woken(s)' <=> Woken(s)) /\ (Asleep(s)' <=> Asleep(s))
  BY <1>1 DEF Woken, Asleep
<1>8. /\ pc' = IF After(now) = "NONE" THEN At("select", "FRONT") ELSE At("wake", After(now))
  BY <1>0, <1>1, <1>2, <1>3, AddressAdvances
<1>9. \A s \in AllSensors : /\ Rank[s] < Rank[now] => Woken(s)
                            /\ Rank[s] > Rank[now] => Asleep(s)
  BY <1>0, <1>2 DEF AddressInv
<1>10. CASE After(now) = "NONE"
  <2>1. pc' = At("select", "FRONT")
    BY <1>8, <1>10
  <2>2. \A s \in AllSensors : s = now \/ Rank[s] < Rank[now]
    BY <1>1, <1>10, Addresses, Order
  <2>3. ASSUME NEW s \in AllSensors
        PROVE  Woken(s)'
    BY <1>6, <1>7, <1>9, <2>2
  <2>4. pc'[1] = "select"
    BY <2>1 DEF At
  <2>5. QED
    BY <2>3, <2>4 DEF AddressInv
<1>11. CASE After(now) # "NONE"
  <2>1. PICK n \in AllSensors : n = After(now) /\ Rank[n] = Rank[now] + 1
    BY <1>1, <1>11, Order
  <2>2. pc'[1] = "wake" /\ pc'[2] = n
    BY <1>8, <1>11, <2>1 DEF At
  <2>3. \A s \in AllSensors : /\ Rank[s] < Rank[n] => s = now \/ Rank[s] < Rank[now]
                              /\ Rank[s] > Rank[n] => Rank[s] > Rank[now] /\ s # now
    BY <1>1, <2>1, Addresses
  <2>4. ASSUME NEW s \in AllSensors
        PROVE  /\ Rank[s] < Rank[n] => Woken(s)'
               /\ Rank[s] > Rank[n] => Asleep(s)'
    <3>1. Rank[s] < Rank[now] => s # now
      BY <1>1, Addresses
    <3>2. QED
      BY <1>6, <1>7, <1>9, <2>3, <3>1
  <2>5. Asleep(n)'
    <3>1. Rank[n] > Rank[now] /\ n # now
      BY <1>1, <2>1, Addresses
    <3>2. QED
      BY <1>7, <1>9, <3>1
  <2>6. QED
    BY <2>2, <2>4, <2>5 DEF AddressInv
<1>12. QED
  BY <1>10, <1>11

-----------------------------------------------------------------------------
(* The configuration: the exchanges of the driver and the sensors' own steps *)
LEMMA WriteConfigures ==
    ASSUME Vl53l0xInv, WriteDone, ~garbled', pc[1] = "config"
    PROVE  /\ ConfigInv'
           /\ \A s \in AllSensors : /\ device'[s].awake <=> device[s].awake
                                    /\ device'[s].addr = device[s].addr
<1>1. PICK now : now = pc[2]
  OBVIOUS
<1>2. /\ now \in AllSensors /\ Current.op = "write" /\ Advances
      /\ \A s \in AllSensors :
             device'[s] = IF s = now THEN Written(device[s], s, Current) ELSE device[s]
  BY <1>1, WriteReaches
<1>3. PlaceInv /\ TypeInv /\ ConfigInv /\ pc \in BootPcs
  BY StaysUngarbled, BootDevices DEF Vl53l0xInv, vl53l0x_init
<1>4. step \in 1 .. 21 /\ Current = InitConfig[step]
  BY <1>3, CurrentExchange
<1>5. Stage(now) = step
  BY <1>1, <1>2, <1>3, StageAdvances
<1>6. device[now] \in Device /\ Configured(device[now], step)
  BY <1>2, <1>3, <1>5 DEF ConfigInv, TypeInv
<1>7. /\ Configured(device'[now], step + 1)
      /\ device'[now].awake = device[now].awake /\ device'[now].addr = device[now].addr
  <2>1. device'[now] = Written(device[now], now, InitConfig[step]) /\ InitConfig[step].op = "write"
    BY <1>2, <1>4
  <2>2. QED
    BY <1>2, <1>4, <1>6, <2>1, ExchangeConfigures
<1>8. ASSUME NEW s \in AllSensors
      PROVE  Configured(device'[s], Stage(s)')
  <2>1. Stage(s)' = IF s = now THEN step + 1 ELSE Stage(s)
    BY <1>1, <1>2, <1>3, StageAdvances
  <2>2. CASE s = now
    BY <1>7, <2>1, <2>2
  <2>3. CASE s # now
    BY <1>2, <1>3, <2>1, <2>3 DEF ConfigInv
  <2>4. QED
    BY <2>2, <2>3
<1>9. QED
  BY <1>2, <1>7, <1>8 DEF ConfigInv

LEMMA AnswerConfigures ==
    ASSUME Vl53l0xInv, PollDone \/ ReadDone, ~garbled', pc[1] = "config", ~(pc' = Idle)
    PROVE  ConfigInv'
<1>1. PICK now : now = pc[2]
  OBVIOUS
<1>2. PlaceInv /\ TypeInv /\ CallInv /\ ConfigInv /\ AddressInv /\ pc \in BootPcs /\ ~lost
  BY StaysUngarbled, BootDevices DEF Vl53l0xInv, vl53l0x_init
<1>3. Answering = {now} /\ now \in AllSensors
  BY <1>1, <1>2, OneAnswers DEF InitOps
<1>4. step \in 1 .. 21 /\ Current = InitConfig[step]
  BY <1>2, CurrentExchange
<1>5. device' = device
  BY DEF PollDone, ReadDone
<1>6. CASE pc' = pc /\ step' = step
  <2>1. \A s \in AllSensors : Stage(s)' = Stage(s)
    BY <1>6 DEF Stage
  <2>2. \A s \in AllSensors : Configured(device'[s], Stage(s)')
    BY <1>2, <1>5, <2>1 DEF ConfigInv
  <2>3. QED
    BY <2>2 DEF ConfigInv
<1>7. CASE /\ Advances
           /\ \/ Current.op = "read"
              \/ Current.op = "poll" /\ Current.reg \in device[now].done
  <2>1. Stage(now) = step
    BY <1>1, <1>2, <1>3, <1>7, StageAdvances
  <2>2. device[now] \in Device /\ Configured(device[now], step)
    BY <1>2, <1>3, <2>1 DEF ConfigInv, TypeInv
  <2>3. Configured(device[now], step + 1)
    BY <1>3, <1>4, <1>7, <2>2, ExchangeConfigures
  <2>4. ASSUME NEW s \in AllSensors
        PROVE  Configured(device'[s], Stage(s)')
    <3>1. Stage(s)' = IF s = now THEN step + 1 ELSE Stage(s)
      BY <1>1, <1>2, <1>7, StageAdvances
    <3>2. CASE s = now
      BY <1>5, <2>3, <3>1, <3>2
    <3>3. CASE s # now
      BY <1>2, <1>5, <3>1, <3>3 DEF ConfigInv
    <3>4. QED
      BY <3>2, <3>3
  <2>5. QED
    BY <2>4 DEF ConfigInv
<1>8. CASE PollDone
  <2>1. /\ Current.op = "poll"
        /\ \/ (\E s \in Answering : Current.reg \in device[s].done) /\ Advances
           \/ pc' = pc /\ step' = step
    BY <1>2, <1>8 DEF PollDone
  <2>2. QED
    BY <1>3, <1>6, <1>7, <2>1
<1>9. CASE ReadDone
  <2>1. Current.op = "read" /\ (Advances \/ Fails)
    BY <1>9 DEF ReadDone
  <2>2. ~Fails
    BY DEF Fails
  <2>3. QED
    BY <1>7, <2>1, <2>2
<1>10. QED
  BY <1>8, <1>9

(* A sensor that has done what the driver has asked for. *)
LEMMA SensorConfigures ==
    ASSUME NEW d \in Device, NEW e, d.busy # "none",
           e = [d EXCEPT !.busy = "none", !.done = d.done \cup {d.busy}]
    PROVE  /\ e \in Device /\ e.awake = d.awake /\ e.addr = d.addr
           /\ \A k \in 1 .. 22 : Configured(d, k) => k \in {4, 13, 18} /\ Configured(e, k)
<1>1. /\ e \in Device /\ e.awake = d.awake /\ e.addr = d.addr /\ e.regs = d.regs
      /\ e.busy = "none" /\ e.done = d.done \cup {d.busy}
  BY DEF Device
<1>2. ASSUME NEW k \in 1 .. 22, Configured(d, k)
      PROVE  k \in {4, 13, 18} /\ Configured(e, k)
  <2>1. k \in {4, 13, 18} /\ d.busy = Polled(k)
    BY <1>2 DEF Configured
  <2>2. k > 9 /\ k \notin {13, 14, 18, 19} => "STATUS" \notin e.done
    BY <1>1, <1>2, <2>1 DEF Configured, Polled
  <2>3. e.busy \in {"none", Polled(k)} /\ (Polled(k) \in e.done => e.busy = "none")
    BY <1>1
  <2>4. QED
    BY <1>1, <1>2, <2>1, <2>2, <2>3 DEF Configured
<1>3. QED
  BY <1>1, <1>2

LEMMA ConfiguredAlike ==
    ASSUME NEW d, NEW e, NEW k, Configured(d, k),
           e.busy = d.busy, e.done = d.done, e.regs = d.regs
    PROVE  Configured(e, k)
BY DEF Configured

(* An initialisation that has failed has nothing to say. *)
Failed == pc = Idle /\ ~initialized

LEMMA FailedIsFree == Failed => AddressInv /\ ConfigInv /\ BootInv
<1>1. Failed => pc \notin BootPcs /\ pc[1] = "idle" /\ ~initialized
  BY Places DEF Failed, MeasurePcs, Idle, At
<1>2. QED
  BY <1>1 DEF AddressInv, ConfigInv, BootInv

LEMMA AddressesAlike ==
    ASSUME AddressInv, UNCHANGED <<pc, slave, device, initialized>>
    PROVE  AddressInv'
BY DEF AddressInv, Woken, Asleep

LEMMA ConfigsAlike ==
    ASSUME ConfigInv, UNCHANGED <<pc, device, initialized>>,
           step' = step \/ pc[1] \notin {"select", "config"}
    PROVE  ConfigInv'
<1>1. \A s \in AllSensors : Stage(s)' = Stage(s)
  BY DEF Stage
<1>2. QED
  BY <1>1 DEF ConfigInv

LEMMA BootAddresses ==
    ASSUME Vl53l0xInv, vl53l0x_init, ~garbled'
    PROVE  AddressInv' /\ ConfigInv'
<1>1. /\ TypeInv /\ PlaceInv /\ CallInv /\ AddressInv /\ ConfigInv
      /\ pc \in BootPcs /\ ~initialized /\ ~garbled
  BY StaysUngarbled, BootDevices DEF Vl53l0xInv
<1>2. pc = At(pc[1], pc[2])
  BY <1>1, Places
<1>3. PICK now : now = pc[2]
  OBVIOUS
<1>4. CASE Wake
  <2>1. /\ pc[1] = "wake" /\ now \in AllSensors /\ pc'[1] = "address" /\ pc'[2] = now
        /\ slave' = VL53L0X_DEFAULT_ADDRESS
        /\ device' = [device EXCEPT ![now].awake = TRUE]
    BY <1>1, <1>3, <1>4, Places DEF Wake, At
  <2>2. device \in [AllSensors -> Device] /\ device[now] \in Device
    BY <1>1, <2>1 DEF TypeInv
  <2>3. /\ device'[now] = [device[now] EXCEPT !.awake = TRUE]
        /\ \A s \in AllSensors : s # now => device'[s] = device[s]
    BY <2>1, <2>2
  <2>4. /\ device'[now].awake /\ device'[now].addr = device[now].addr
        /\ device'[now].busy = device[now].busy /\ device'[now].done = device[now].done
        /\ device'[now].regs = device[now].regs
    BY <2>2, <2>3 DEF Device
  <2>5. device[now].addr = VL53L0X_DEFAULT_ADDRESS
    BY <1>1, <1>3, <2>1 DEF AddressInv, Asleep
  <2>6. ASSUME NEW s \in AllSensors
        PROVE  /\ Rank[s] < Rank[now] => Woken(s)'
               /\ Rank[s] > Rank[now] => Asleep(s)'
    <3>1. Rank[s] < Rank[now] \/ Rank[s] > Rank[now] => s # now
      BY <2>1, Addresses
    <3>2. s # now => (Woken(s)' <=> Woken(s)) /\ (Asleep(s)' <=> Asleep(s))
      BY <2>3 DEF Woken, Asleep
    <3>3. /\ Rank[s] < Rank[now] => Woken(s)
          /\ Rank[s] > Rank[now] => Asleep(s)
      BY <1>1, <1>3, <2>1 DEF AddressInv
    <3>4. QED
      BY <3>1, <3>2, <3>3
  <2>7. AddressInv'
    BY <2>1, <2>4, <2>5, <2>6 DEF AddressInv
  <2>8. ASSUME NEW s \in AllSensors
        PROVE  Configured(device'[s], Stage(s)')
    <3>1. Stage(s) = 1 /\ Stage(s)' = 1
      BY <2>1 DEF Stage
    <3>2. Configured(device[s], 1)
      BY <1>1, <3>1 DEF ConfigInv
    <3>3. CASE s = now
      BY <2>4, <3>1, <3>2, <3>3, ConfiguredAlike
    <3>4. CASE s # now
      BY <2>3, <3>1, <3>2, <3>4
    <3>5. QED
      BY <3>3, <3>4
  <2>9. QED
    BY <2>7, <2>8 DEF ConfigInv
<1>5. CASE Select
  <2>1. /\ pc[1] = "select" /\ now \in AllSensors /\ pc'[1] = "config" /\ pc'[2] = now
        /\ slave' = vl53l0x_cfgs[now] /\ device' = device /\ step' = step
    BY <1>1, <1>3, <1>5, Places DEF Select, At
  <2>2. \A s \in AllSensors : Woken(s)
    BY <1>1, <2>1 DEF AddressInv
  <2>3. \A s \in AllSensors : Woken(s)'
    BY <2>1, <2>2 DEF Woken
  <2>4. AddressInv'
    BY <2>1, <2>3 DEF AddressInv
  <2>5. \A s \in AllSensors : Stage(s)' = Stage(s)
    BY <1>3, <2>1 DEF Stage
  <2>6. \A s \in AllSensors : Configured(device'[s], Stage(s)')
    BY <1>1, <2>1, <2>5 DEF ConfigInv
  <2>7. QED
    BY <2>4, <2>6 DEF ConfigInv
<1>6. CASE vl53l0x_configure_front_sensor_interrupt
  <2>1. /\ pc[1] = "interrupt" /\ pc'[1] = "select" /\ pc'[2] = "LEFT"
        /\ device' = device /\ step' = step /\ step = 1
    BY <1>1, <1>6 DEF vl53l0x_configure_front_sensor_interrupt, At, After, PlaceInv
  <2>2. \A s \in AllSensors : Woken(s)
    BY <1>1, <2>1 DEF AddressInv
  <2>3. \A s \in AllSensors : Woken(s)'
    BY <2>1, <2>2 DEF Woken
  <2>4. AddressInv'
    BY <2>1, <2>3 DEF AddressInv
  <2>5. \A s \in AllSensors : Stage(s)' = Stage(s)
    <3>1. \A s \in AllSensors : Stage(s) = IF s # "FRONT" THEN 1 ELSE 22
      BY <2>1 DEF Stage
    <3>2. \A s \in AllSensors :
              Stage(s)' = IF Rank[s] < Rank["LEFT"] THEN 22 ELSE IF s = "LEFT" THEN 1 ELSE 1
      BY <2>1 DEF Stage
    <3>3. \A s \in AllSensors : Rank[s] < Rank["LEFT"] <=> s = "FRONT"
      BY DEF Rank, AllSensors
    <3>4. QED
      BY <3>1, <3>2, <3>3
  <2>6. \A s \in AllSensors : Configured(device'[s], Stage(s)')
    BY <1>1, <2>1, <2>5 DEF ConfigInv
  <2>7. QED
    BY <2>4, <2>6 DEF ConfigInv
<1>7. CASE Finish
  <2>1. pc[1] = "finish" /\ pc' = Idle /\ device' = device
    BY <1>7 DEF Finish
  <2>2. pc'[1] = "idle"
    BY <2>1 DEF Idle, At
  <2>3. \A s \in AllSensors : Woken(s)
    BY <1>1, <2>1 DEF AddressInv
  <2>4. \A s \in AllSensors : Woken(s)'
    BY <2>1, <2>3 DEF Woken
  <2>5. AddressInv'
    BY <2>2, <2>4 DEF AddressInv
  <2>6. \A s \in AllSensors : Stage(s)' = 22 /\ Stage(s) = 22
    BY <2>1, <2>2 DEF Stage
  <2>7. \A s \in AllSensors : Configured(device'[s], Stage(s)')
    BY <1>1, <2>1, <2>6 DEF ConfigInv
  <2>8. QED
    BY <2>5, <2>7 DEF ConfigInv
<1>8. CASE Transfer \/ Transferring
  <2>1. UNCHANGED <<pc, step, slave, device, initialized>>
    BY <1>8 DEF Transfer, Transferring
  <2>2. QED
    BY <1>1, <2>1, AddressesAlike, ConfigsAlike
<1>9. CASE (TransferFailed \/ PollDone \/ ReadDone) /\ pc' = Idle
  <2>1. ~initialized'
    BY <1>1, <1>9 DEF TransferFailed, PollDone, ReadDone
  <2>2. Failed'
    BY <1>9, <2>1 DEF Failed
  <2>3. QED
    BY <2>2, FailedIsFree, PTL
<1>10. CASE (PollDone \/ ReadDone) /\ pc' # Idle
  <2>1. pc[1] \in InitOps /\ device' = device /\ slave' = slave /\ initialized' = initialized
    BY <1>1, <1>10 DEF PollDone, ReadDone, Returned, PlaceInv
  <2>2. Advances \/ (pc' = pc /\ step' = step)
    BY <1>10 DEF PollDone, ReadDone, Fails
  <2>3. CASE pc[1] = "config"
    BY <1>1, <1>10, <2>1, <2>2, <2>3, ConfigKeepsAddresses, AnswerConfigures
  <2>4. CASE pc[1] = "address"
    <3>1. step = 1 /\ PollDone = FALSE
      BY <1>1, <1>10, <2>4, CurrentExchange DEF PollDone, ReadDone, Read, Write
    <3>2. pc' = pc
      BY <1>1, <2>2, <2>4, <3>1, AddressAdvances
    <3>3. QED
      BY <1>1, <2>1, <2>4, <3>2, AddressesAlike, ConfigsAlike
  <2>5. QED
    BY <2>1, <2>3, <2>4 DEF InitOps
<1>11. CASE WriteDone
  <2>1. pc[1] \in InitOps /\ slave' = slave /\ Advances
    BY <1>11, WriteReaches
  <2>2. CASE pc[1] = "config"
    BY <1>1, <1>11, <2>1, <2>2, ConfigKeepsAddresses, WriteConfigures
  <2>3. CASE pc[1] = "address"
    <3>1. AddressInv'
      BY <1>11, <2>3, AddressIsGiven
    <3>2. ASSUME NEW s \in AllSensors
          PROVE  Configured(device'[s], Stage(s)')
      <4>1. Stage(s) = 1 /\ Stage(s)' = 1
        <5>1. pc' = pc \/ pc'[1] = "wake" \/ (pc'[1] = "select" /\ pc'[2] = "FRONT")
          BY <1>1, <2>1, <2>3, AddressAdvances DEF At
        <5>2. pc'[1] = "select" => step' = 1
          BY <1>1, <2>1, <2>3, AddressAdvances
        <5>3. ~(Rank[s] < Rank["FRONT"])
          BY DEF Rank, AllSensors
        <5>4. QED
          BY <2>3, <5>1, <5>2, <5>3 DEF Stage
      <4>2. Configured(device[s], 1) /\ device[s] \in Device
        BY <1>1, <4>1 DEF ConfigInv, TypeInv
      <4>3. \/ device'[s] = device[s]
            \/ device'[s] = [device[s] EXCEPT !.addr = vl53l0x_cfgs[s]]
        <5>1. /\ Current.op = "write"
              /\ device'[s] = device[s] \/ device'[s] = Written(device[s], s, Current)
          BY <1>11, WriteReaches
        <5>2. Current.reg = "ADDRESS"
          BY <1>1, <2>3, <5>1, CurrentExchange DEF Write, Read
        <5>3. QED
          BY <5>1, <5>2 DEF Written
      <4>4. /\ device'[s].busy = device[s].busy /\ device'[s].done = device[s].done
            /\ device'[s].regs = device[s].regs
        BY <4>2, <4>3 DEF Device
      <4>5. QED
        BY <4>1, <4>2, <4>4, ConfiguredAlike
    <3>3. QED
      BY <3>1, <3>2 DEF ConfigInv
  <2>4. QED
    BY <2>1, <2>2, <2>3 DEF InitOps
<1>12. QED
  <2>1. TransferFailed => pc' = Idle
    BY DEF TransferFailed, Fails
  <2>2. QED
    BY <1>4, <1>5, <1>6, <1>7, <1>8, <1>9, <1>10, <1>11, <2>1 DEF vl53l0x_init

-----------------------------------------------------------------------------
(* The interrupt and the sensors' state: the initialisation *)
LEMMA BootInterrupt ==
    ASSUME Vl53l0xInv, Boot, ~garbled'
    PROVE  BootInv'
<1>1. /\ TypeInv /\ PlaceInv /\ BootInv /\ vl53l0x_init
      /\ pc \in BootPcs /\ ~initialized
  BY StaysUngarbled, BootDevices DEF Vl53l0xInv, Boot
<1>2. /\ status_multiple = "NOT_STARTED" /\ \A s \in Sensors : sensor[s].busy = "none"
      /\ irq_enabled => ~irq
      /\ irq_enabled <=> pc[1] \notin {"wake", "address"} /\ pc[2] # "FRONT"
  BY <1>1 DEF BootInv
<1>3. status_multiple' = "NOT_STARTED" /\ \A s \in Sensors : sensor'[s].busy = "none"
  BY <1>1, <1>2, BootSensors
<1>4. ASSUME pc' \in BootPcs => /\ irq_enabled' => ~irq'
                                /\ irq_enabled' <=> pc'[1] \notin {"wake", "address"} /\ pc'[2] # "FRONT",
             initialized' => irq_enabled'
      PROVE  BootInv'
  BY <1>3, <1>4 DEF BootInv
<1>5. CASE vl53l0x_configure_front_sensor_interrupt
  <2>1. /\ pc'[1] = "select" /\ pc'[2] = "LEFT" /\ irq' = FALSE /\ irq_enabled' = TRUE
    BY <1>5 DEF vl53l0x_configure_front_sensor_interrupt, io_set_interrupt_trigger, At, After
  <2>2. QED
    BY <1>4, <2>1
<1>6. CASE Finish
  <2>1. pc[1] = "finish" /\ pc' = Idle /\ irq_enabled' = irq_enabled
    BY <1>6 DEF Finish
  <2>2. pc[2] # "FRONT"
    BY <1>1, <2>1, Places
  <2>3. pc' \notin BootPcs
    BY <2>1, Places DEF MeasurePcs
  <2>4. QED
    BY <1>2, <1>4, <2>1, <2>2, <2>3
<1>7. ASSUME ~vl53l0x_configure_front_sensor_interrupt, ~Finish
      PROVE  BootInv'
  <2>1. irq' = irq /\ irq_enabled' = irq_enabled /\ ~initialized'
    BY <1>1, <1>7 DEF vl53l0x_init, Wake, Select, Transfer, Transferring, TransferFailed, WriteDone,
                PollDone, ReadDone
  <2>2. \/ pc' = Idle
        \/ /\ pc'[1] \in {"wake", "address"} <=> pc[1] \in {"wake", "address"}
           /\ pc'[2] = "FRONT" <=> pc[2] = "FRONT"
        \/ pc[1] \in {"wake", "address"} /\ pc'[1] \in {"wake", "address"}
        \/ pc[1] = "address" /\ pc' = At("select", "FRONT")
    <3>1. CASE Wake
      BY <3>1 DEF Wake, At
    <3>2. CASE Select
      BY <3>2 DEF Select, At
    <3>3. CASE Transfer \/ Transferring
      BY <3>3 DEF Transfer, Transferring
    <3>4. CASE TransferFailed \/ WriteDone \/ PollDone \/ ReadDone
      <4>1. pc[1] \in InitOps
        BY <1>1, <3>4 DEF TransferFailed, WriteDone, PollDone, ReadDone, Returned, PlaceInv
      <4>2. pc' = pc \/ pc' = Idle \/ Advances
        BY <3>4 DEF TransferFailed, WriteDone, PollDone, ReadDone, Fails
      <4>3. CASE Advances /\ pc[1] = "address"
        BY <1>1, <4>3, AddressAdvances DEF At
      <4>4. CASE Advances /\ pc[1] = "config"
        <5>1. pc[2] \in AllSensors
          BY <1>1, <4>4, Places
        <5>2. pc' = pc \/ \/ pc[2] = "FRONT" /\ pc' = At("interrupt", "FRONT")
                          \/ pc[2] # "FRONT" /\ pc' = At("finish", "NONE")
                          \/ /\ pc[2] # "FRONT" /\ pc' = At("select", After(pc[2]))
                             /\ After(pc[2]) # "NONE"
          BY <1>1, <4>4, ConfigAdvances
        <5>3. After(pc[2]) # "NONE" => After(pc[2]) # "FRONT"
          BY <5>1, Order
        <5>4. QED
          BY <4>4, <5>2, <5>3 DEF At
      <4>5. QED
        BY <4>1, <4>2, <4>3, <4>4 DEF InitOps
    <3>5. QED
      BY <1>1, <1>7, <3>1, <3>2, <3>3, <3>4 DEF vl53l0x_init
  <2>3. pc' = Idle => pc' \notin BootPcs
    BY Places DEF MeasurePcs
  <2>4. pc' = At("select", "FRONT") => pc'[2] = "FRONT"
    BY DEF At
  <2>5. QED
    BY <1>2, <1>4, <2>1, <2>2, <2>3, <2>4
<1>8. QED
  BY <1>5, <1>6, <1>7

LEMMA BootRound ==
    ASSUME Vl53l0xInv, Boot, ~garbled', initialized'
    PROVE  /\ RoundInv' /\ ~irq' /\ pc' = Idle /\ status_multiple' = "NOT_STARTED"
           /\ \A s \in Sensors : sensor'[s].busy = "none"
<1>1. /\ TypeInv /\ PlaceInv /\ BootInv /\ ConfigInv /\ vl53l0x_init
      /\ pc \in BootPcs /\ ~initialized
  BY StaysUngarbled, BootDevices DEF Vl53l0xInv, Boot
<1>2. /\ pc[1] = "finish" /\ pc' = Idle /\ device' = device /\ irq' = irq
  BY <1>1 DEF vl53l0x_init, Wake, Select, Transfer, Transferring, TransferFailed, WriteDone,
              PollDone, ReadDone, vl53l0x_configure_front_sensor_interrupt, Finish
<1>3. /\ status_multiple = "NOT_STARTED" /\ \A s \in Sensors : sensor[s].busy = "none"
      /\ ~irq
  BY <1>1, <1>2, Places DEF BootInv
<1>4. \A s \in AllSensors : "STATUS" \notin device[s].done
  BY <1>1, <1>2 DEF ConfigInv, Stage, Configured
<1>5. status_multiple' = "NOT_STARTED"
  BY <1>1, <1>3, BootSensors
<1>6. \A s \in Sensors : sensor'[s].busy = "none" /\ ~sensor'[s].status
  BY <1>1, <1>2, <1>3, <1>4, BootSensors DEF Sensors, AllSensors
<1>7. \A s \in Sensors : Quiet(s)'
  BY <1>6 DEF Quiet
<1>8. pc'[1] = "idle"
  BY <1>2 DEF Idle, At
<1>9. /\ \A op, s : op # "idle" => pc' # At(op, s)
      /\ pc' \notin {"start"} \X Sensors
  BY <1>8 DEF At
<1>10. RoundInv'
  BY <1>6, <1>7, <1>9 DEF RoundInv
<1>11. QED
  BY <1>2, <1>3, <1>5, <1>6, <1>10

LEMMA BootIsPrompt ==
    ASSUME Vl53l0xInv, Boot, ~Refused', faults' = 0
    PROVE  PromptInv'
<1>1. TypeInv /\ PlaceInv /\ CallInv /\ vl53l0x_init /\ pc \in BootPcs /\ ~initialized
  BY BootDevices DEF Vl53l0xInv, Boot
<1>2. faults = 0
  BY <1>1 DEF vl53l0x_init, Wake, Select, Transfer, Transferring, Begin, Poll, WaitEnds,
              TransferFailed, WriteDone, PollDone, ReadDone, Returned, NoCall,
              vl53l0x_configure_front_sensor_interrupt, Finish, i2cVars
<1>3. ~lost /\ phase # "error" /\ ~garbled
  BY <1>1, <1>2 DEF CallInv
<1>4. /\ PlaceInv' /\ CallInv'
  <2>1. ~garbled => AddressInv
    BY DEF Vl53l0xInv
  <2>2. QED
    BY <1>1, <2>1, BootPlaces
<1>5. CASE initialized'
  <2>1. ~garbled'
    BY <1>4 DEF CallInv
  <2>2. /\ ~irq' /\ pc' = Idle /\ status_multiple' = "NOT_STARTED"
        /\ \A s \in Sensors : sensor'[s].busy = "none"
    BY <1>5, <2>1, BootRound
  <2>3. pc'[1] = "idle"
    BY <2>2 DEF Idle, At
  <2>4. /\ pc' # Asserted /\ pc'[1] \notin {"check", "read"} /\ pc' # At("start", "FRONT")
    BY <2>3 DEF Asserted, At
  <2>5. QED
    BY <1>5, <2>2, <2>4 DEF PromptInv, Sensors
<1>6. CASE ~initialized'
  <2>1. pc' \in BootPcs
    <3>1. CASE Wake
      BY <1>1, <3>1, Places DEF Wake, BootPcs, At
    <3>2. CASE Select
      BY <1>1, <3>2, Places DEF Select, BootPcs, At
    <3>3. CASE vl53l0x_configure_front_sensor_interrupt
      BY <3>3 DEF vl53l0x_configure_front_sensor_interrupt, BootPcs, At, After, AllSensors
    <3>4. CASE Transfer \/ Transferring
      BY <1>1, <3>4 DEF Transfer, Transferring
    <3>5. CASE Finish
      BY <1>6, <3>5 DEF Finish
    <3>6. CASE TransferFailed
      BY <1>3, <3>6 DEF TransferFailed, Returned
    <3>7. CASE WriteDone \/ PollDone \/ ReadDone
      <4>1. pc[1] \in InitOps
        BY <1>1, <3>7 DEF WriteDone, PollDone, ReadDone, Returned, PlaceInv
      <4>2. Advances \/ pc' = pc
        BY <1>3, <3>7, <1>6 DEF WriteDone, PollDone, ReadDone, Refused
      <4>3. QED
        BY <1>1, <4>1, <4>2, AddressAdvances, ConfigAdvances DEF InitOps
    <3>8. QED
      BY <1>1, <3>1, <3>2, <3>3, <3>4, <3>5, <3>6, <3>7 DEF vl53l0x_init
  <2>2. pc' \notin MeasurePcs
    BY <2>1, Places
  <2>3. pc' # Asserted
    BY <2>2 DEF MeasurePcs
  <2>4. QED
    BY <1>6, <2>2, <2>3 DEF PromptInv
<1>7. QED
  BY <1>5, <1>6

LEMMA BootAstray ==
    ASSUME Vl53l0xInv, Boot
    PROVE  AstrayInv'
<1>. SUFFICES ASSUME faults' = 0
              PROVE  \A s \in Sensors : ~sensor'[s].astray
  BY DEF AstrayInv
<1>1. faults = 0
  BY DEF Boot, vl53l0x_init, Wake, Select, Transfer, Transferring, Begin, Poll, WaitEnds,
         TransferFailed, WriteDone, PollDone, ReadDone, Returned, NoCall,
         vl53l0x_configure_front_sensor_interrupt, Finish, i2cVars
<1>2. \A s \in Sensors : /\ sensor[s] \in Sensor /\ ~sensor[s].astray
                         /\ sensor'[s] = [sensor[s] EXCEPT !.status = "STATUS" \in device'[s].done]
  BY <1>1 DEF Vl53l0xInv, TypeInv, AstrayInv, Boot
<1>3. QED
  BY <1>2 DEF Sensor

LEMMA BootPreserves ==
    ASSUME Vl53l0xInv, Boot
    PROVE  Vl53l0xInv'
<1>1. TypeInv /\ PlaceInv /\ CallInv /\ (~garbled => AddressInv) /\ vl53l0x_init
  BY DEF Vl53l0xInv, Boot
<1>2. PlaceInv' /\ CallInv' /\ CallType'
  BY <1>1, BootPlaces
<1>3. TypeInv'
  BY <1>1, <1>2, BootDevices, BootSensors DEF TypeInv
<1>4. ~garbled' => AddressInv' /\ ConfigInv' /\ BootInv'
  BY <1>1, BootAddresses, BootInterrupt
<1>5. ~garbled' /\ initialized' => RoundInv'
  BY BootRound
<1>6. faults' = 0 /\ ~Refused' => PromptInv'
  BY BootIsPrompt
<1>7. AstrayInv'
  BY BootAstray
<1>8. QED
  BY <1>2, <1>3, <1>4, <1>5, <1>6, <1>7 DEF Vl53l0xInv

-----------------------------------------------------------------------------
(* The bus, and the sensors during the initialisation *)
LEMMA BusPreserves ==
    ASSUME Vl53l0xInv, Bus, UNCHANGED measureVars
    PROVE  Vl53l0xInv'
<1>1. TypeInv /\ PlaceInv /\ CallInv /\ (~garbled => AddressInv)
  BY DEF Vl53l0xInv
<1>2. /\ CallType' /\ CallInv' /\ pc[1] \in InitOps
      /\ UNCHANGED <<pc, step, slave, device, garbled, irq, irq_enabled, initialized>>
  BY <1>1, CallProceeds DEF CallType
<1>3. UNCHANGED <<status_multiple, first_call, latest_ranges, sensor>>
  BY DEF measureVars
<1>4. TypeInv'
  BY <1>1, <1>2, <1>3 DEF TypeInv
<1>5. PlaceInv'
  BY <1>1, <1>2 DEF PlaceInv
<1>6. pc \in BootPcs /\ ~initialized
  BY <1>1, <1>2, Places DEF PlaceInv, InitOps
<1>7. ~garbled' => AddressInv' /\ ConfigInv'
  BY <1>2, AddressesAlike, ConfigsAlike DEF Vl53l0xInv
<1>8. ~garbled' => BootInv'
  BY <1>2, <1>3 DEF BootInv, Vl53l0xInv
<1>9. AstrayInv'
  <2>1. faults' = 0 => faults = 0
    BY <1>1 DEF Bus, BusReady, Stall, Resume, TypeInv, CallType
  <2>2. QED
    BY <1>3, <2>1 DEF AstrayInv, Vl53l0xInv
<1>10. PromptInv'
  <2>1. pc \notin MeasurePcs
    BY <1>6, Places
  <2>2. pc # Asserted
    BY <2>1 DEF MeasurePcs
  <2>3. QED
    BY <1>2, <1>6, <2>1, <2>2 DEF PromptInv
<1>11. QED
  BY <1>2, <1>4, <1>5, <1>6, <1>7, <1>8, <1>9, <1>10 DEF Vl53l0xInv

LEMMA PreparedPreserves ==
    ASSUME Vl53l0xInv, NEW s \in AllSensors, Prepared(s)
    PROVE  Vl53l0xInv'
<1> DEFINE d == device[s]
           e == [d EXCEPT !.busy = "none", !.done = d.done \cup {d.busy}]
<1>1. TypeInv /\ PlaceInv /\ CallInv /\ device \in [AllSensors -> Device] /\ d \in Device
  BY DEF Vl53l0xInv, TypeInv
<1>2. /\ d.busy # "none" /\ device' = [device EXCEPT ![s] = e]
      /\ irq' = (irq \/ (s = "FRONT" /\ d.busy = "STATUS"))
      /\ UNCHANGED <<i2cVars, pc, step, slave, nvm, garbled, irq_enabled, initialized>>
      /\ UNCHANGED measureVars
  BY <1>1 DEF Prepared, SensorDone
<1>3. /\ e \in Device /\ e.awake = d.awake /\ e.addr = d.addr
      /\ \A k \in 1 .. 22 : Configured(d, k) => k \in {4, 13, 18} /\ Configured(e, k)
  BY <1>1, <1>2, SensorConfigures
<1>4. /\ device'[s] = e /\ \A t \in AllSensors : t # s => device'[t] = device[t]
      /\ device' \in [AllSensors -> Device]
  <2> HIDE DEF e
  <2>1. QED
    BY <1>1, <1>2, <1>3
<1>5. TypeInv' /\ CallInv'
  BY <1>1, <1>2, <1>4 DEF TypeInv, CallType, CallInv, i2cVars, callVars, measureVars
<1>6. PlaceInv'
  BY <1>1, <1>2 DEF PlaceInv, i2cVars, callVars
<1> HIDE DEF e
<1>7. ASSUME ~garbled
      PROVE  AddressInv'
  <2>1. AddressInv /\ UNCHANGED <<pc, slave, initialized>>
    BY <1>2, <1>7 DEF Vl53l0xInv
  <2>2. \A t \in AllSensors : /\ device'[t].awake <=> device[t].awake
                              /\ device'[t].addr = device[t].addr
    BY <1>3, <1>4
  <2>3. \A t \in AllSensors : (Woken(t)' <=> Woken(t)) /\ (Asleep(t)' <=> Asleep(t))
    BY <2>2 DEF Woken, Asleep
  <2>4. pc[1] \in {"wake", "address"} => pc[2] \in AllSensors
    BY <1>1, Places DEF PlaceInv
  <2>5. pc[1] \in {"wake", "address"} =>
            /\ Asleep(pc[2])' <=> Asleep(pc[2])
            /\ device'[pc'[2]].awake <=> device[pc[2]].awake
            /\ device'[pc'[2]].addr = device[pc[2]].addr
    BY <2>1, <2>2, <2>4 DEF Asleep
  <2>6. QED
    BY <2>1, <2>3, <2>5 DEF AddressInv
<1>8. ASSUME ~garbled
      PROVE  ConfigInv'
  <2>1. ConfigInv /\ UNCHANGED <<pc, step, initialized>>
    BY <1>2, <1>8 DEF Vl53l0xInv
  <2>2. \A t \in AllSensors : Stage(t)' = Stage(t)
    BY <2>1 DEF Stage
  <2>3. ASSUME NEW t \in AllSensors, pc \in BootPcs \/ initialized
        PROVE  Configured(device'[t], Stage(t)')
    <3>1. Configured(device[t], Stage(t))
      BY <2>1, <2>3 DEF ConfigInv
    <3>2. Stage(t) \in 1 .. 22
      BY <1>1 DEF Stage, PlaceInv
    <3>3. CASE t = s
      BY <1>3, <1>4, <2>2, <3>1, <3>2, <3>3
    <3>4. CASE t # s
      BY <1>4, <2>2, <3>1, <3>4
    <3>5. QED
      BY <3>3, <3>4
  <2>4. QED
    BY <2>1, <2>3 DEF ConfigInv
<1>9. ASSUME ~garbled, pc \in BootPcs \/ initialized
      PROVE  Stage(s) # 22
  <2>1. Configured(d, Stage(s))
    BY <1>9 DEF Vl53l0xInv, ConfigInv
  <2>2. QED
    BY <1>3, <2>1
<1>10. ASSUME ~garbled
       PROVE  BootInv' /\ ~initialized
  <2>1. BootInv
    BY <1>10 DEF Vl53l0xInv
  <2>2. ~initialized
    <3>1. initialized => pc[1] \notin {"wake", "address", "select", "config", "interrupt"}
      BY <1>1, Places DEF PlaceInv
    <3>2. initialized => Stage(s) = 22
      BY <3>1 DEF Stage
    <3>3. QED
      BY <1>9, <1>10, <3>2
  <2>3. ASSUME pc \in BootPcs, irq_enabled
        PROVE  ~irq'
    <3>1. ~irq /\ pc[1] \notin {"wake", "address"} /\ pc[2] # "FRONT"
      BY <2>1, <2>3 DEF BootInv
    <3>2. pc[1] # "interrupt" /\ (pc[1] \in {"select", "config"} => pc[2] \in AllSensors)
      BY <2>3, <3>1, Places
    <3>3. s = "FRONT" => Stage(s) = 22
      <4>1. \A t \in AllSensors : t # "FRONT" => Rank["FRONT"] < Rank[t]
        BY DEF Rank, AllSensors
      <4>2. QED
        BY <3>1, <3>2, <4>1 DEF Stage
    <3>4. s # "FRONT"
      BY <1>9, <1>10, <2>3, <3>3
    <3>5. QED
      BY <1>2, <3>1, <3>4
  <2>4. QED
    BY <1>2, <2>1, <2>2, <2>3 DEF BootInv, measureVars
<1>11. ASSUME ~Refused, faults = 0
       PROVE  PromptInv'
  <2>1. ~garbled /\ PromptInv
    BY <1>1, <1>11 DEF Vl53l0xInv, CallInv
  <2>2. ~initialized
    BY <1>10, <2>1
  <2>3. QED
    BY <1>2, <2>1, <2>2 DEF PromptInv
<1>12. QED
  BY <1>2, <1>5, <1>6, <1>7, <1>8, <1>10, <1>11 DEF Vl53l0xInv, AstrayInv, Refused, i2cVars, measureVars

-----------------------------------------------------------------------------
(* Measuring: what every step of a call leaves alone, and where it goes *)
LEMMA MeasureFrame ==
    ASSUME Measure
    PROVE  /\ UNCHANGED <<bootVars, initialized, irq>>
           /\ garbled => garbled'
<1>1. UNCHANGED bootVars
  BY DEF Measure
<1>2. CASE (Call \/ WaitDone \/ StartMultiple \/ Started \/ ReturnCached) /\ UNCHANGED garbled
  <2>1. Call \/ WaitDone => UNCHANGED <<initialized, irq>>
    BY DEF Call, WaitDone
  <2>2. StartMultiple => UNCHANGED <<initialized, irq>>
    BY DEF StartMultiple
  <2>3. Started \/ ReturnCached => UNCHANGED <<initialized, irq>>
    BY DEF Started, ReturnCached
  <2>4. QED
    BY <1>1, <1>2, <2>1, <2>2, <2>3
<1>3. ASSUME NEW s \in Sensors, IsSysrangeDone(s) \/ StartSysrange(s), UNCHANGED garbled
      PROVE  UNCHANGED <<initialized, irq, garbled>>
  <2>1. IsSysrangeDone(s) => UNCHANGED <<initialized, irq>>
    BY DEF IsSysrangeDone
  <2>2. StartSysrange(s) => UNCHANGED <<initialized, irq>>
    BY DEF StartSysrange
  <2>3. QED
    BY <1>3, <2>1, <2>2
<1>4. ASSUME NEW s \in Sensors, ReadRange(s)
      PROVE  UNCHANGED <<initialized, irq>> /\ (garbled => garbled')
  BY <1>4 DEF ReadRange
<1>5. ASSUME NEW s \in Sensors, ReadRangeFails(s)
      PROVE  UNCHANGED <<initialized, irq, garbled>>
  BY <1>5 DEF ReadRangeFails
<1>6. QED
  BY <1>1, <1>2, <1>3, <1>4, <1>5 DEF Measure, Exchange, bootVars

LEMMA MeasurePlaces ==
    ASSUME Measure
    PROVE  /\ pc \in MeasurePcs /\ pc' \in MeasurePcs
           /\ pc # Asserted
           /\ pc = Idle => pc' = Asserted \/ initialized
<1> USE DEF MeasurePcs, At, Idle, Copy, Asserted, Stuck
<1>1. CASE Call
  BY <1>1 DEF Call, CallFrom, Sensors
<1>2. CASE WaitDone \/ StartMultiple \/ Started \/ ReturnCached
  BY <1>2 DEF WaitDone, StartMultiple, Started, ReturnCached, Return, Sensors
<1>3. ASSUME NEW s \in Sensors, IsSysrangeDone(s)
      PROVE  /\ pc = At("check", s)
             /\ pc' \in {AfterCheck(s), Copy, Asserted}
  BY <1>3 DEF IsSysrangeDone
<1>4. ASSUME NEW s \in Sensors, ReadRange(s) \/ ReadRangeFails(s)
      PROVE  pc = At("read", s) /\ pc' \in {AfterRead(s), Idle}
  BY <1>4 DEF ReadRange, ReadRangeFails, Return
<1>5. ASSUME NEW s \in Sensors, StartSysrange(s)
      PROVE  pc = At("start", s) /\ pc' \in {AfterStart(s), Idle, Stuck}
  BY <1>5 DEF StartSysrange, Return
<1>6. ASSUME NEW s \in Sensors
      PROVE  /\ At("check", s) \in MeasurePcs /\ At("read", s) \in MeasurePcs
             /\ At("start", s) \in MeasurePcs
             /\ AfterCheck(s) \in MeasurePcs /\ AfterRead(s) \in MeasurePcs
             /\ AfterStart(s) \in MeasurePcs
  BY DEF AfterCheck, AfterRead, AfterStart, Sensors
<1>7. ASSUME NEW s \in Sensors, Exchange(s)
      PROVE  /\ pc \in {At("check", s), At("read", s), At("start", s)}
             /\ pc' \in {AfterCheck(s), AfterRead(s), AfterStart(s), Idle, Copy, Asserted, Stuck}
  BY <1>3, <1>4, <1>5, <1>7 DEF Exchange
<1>8. ASSUME NEW s \in Sensors, Exchange(s)
      PROVE  pc \in MeasurePcs /\ pc' \in MeasurePcs /\ pc # Asserted /\ pc # Idle
  <2>1. /\ Idle \in MeasurePcs /\ Copy \in MeasurePcs /\ Asserted \in MeasurePcs
        /\ Stuck \in MeasurePcs
    OBVIOUS
  <2>2. \A op \in {"check", "read", "start"} : At(op, s) # Asserted /\ At(op, s) # Idle
    OBVIOUS
  <2> HIDE DEF MeasurePcs, At, Idle, Copy, Asserted, Stuck
  <2>3. pc \in MeasurePcs
    BY <1>6, <1>7, <1>8
  <2>4. pc' \in MeasurePcs
    BY <1>6, <1>7, <1>8, <2>1
  <2>5. pc # Asserted /\ pc # Idle
    BY <1>7, <1>8, <2>2
  <2>6. QED
    BY <2>3, <2>4, <2>5
<1>9. QED
  BY <1>1, <1>2, <1>8 DEF Measure

(* What the fault does to a start, if there is one. *)
LEMMA StartOutcome ==
    ASSUME TypeInv, NEW s \in Sensors, StartSysrange(s)
    PROVE  /\ sensor' \in [Sensors -> Sensor]
           /\ sensor'[s].status = sensor[s].status
           /\ sensor'[s].busy \in {sensor[s].busy, "current"}
           /\ \A t \in Sensors : t # s => sensor'[t] = sensor[t]
           /\ faults' = faults \/ faults' = faults + 1
           /\ faults' = faults => sensor' = Begun(s) /\ pc' = AfterStart(s)
<1>1. sensor \in [Sensors -> Sensor] /\ faults \in Nat
  BY DEF TypeInv, CallType
<1>. DEFINE begun == [sensor[s] EXCEPT !.busy = "current", !.astray = FALSE]
            astray(b) == [sensor[s] EXCEPT !.astray = b]
<1>2. \E v \in {begun, astray(TRUE), astray(FALSE)} : sensor' = [sensor EXCEPT ![s] = v]
  BY DEF StartSysrange, Begun
<1>3. ASSUME NEW v \in {begun, astray(TRUE), astray(FALSE)}
      PROVE  v \in Sensor /\ v.status = sensor[s].status /\ v.busy \in {sensor[s].busy, "current"}
  <2>1. sensor[s] \in Sensor
    BY <1>1
  <2>2. QED
    BY <2>1, <1>3 DEF Sensor, Ages
<1>4. PICK v \in {begun, astray(TRUE), astray(FALSE)} : sensor' = [sensor EXCEPT ![s] = v]
  BY <1>2
<1>. HIDE DEF begun, astray
<1>5. /\ sensor' \in [Sensors -> Sensor]
      /\ sensor'[s].status = sensor[s].status
      /\ sensor'[s].busy \in {sensor[s].busy, "current"}
      /\ \A t \in Sensors : t # s => sensor'[t] = sensor[t]
  <2>1. /\ v \in Sensor /\ v.status = sensor[s].status
        /\ v.busy \in {sensor[s].busy, "current"}
    BY <1>3
  <2>2. sensor'[s] = v
    BY <1>1, <1>4
  <2>3. QED
    BY <1>1, <1>4, <2>1, <2>2
<1>6. /\ faults' = faults \/ faults' = faults + 1
      /\ faults' = faults => sensor' = Begun(s) /\ pc' = AfterStart(s)
  BY <1>1 DEF StartSysrange, Fault, Faults
<1>7. QED
  BY <1>5, <1>6

(* A reading that loses no byte is of a sensor that says it is done. *)
LEMMA ReadOutcome ==
    ASSUME TypeInv, NEW s \in Sensors, ReadRange(s)
    PROVE  /\ pc = At("read", s) /\ pc' = AfterRead(s)
           /\ UNCHANGED <<status_multiple, first_call, irq>>
           /\ \E b \in BOOLEAN : sensor' = [sensor EXCEPT ![s].status = b]
           /\ \E age \in {"garbage", sensor[s].range} :
                 latest_ranges' = [latest_ranges EXCEPT ![s] = age]
           /\ ~garbled' => /\ ~garbled /\ sensor[s].status
                           /\ sensor' = [sensor EXCEPT ![s].status = FALSE]
                           /\ latest_ranges' = [latest_ranges EXCEPT ![s] = sensor[s].range]
           /\ faults' \in Nat /\ faults' >= faults
           /\ faults' = faults /\ ~sensor[s].astray => (garbled' <=> garbled)
<1>1. sensor[s] \in Sensor /\ faults \in Nat
  BY DEF TypeInv, CallType
<1>2. PICK lossy \in SUBSET ReadExchanges :
          LET is_range == "range" \notin lossy /\ ~sensor[s].astray
              cleared == ~({"clear", "clear_again"} \subseteq lossy) /\ ~sensor[s].astray
          IN  /\ SaysDone(s) \/ "poll" \in lossy
              /\ latest_ranges' =
                     [latest_ranges EXCEPT ![s] = IF is_range THEN sensor[s].range ELSE "garbage"]
              /\ sensor' = [sensor EXCEPT ![s].status = @ /\ ~cleared]
              /\ garbled' = (garbled \/ ~(sensor[s].status /\ is_range /\ cleared))
              /\ Faults(Cardinality(lossy))
  BY DEF ReadRange
<1>. DEFINE is_range == "range" \notin lossy /\ ~sensor[s].astray
            cleared == ~({"clear", "clear_again"} \subseteq lossy) /\ ~sensor[s].astray
<1>3. /\ SaysDone(s) \/ "poll" \in lossy
      /\ latest_ranges' =
             [latest_ranges EXCEPT ![s] = IF is_range THEN sensor[s].range ELSE "garbage"]
      /\ sensor' = [sensor EXCEPT ![s].status = sensor[s].status /\ ~cleared]
      /\ garbled' = (garbled \/ ~(sensor[s].status /\ is_range /\ cleared))
      /\ faults' = faults + Cardinality(lossy)
  BY <1>2 DEF Faults
<1>4. is_range \in BOOLEAN /\ cleared \in BOOLEAN /\ sensor[s].status \in BOOLEAN
  BY <1>1 DEF Sensor
<1>5. Cardinality(lossy) \in Nat /\ (Cardinality(lossy) = 0 => lossy = {})
  <2>1. IsFiniteSet(lossy)
    <3>1. IsFiniteSet({} \cup {"poll"})
      BY FS_EmptySet, FS_AddElement
    <3>2. IsFiniteSet(({} \cup {"poll"}) \cup {"range"})
      BY <3>1, FS_AddElement
    <3>3. IsFiniteSet((({} \cup {"poll"}) \cup {"range"}) \cup {"clear"})
      BY <3>2, FS_AddElement
    <3>4. IsFiniteSet(((({} \cup {"poll"}) \cup {"range"}) \cup {"clear"}) \cup {"clear_again"})
      BY <3>3, FS_AddElement
    <3>5. ReadExchanges = ((({} \cup {"poll"}) \cup {"range"}) \cup {"clear"}) \cup {"clear_again"}
      BY DEF ReadExchanges
    <3>6. QED
      BY <3>4, <3>5, FS_Subset
  <2>2. QED
    BY <2>1, FS_CardinalityType, FS_EmptySet
<1>6. lossy = {} /\ ~sensor[s].astray => sensor[s].status /\ is_range /\ cleared
  BY <1>3 DEF SaysDone
<1>. HIDE DEF is_range, cleared
<1>7. \E b \in BOOLEAN : sensor' = [sensor EXCEPT ![s].status = b]
  BY <1>3, <1>4
<1>8. \E age \in {"garbage", sensor[s].range} :
          latest_ranges' = [latest_ranges EXCEPT ![s] = age]
  BY <1>3
<1>9. ASSUME ~garbled'
      PROVE  /\ ~garbled /\ sensor[s].status
             /\ sensor' = [sensor EXCEPT ![s].status = FALSE]
             /\ latest_ranges' = [latest_ranges EXCEPT ![s] = sensor[s].range]
  <2>1. ~garbled /\ sensor[s].status /\ is_range /\ cleared
    BY <1>3, <1>9
  <2>2. (sensor[s].status /\ ~cleared) = FALSE
    BY <2>1
  <2>3. QED
    BY <1>3, <2>1, <2>2
<1>10. faults' \in Nat /\ faults' >= faults /\ (faults' = faults => Cardinality(lossy) = 0)
  BY <1>1, <1>3, <1>5
<1>11. faults' = faults /\ ~sensor[s].astray => (garbled' <=> garbled)
  BY <1>3, <1>5, <1>6, <1>10
<1>12. /\ pc = At("read", s) /\ pc' = AfterRead(s)
       /\ UNCHANGED <<status_multiple, first_call, irq>>
  BY DEF ReadRange
<1>13. QED
  BY <1>7, <1>8, <1>9, <1>10, <1>11, <1>12

LEMMA MeasureTypes ==
    ASSUME TypeInv, PlaceInv, CallInv, Measure, AstrayInv
    PROVE  /\ TypeInv' /\ PlaceInv' /\ CallInv'
           /\ pc \in MeasurePcs /\ pc' \in MeasurePcs
           /\ initialized \/ (pc = Idle /\ pc' = Asserted)
           /\ faults' = 0 => faults = 0
           /\ AstrayInv'
<1>1. /\ pc \in MeasurePcs /\ pc' \in MeasurePcs
      /\ initialized \/ (pc = Idle /\ pc' = Asserted)
  <2>1. /\ pc \in MeasurePcs /\ pc' \in MeasurePcs /\ pc # Asserted
        /\ pc = Idle => pc' = Asserted \/ initialized
    BY MeasurePlaces
  <2>2. pc \in MeasurePcs /\ ~initialized => pc = Idle \/ pc = Asserted
    BY DEF PlaceInv
  <2>3. QED
    BY <2>1, <2>2
<1>2. UNCHANGED <<bootVars, initialized>>
  BY MeasureFrame
<1>3. faults \in Nat
  BY DEF TypeInv, CallType
<1>4. faults' \in Nat /\ (faults' = 0 => faults = 0)
  <2>1. ASSUME NEW s \in Sensors, Exchange(s)
        PROVE  faults' \in Nat /\ faults' >= faults
    <3>1. CASE ReadRange(s)
      BY <3>1, ReadOutcome
    <3>2. CASE IsSysrangeDone(s) \/ ReadRangeFails(s) \/ StartSysrange(s)
      BY <1>3, <3>2 DEF IsSysrangeDone, ReadRangeFails, StartSysrange, Fault, Faults
    <3>3. QED
      BY <2>1, <3>1, <3>2 DEF Exchange
  <2>2. Call \/ WaitDone \/ StartMultiple \/ Started \/ ReturnCached => faults' = faults
    BY DEF Call, WaitDone, StartMultiple, Started, ReturnCached
  <2>3. QED
    BY <1>3, <2>1, <2>2 DEF Measure
<1>12. faults' = 0 => (garbled' <=> garbled)
  <2>1. ASSUME faults' = 0, NEW s \in Sensors, Exchange(s)
        PROVE  garbled' <=> garbled
    <3>1. faults = 0 /\ ~sensor[s].astray
      BY <1>4, <2>1 DEF AstrayInv
    <3>2. CASE ReadRange(s)
      BY <2>1, <3>1, <3>2, ReadOutcome
    <3>3. CASE ReadRangeFails(s)
      BY <3>3 DEF ReadRangeFails
    <3>4. QED
      BY <2>1, <3>2, <3>3 DEF Exchange
  <2>2. QED
    BY <2>1 DEF Measure
<1>5. CallInv'
  BY <1>2, <1>4, <1>12 DEF CallInv, bootVars, callVars
<1>6. PlaceInv'
  <2>1. pc[1] \notin InitOps /\ pc'[1] \notin InitOps
    BY <1>1, Places DEF InitOps
  <2>2. step = 1 /\ phase = "idle"
    BY <1>1, <2>1, Places DEF PlaceInv, InitOps
  <2>3. step' = 1 /\ phase' = "idle"
    BY <1>2, <2>2 DEF bootVars, callVars
  <2>4. pc'[1] # "address" /\ pc'[1] # "config" /\ pc' \notin BootPcs
    BY <1>1, Places
  <2>5. QED
    BY <1>1, <1>2, <2>3, <2>4 DEF PlaceInv
<1>7. sensor' \in [Sensors -> Sensor]
  <2>1. sensor \in [Sensors -> Sensor]
    BY DEF TypeInv
  <2>2. CASE StartMultiple
    <3>1. \A s \in Sensors : [sensor[s] EXCEPT !.busy = Aged(@), !.range = Aged(@)] \in Sensor
      BY <2>1 DEF Sensor, Ages, Aged
    <3>2. QED
      BY <2>1, <2>2, <3>1 DEF StartMultiple
  <2>3. ASSUME NEW s \in Sensors, Exchange(s)
        PROVE  sensor' \in [Sensors -> Sensor]
    <3>1. sensor[s] \in Sensor /\ sensor[s].status \in BOOLEAN
      BY <2>1 DEF Sensor
    <3>2. \A b \in BOOLEAN : [sensor[s] EXCEPT !.status = b] \in Sensor
      BY <3>1 DEF Sensor, Ages
    <3>3. CASE StartSysrange(s)
      BY <3>3, StartOutcome
    <3>4. CASE ReadRange(s) \/ ReadRangeFails(s)
      <4>1. \E b \in BOOLEAN : sensor' = [sensor EXCEPT ![s] = [sensor[s] EXCEPT !.status = b]]
        BY <3>1, <3>4, ReadOutcome DEF ReadRangeFails
      <4>2. QED
        BY <2>1, <3>2, <4>1
    <3>5. CASE IsSysrangeDone(s)
      BY <2>1, <3>5 DEF IsSysrangeDone
    <3>6. QED
      BY <2>3, <3>3, <3>4, <3>5 DEF Exchange
  <2>4. CASE Call \/ WaitDone \/ Started \/ ReturnCached
    BY <2>1, <2>4 DEF Call, WaitDone, Started, ReturnCached
  <2>5. QED
    BY <2>2, <2>3, <2>4 DEF Measure
<1>8. latest_ranges' \in [Sensors -> Ages]
  <2>1. latest_ranges \in [Sensors -> Ages] /\ sensor \in [Sensors -> Sensor]
    BY DEF TypeInv
  <2>2. CASE StartMultiple
    <3>1. \A s \in Sensors : Aged(latest_ranges[s]) \in Ages
      BY <2>1 DEF Ages, Aged
    <3>2. QED
      BY <2>1, <2>2, <3>1 DEF StartMultiple
  <2>3. ASSUME NEW s \in Sensors, Exchange(s)
        PROVE  latest_ranges' \in [Sensors -> Ages]
    <3>1. {latest_ranges[s], "garbage", sensor[s].range} \subseteq Ages
      BY <2>1 DEF Sensor, Ages
    <3>2. CASE ReadRange(s) \/ ReadRangeFails(s)
      <4>1. \E age \in {latest_ranges[s], "garbage", sensor[s].range} :
                latest_ranges' = [latest_ranges EXCEPT ![s] = age]
        BY <3>2, ReadOutcome DEF ReadRangeFails
      <4>2. QED
        BY <2>1, <3>1, <4>1
    <3>3. CASE IsSysrangeDone(s) \/ StartSysrange(s)
      BY <2>1, <3>3 DEF IsSysrangeDone, StartSysrange
    <3>4. QED
      BY <2>3, <3>2, <3>3 DEF Exchange
  <2>4. CASE Call \/ WaitDone \/ Started \/ ReturnCached
    BY <2>1, <2>4 DEF Call, WaitDone, Started, ReturnCached
  <2>5. QED
    BY <2>2, <2>3, <2>4 DEF Measure
<1>9. status_multiple' = status_multiple \/ status_multiple' = "MEASURING"
  BY DEF Measure, Exchange, Call, WaitDone, StartMultiple, Started, ReturnCached, IsSysrangeDone,
         ReadRange, ReadRangeFails, StartSysrange
<1>10. TypeInv'
  BY <1>2, <1>4, <1>7, <1>8, <1>9 DEF TypeInv, CallType, bootVars, callVars
<1>11. AstrayInv'
  <2>. SUFFICES ASSUME faults' = 0, NEW t \in Sensors
                PROVE  ~sensor'[t].astray
    BY DEF AstrayInv
  <2>1. faults = 0 /\ ~sensor[t].astray /\ sensor \in [Sensors -> Sensor] /\ sensor[t] \in Sensor
    BY <1>4 DEF AstrayInv, TypeInv
  <2>2. CASE StartMultiple
    <3>1. \/ sensor' = sensor
          \/ sensor'[t] = [sensor[t] EXCEPT !.busy = Aged(@), !.range = Aged(@)]
      BY <2>2 DEF StartMultiple
    <3>2. QED
      BY <2>1, <3>1 DEF Sensor
  <2>3. ASSUME NEW s \in Sensors, Exchange(s)
        PROVE  ~sensor'[t].astray
    <3>1. CASE StartSysrange(s)
      <4>1. sensor' = [sensor EXCEPT ![s] = [sensor[s] EXCEPT !.busy = "current", !.astray = FALSE]]
        BY <1>3, <2>1, <3>1, StartOutcome DEF Begun
      <4>2. sensor'[t] \in {sensor[t], [sensor[t] EXCEPT !.busy = "current", !.astray = FALSE]}
        BY <2>1, <4>1
      <4>3. QED
        BY <2>1, <4>2 DEF Sensor
    <3>2. CASE ReadRange(s) \/ ReadRangeFails(s)
      <4>1. sensor[s].status \in BOOLEAN
        BY <2>1 DEF Sensor
      <4>2. \E b \in BOOLEAN : sensor' = [sensor EXCEPT ![s] = [sensor[s] EXCEPT !.status = b]]
        BY <3>2, <4>1, ReadOutcome DEF ReadRangeFails
      <4>3. PICK b \in BOOLEAN : sensor'[t] \in {sensor[t], [sensor[t] EXCEPT !.status = b]}
        BY <2>1, <4>2
      <4>4. QED
        BY <2>1, <4>3 DEF Sensor
    <3>3. CASE IsSysrangeDone(s)
      BY <2>1, <3>3 DEF IsSysrangeDone
    <3>4. QED
      BY <2>3, <3>1, <3>2, <3>3 DEF Exchange
  <2>4. CASE Call \/ WaitDone \/ Started \/ ReturnCached
    BY <2>1, <2>4 DEF Call, WaitDone, Started, ReturnCached
  <2>5. QED
    BY <2>2, <2>3, <2>4 DEF Measure
<1>13. QED
  BY <1>1, <1>4, <1>5, <1>6, <1>10, <1>11

-----------------------------------------------------------------------------
(* Measuring: the round *)

(* Where nothing is known of the sensors' statuses, whatever a check said.  *)
Elsewhere == {Idle, Copy, Asserted, At("check", "FRONT_LEFT"), At("check", "FRONT_RIGHT"),
              At("check", "FRONT"), At("read", "FRONT"), At("started", "NONE"), At("wait", "NONE")}

LEMMA RoundElsewhere ==
    ASSUME RoundInv, pc' \in Elsewhere,
           sensor' = sensor, status_multiple' = status_multiple
    PROVE  RoundInv'
<1>1. /\ pc' # At("read", "FRONT_LEFT") /\ pc' # At("read", "FRONT_RIGHT")
      /\ pc' # At("start", "NONE") /\ pc' \notin {"start"} \X Sensors
      /\ pc' # At("start", "FRONT") /\ pc' # At("start", "FRONT_LEFT") /\ pc' # At("start", "FRONT_RIGHT")
  BY DEF Elsewhere, Idle, Copy, Asserted, At
<1>2. \A s \in Sensors : /\ Quiet(s)' <=> Quiet(s)
                         /\ sensor'[s] = sensor[s]
  BY DEF Quiet
<1>3. QED
  BY <1>1, <1>2 DEF RoundInv

LEMMA CallRound ==
    ASSUME RoundInv, Call, initialized
    PROVE  RoundInv'
<1>1. /\ sensor' = sensor /\ status_multiple' = status_multiple
      /\ pc' = CallFrom(status_multiple)
      /\ first_call' = (status_multiple = "NOT_STARTED")
  BY DEF Call
<1>2. CASE status_multiple # "NOT_STARTED"
  BY <1>1, <1>2, RoundElsewhere DEF CallFrom, Elsewhere
<1>3. CASE status_multiple = "NOT_STARTED"
  <2>1. pc' = At("start", "NONE") /\ first_call'
    BY <1>1, <1>3 DEF CallFrom
  <2>2. \A s \in Sensors : Quiet(s)' /\ ~sensor'[s].status /\ sensor'[s].busy = "none"
    BY <1>1, <1>3 DEF RoundInv, Quiet
  <2>3. pc'[1] = "start" /\ pc'[2] = "NONE"
    BY <2>1 DEF At
  <2>4. /\ pc' # At("read", "FRONT_LEFT") /\ pc' # At("read", "FRONT_RIGHT")
        /\ pc' \notin {"start"} \X Sensors
        /\ pc' # At("start", "FRONT") /\ pc' # At("start", "FRONT_LEFT") /\ pc' # At("start", "FRONT_RIGHT")
    BY <2>3 DEF At, Sensors
  <2>5. QED
    BY <2>1, <2>2, <2>4 DEF RoundInv
<1>4. QED
  BY <1>2, <1>3

LEMMA CheckRound ==
    ASSUME RoundInv, NEW s \in Sensors, IsSysrangeDone(s)
    PROVE  RoundInv'
<1>1. sensor' = sensor /\ status_multiple' = status_multiple
  BY DEF IsSysrangeDone
<1>2. pc' \in {AfterCheck(s), Copy, Asserted}
  BY DEF IsSysrangeDone
<1>3. pc' \in Elsewhere
  BY <1>2 DEF AfterCheck, Elsewhere
<1>4. QED
  BY <1>1, <1>3, RoundElsewhere

LEMMA ReadRound ==
    ASSUME TypeInv, RoundInv, NEW s \in Sensors, ReadRange(s), ~garbled'
    PROVE  RoundInv'
<1>1. /\ sensor[s].status /\ pc = At("read", s)
      /\ latest_ranges' = [latest_ranges EXCEPT ![s] = sensor[s].range]
      /\ sensor' = [sensor EXCEPT ![s].status = FALSE]
      /\ pc' = AfterRead(s)
      /\ status_multiple' = status_multiple /\ first_call' = first_call
  BY ReadOutcome
<1>2. sensor \in [Sensors -> Sensor] /\ latest_ranges \in [Sensors -> Ages]
  BY DEF TypeInv
<1>3. sensor[s].busy = "none" /\ sensor[s].range = "current"
  BY <1>1 DEF RoundInv
<1>4. /\ ~sensor'[s].status /\ sensor'[s].busy = "none" /\ latest_ranges'[s] = "current"
      /\ \A t \in Sensors : t # s => /\ sensor'[t] = sensor[t]
                                     /\ latest_ranges'[t] = latest_ranges[t]
  <2>1. sensor'[s] = [sensor[s] EXCEPT !.status = FALSE]
    BY <1>1, <1>2
  <2>2. sensor[s] \in Sensor
    BY <1>2
  <2>3. sensor'[s].status = FALSE /\ sensor'[s].busy = "none"
    BY <1>3, <2>1, <2>2 DEF Sensor
  <2>4. QED
    BY <1>1, <1>2, <1>3, <2>3
<1>5. \A t \in Sensors : /\ sensor'[t].busy \in {"none", "current"}
                         /\ sensor'[t].status => /\ sensor'[t].busy = "none"
                                                 /\ sensor'[t].range = "current"
  BY <1>4 DEF RoundInv
<1>6. Read1(s)'
  BY <1>4 DEF Read1, Quiet
<1>7. \A t \in Sensors : t # s => (Read1(t)' <=> Read1(t)) /\ (Quiet(t)' <=> Quiet(t))
  BY <1>4 DEF Read1, Quiet
<1>8. status_multiple' # "NOT_STARTED"
  BY <1>1 DEF RoundInv, Quiet
<1>9. CASE s = "FRONT"
  <2>1. pc' = At("read", "FRONT_LEFT")
    BY <1>1, <1>9 DEF AfterRead
  <2>2. Read1("FRONT")'
    BY <1>6, <1>9
  <2>3. QED
    BY <1>5, <1>8, <2>1, <2>2 DEF RoundInv, At
<1>10. CASE s = "FRONT_LEFT"
  <2>1. pc' = At("read", "FRONT_RIGHT")
    BY <1>1, <1>10 DEF AfterRead
  <2>2. Read1("FRONT")
    BY <1>1, <1>10 DEF RoundInv
  <2>3. Read1("FRONT")'
    BY <1>7, <1>10, <2>2 DEF Sensors
  <2>4. QED
    BY <1>5, <1>6, <1>8, <1>10, <2>1, <2>3 DEF RoundInv, At
<1>11. CASE s = "FRONT_RIGHT"
  <2>1. pc' = At("start", "NONE")
    BY <1>1, <1>11 DEF AfterRead
  <2>2. Read1("FRONT") /\ Read1("FRONT_LEFT")
    BY <1>1, <1>11 DEF RoundInv
  <2>3. \A t \in Sensors : Read1(t)'
    BY <1>6, <1>7, <1>11, <2>2 DEF Sensors
  <2>4. \A t \in Sensors : Quiet(t)'
    BY <2>3 DEF Read1
  <2>5. QED
    BY <1>5, <1>8, <2>1, <2>3, <2>4 DEF RoundInv, At, Sensors
<1>12. QED
  BY <1>9, <1>10, <1>11 DEF Sensors

LEMMA ReadFailsRound ==
    ASSUME TypeInv, RoundInv, NEW s \in Sensors, ReadRangeFails(s)
    PROVE  RoundInv'
<1>1. pc' = Idle /\ status_multiple' = status_multiple
  BY DEF ReadRangeFails, Return
<1>2. \E b \in BOOLEAN :
         sensor' = [sensor EXCEPT ![s] = [sensor[s] EXCEPT !.status = sensor[s].status /\ ~b]]
  BY DEF ReadRangeFails
<1>3. PICK b \in BOOLEAN :
         sensor' = [sensor EXCEPT ![s] = [sensor[s] EXCEPT !.status = sensor[s].status /\ ~b]]
  BY <1>2
<1>4. sensor \in [Sensors -> Sensor] /\ sensor[s] \in Sensor
  BY DEF TypeInv
<1>5. \A t \in Sensors : /\ sensor'[t].busy = sensor[t].busy
                         /\ sensor'[t].range = sensor[t].range
                         /\ sensor'[t].status => sensor[t].status
  <2>1. \A t \in Sensors : t # s => sensor'[t] = sensor[t]
    BY <1>3, <1>4
  <2>2. sensor'[s] = [sensor[s] EXCEPT !.status = sensor[s].status /\ ~b]
    BY <1>3, <1>4
  <2>3. sensor'[s].busy = sensor[s].busy /\ sensor'[s].range = sensor[s].range
    BY <1>4, <2>2 DEF Sensor
  <2>4. sensor'[s].status => sensor[s].status
    BY <1>4, <2>2 DEF Sensor
  <2>5. QED
    BY <2>1, <2>3, <2>4
<1>6. \A t \in Sensors : Quiet(t) => Quiet(t)'
  BY <1>5 DEF Quiet
<1>7. QED
  BY <1>1, <1>5, <1>6 DEF RoundInv, Idle, At

LEMMA StartMultipleRound ==
    ASSUME TypeInv, RoundInv, StartMultiple
    PROVE  RoundInv'
<1>1. CASE status_multiple = "MEASURING"
  <2>1. pc' = Idle /\ sensor' = sensor /\ status_multiple' = status_multiple
    BY <1>1 DEF StartMultiple, Return
  <2>2. QED
    BY <2>1, RoundElsewhere DEF Elsewhere
<1>2. CASE status_multiple # "MEASURING"
  <2>1. /\ pc = At("start", "NONE") /\ pc' = At("start", "FRONT") /\ status_multiple' = "MEASURING"
        /\ sensor' = [s \in Sensors |-> [sensor[s] EXCEPT !.busy = Aged(@), !.range = Aged(@)]]
    BY <1>2 DEF StartMultiple
  <2>2. \A s \in Sensors : sensor[s] \in Sensor /\ sensor[s].busy = "none" /\ ~sensor[s].status
    BY <2>1 DEF TypeInv, RoundInv, Read1, Quiet
  <2>3. \A s \in Sensors : sensor'[s].busy = "none" /\ ~sensor'[s].status
    <3>1. ASSUME NEW s \in Sensors
          PROVE  sensor'[s].busy = "none" /\ ~sensor'[s].status
      <4>1. sensor'[s] = [sensor[s] EXCEPT !.busy = Aged(@), !.range = Aged(@)]
        BY <2>1
      <4>2. QED
        BY <2>2, <4>1 DEF Sensor, Aged
    <3>2. QED
      BY <3>1
  <2>4. \A s \in Sensors : Quiet(s)'
    BY <2>3 DEF Quiet
  <2>5. QED
    BY <2>1, <2>3, <2>4 DEF RoundInv, At
<1>3. QED
  BY <1>1, <1>2

LEMMA StartRound ==
    ASSUME TypeInv, RoundInv, NEW s \in Sensors, StartSysrange(s)
    PROVE  RoundInv'
<1>1. /\ pc = At("start", s)
      /\ pc' = AfterStart(s) \/ pc' \in {Idle, Stuck}
      /\ status_multiple' = status_multiple
  BY DEF StartSysrange, Return
<1>2. Quiet(s) /\ status_multiple # "NOT_STARTED"
  BY <1>1 DEF RoundInv, Sensors, At
<1>3. sensor[s].busy = "none" /\ ~sensor[s].status
  BY <1>2 DEF Quiet
<1>4. /\ ~sensor'[s].status /\ sensor'[s].busy \in {"none", "current"}
      /\ \A t \in Sensors : t # s => sensor'[t] = sensor[t]
  BY <1>3, StartOutcome
<1>5. \A t \in Sensors : /\ sensor'[t].busy \in {"none", "current"}
                         /\ sensor'[t].status => /\ sensor'[t].busy = "none"
                                                 /\ sensor'[t].range = "current"
  BY <1>4 DEF RoundInv
<1>6. \A t \in Sensors : t # s => (Quiet(t)' <=> Quiet(t))
  BY <1>4 DEF Quiet
<1>7. CASE pc' \in {Idle, Stuck}
  BY <1>1, <1>2, <1>5, <1>7 DEF RoundInv, Idle, Stuck, At
<1>8. CASE pc' = AfterStart(s) /\ s = "FRONT"
  <2>1. pc' = At("start", "FRONT_LEFT")
    BY <1>8 DEF AfterStart
  <2>2. Quiet("FRONT_LEFT") /\ Quiet("FRONT_RIGHT")
    BY <1>1, <1>8 DEF RoundInv, Sensors
  <2>3. Quiet("FRONT_LEFT")' /\ Quiet("FRONT_RIGHT")'
    BY <1>6, <1>8, <2>2 DEF Sensors
  <2>4. QED
    BY <1>1, <1>2, <1>5, <2>1, <2>3 DEF RoundInv, At
<1>9. CASE pc' = AfterStart(s) /\ s = "FRONT_LEFT"
  <2>1. pc' = At("start", "FRONT_RIGHT")
    BY <1>9 DEF AfterStart
  <2>2. Quiet("FRONT_RIGHT")
    BY <1>1, <1>9 DEF RoundInv
  <2>3. Quiet("FRONT_RIGHT")'
    BY <1>6, <1>9, <2>2 DEF Sensors
  <2>4. QED
    BY <1>1, <1>2, <1>5, <2>1, <2>3 DEF RoundInv, At
<1>10. CASE pc' = AfterStart(s) /\ s = "FRONT_RIGHT"
  <2>1. pc' = At("started", "NONE")
    BY <1>10 DEF AfterStart
  <2>2. QED
    BY <1>1, <1>2, <1>5, <2>1 DEF RoundInv, At
<1>11. QED
  BY <1>1, <1>7, <1>8, <1>9, <1>10 DEF Sensors

LEMMA MeasureRound ==
    ASSUME TypeInv, RoundInv, Measure, initialized, ~garbled'
    PROVE  RoundInv'
<1>1. CASE Call
  BY <1>1, CallRound
<1>2. CASE WaitDone \/ Started \/ ReturnCached
  BY <1>2, RoundElsewhere DEF WaitDone, Started, ReturnCached, Return, Elsewhere
<1>3. CASE StartMultiple
  BY <1>3, StartMultipleRound
<1>4. ASSUME NEW s \in Sensors, Exchange(s)
      PROVE  RoundInv'
  BY <1>4, CheckRound, ReadRound, ReadFailsRound, StartRound DEF Exchange
<1>5. QED
  BY <1>1, <1>2, <1>3, <1>4 DEF Measure

LEMMA MeasurementOutcome ==
    ASSUME TypeInv, NEW s \in Sensors, MeasurementDone(s)
    PROVE  /\ sensor' \in [Sensors -> Sensor]
           /\ sensor'[s].status /\ sensor'[s].busy = "none"
           /\ sensor'[s].range = sensor[s].busy
           /\ sensor'[s].astray = sensor[s].astray
           /\ \A t \in Sensors : t # s => sensor'[t] = sensor[t]
<1>. DEFINE v == [sensor[s] EXCEPT !.busy = "none", !.status = TRUE, !.range = sensor[s].busy]
<1>1. sensor \in [Sensors -> Sensor] /\ sensor[s] \in Sensor
  BY DEF TypeInv
<1>2. sensor' = [sensor EXCEPT ![s] = v]
  BY DEF MeasurementDone
<1>3. /\ v \in Sensor /\ v.status /\ v.busy = "none" /\ v.range = sensor[s].busy
      /\ v.astray = sensor[s].astray
  BY <1>1 DEF Sensor, Ages
<1>. HIDE DEF v
<1>4. QED
  BY <1>1, <1>2, <1>3

LEMMA MeasuredRound ==
    ASSUME TypeInv, RoundInv, NEW s \in Sensors, MeasurementDone(s)
    PROVE  RoundInv'
<1>1. /\ sensor[s].busy # "none"
      /\ UNCHANGED <<pc, status_multiple, first_call, latest_ranges>>
  BY DEF MeasurementDone
<1>2. sensor \in [Sensors -> Sensor]
  BY DEF TypeInv
<1>3. sensor[s].busy = "current" /\ ~sensor[s].status
  BY <1>1, <1>2 DEF RoundInv
<1>4. /\ sensor'[s].status /\ sensor'[s].busy = "none" /\ sensor'[s].range = "current"
      /\ \A t \in Sensors : t # s => sensor'[t] = sensor[t]
  BY <1>3, MeasurementOutcome
<1>5. \A t \in Sensors : /\ sensor'[t].busy \in {"none", "current"}
                         /\ sensor'[t].status => /\ sensor'[t].busy = "none"
                                                 /\ sensor'[t].range = "current"
  BY <1>4 DEF RoundInv
<1>6. \A t \in Sensors : sensor[t].status => sensor'[t].status
  BY <1>3, <1>4
<1>7. ~Quiet(s) /\ ~Read1(s)
  BY <1>1 DEF Quiet, Read1
<1>8. \A t \in Sensors : (Quiet(t) => Quiet(t)') /\ (Read1(t) => Read1(t)')
  <2>1. \A t \in Sensors : t # s => (Quiet(t) => Quiet(t)') /\ (Read1(t) => Read1(t)')
    BY <1>1, <1>4 DEF Quiet, Read1
  <2>2. QED
    BY <1>7, <2>1
<1>9. UNCHANGED <<pc, status_multiple, first_call>>
  BY <1>1
<1>10. "FRONT" \in Sensors /\ "FRONT_LEFT" \in Sensors /\ "FRONT_RIGHT" \in Sensors
  BY DEF Sensors
<1>11. QED
  BY <1>5, <1>6, <1>8, <1>9, <1>10 DEF RoundInv

LEMMA ServedRound ==
    ASSUME RoundInv, front_measurement_done_isr
    PROVE  RoundInv'
<1>1. /\ status_multiple' = "DONE"
      /\ UNCHANGED <<pc, first_call, latest_ranges, sensor>>
  BY DEF front_measurement_done_isr
<1>2. \A s \in Sensors : (Quiet(s) <=> Quiet(s)') /\ (Read1(s) <=> Read1(s)')
  BY <1>1 DEF Quiet, Read1
<1>3. "FRONT" \in Sensors /\ "FRONT_LEFT" \in Sensors /\ "FRONT_RIGHT" \in Sensors
  BY DEF Sensors
<1>4. QED
  BY <1>1, <1>2, <1>3 DEF RoundInv

-----------------------------------------------------------------------------
(* Measuring: without a fault the front sensor is done when it is asked *)
Reading == {At("read", "FRONT_LEFT"), At("read", "FRONT_RIGHT"), At("start", "NONE")}

(* What PromptInv says of a call. *)
Prompt ==
    /\ irq => sensor["FRONT"].status
    /\ sensor["FRONT"].busy # "none" => status_multiple = "MEASURING"
    /\ status_multiple # "MEASURING" => ~irq
    /\ status_multiple = "DONE" => sensor["FRONT"].status \/ pc \in Reading
    /\ pc[1] \in {"check", "read"} => status_multiple = "DONE"
    /\ pc = At("start", "FRONT") => ~irq /\ status_multiple = "MEASURING"

LEMMA PromptIsPart == PromptInv <=> /\ pc # Asserted
                                    /\ initialized => Prompt
                                    /\ pc \in MeasurePcs => initialized
BY DEF PromptInv, Prompt, Reading

(* A step that leaves the front sensor, the round and the interrupt alone. *)
LEMMA PromptElsewhere ==
    ASSUME Prompt, UNCHANGED <<irq, status_multiple>>, sensor'["FRONT"] = sensor["FRONT"],
           pc \in Reading /\ status_multiple = "DONE" => pc' \in Reading,
           pc'[1] \in {"check", "read"} => status_multiple = "DONE",
           pc' # At("start", "FRONT")
    PROVE  Prompt'
BY DEF Prompt

LEMMA ExchangePrompt ==
    ASSUME TypeInv, RoundInv, Prompt, NEW s \in Sensors, Exchange(s), AstrayInv,
           ~garbled', faults = 0, faults' = 0
    PROVE  Prompt' /\ pc' # Asserted
<1>1. ~Fault /\ ~sensor[s].astray
  BY DEF Fault, Faults, AstrayInv
<1>2. sensor \in [Sensors -> Sensor] /\ "FRONT" \in Sensors
  BY DEF TypeInv, Sensors
<1>3. CASE IsSysrangeDone(s)
  <2>1. pc = At("check", s) /\ UNCHANGED <<irq, status_multiple, sensor>>
    BY <1>3 DEF IsSysrangeDone
  <2>2. status_multiple = "DONE"
    BY <2>1 DEF Prompt, At
  <2>3. sensor["FRONT"].status
    BY <2>1, <2>2 DEF Prompt, Reading, At
  <2>4. pc' = AfterCheck(s) \/ (s # "FRONT" /\ pc' = Copy)
    BY <1>1, <1>3, <2>3 DEF IsSysrangeDone
  <2>5. pc' # Asserted /\ pc' # At("start", "FRONT")
    BY <2>4 DEF AfterCheck, Asserted, Copy, At
  <2>6. pc \notin Reading
    BY <2>1 DEF Reading, At
  <2>7. QED
    BY <2>1, <2>2, <2>5, <2>6, PromptElsewhere
<1>4. CASE ReadRange(s)
  <2>1. /\ pc = At("read", s) /\ pc' = AfterRead(s) /\ UNCHANGED <<irq, status_multiple>>
        /\ sensor' = [sensor EXCEPT ![s].status = FALSE]
    BY <1>4, ReadOutcome
  <2>2. status_multiple = "DONE" /\ ~irq
    BY <2>1 DEF Prompt, At
  <2>3. pc' \in Reading
    BY <2>1 DEF AfterRead, Reading
  <2>4. pc' # Asserted /\ pc' # At("start", "FRONT")
    BY <2>3 DEF Reading, Asserted, At
  <2>5. sensor'["FRONT"].busy = sensor["FRONT"].busy
    <3>1. sensor["FRONT"] \in Sensor
      BY <1>2
    <3>2. [sensor["FRONT"] EXCEPT !.status = FALSE].busy = sensor["FRONT"].busy
      BY <3>1 DEF Sensor
    <3>3. sensor'["FRONT"] \in {sensor["FRONT"], [sensor["FRONT"] EXCEPT !.status = FALSE]}
      BY <1>2, <2>1
    <3>4. QED
      BY <3>2, <3>3
  <2>6. QED
    BY <2>1, <2>2, <2>3, <2>4, <2>5 DEF Prompt
<1>5. CASE StartSysrange(s)
  <2>1. /\ pc = At("start", s) /\ pc' = AfterStart(s) /\ UNCHANGED <<irq, status_multiple>>
        /\ \A t \in Sensors : t # s => sensor'[t] = sensor[t]
        /\ sensor'[s].status = sensor[s].status
    BY <1>1, <1>5, StartOutcome DEF StartSysrange
  <2>2. /\ pc' # Asserted /\ pc' # At("start", "FRONT") /\ pc'[1] \notin {"check", "read"}
        /\ pc \notin Reading
    BY <2>1 DEF AfterStart, Reading, Asserted, At, Sensors
  <2>3. CASE s = "FRONT"
    <3>1. ~irq /\ status_multiple = "MEASURING"
      BY <2>1, <2>3 DEF Prompt
    <3>2. QED
      BY <2>1, <2>2, <3>1 DEF Prompt
  <2>4. CASE s # "FRONT"
    <3>1. sensor'["FRONT"] = sensor["FRONT"]
      BY <1>2, <2>1, <2>4
    <3>2. QED
      BY <2>1, <2>2, <3>1, PromptElsewhere
  <2>5. QED
    BY <2>3, <2>4
<1>6. QED
  BY <1>1, <1>3, <1>4, <1>5 DEF Exchange, ReadRangeFails

LEMMA MeasurePrompt ==
    ASSUME TypeInv, RoundInv, Prompt, Measure, initialized, pc # Asserted, AstrayInv,
           ~garbled', faults = 0, faults' = 0
    PROVE  Prompt' /\ pc' # Asserted
<1>1. CASE Call
  <2>1. /\ pc = Idle /\ pc' = CallFrom(status_multiple)
        /\ UNCHANGED <<irq, status_multiple, sensor>>
    BY <1>1 DEF Call
  <2>2. /\ pc' # Asserted /\ pc' # At("start", "FRONT")
        /\ pc'[1] \in {"check", "read"} => status_multiple = "DONE"
        /\ pc \notin Reading
    BY <2>1 DEF CallFrom, Copy, Asserted, Idle, At, Reading
  <2>3. QED
    BY <2>1, <2>2, PromptElsewhere
<1>2. CASE WaitDone
  <2>1. /\ pc = At("wait", "NONE") /\ pc' = At("check", "FRONT_LEFT") /\ status_multiple = "DONE"
        /\ UNCHANGED <<irq, status_multiple, sensor>>
    BY <1>2 DEF WaitDone
  <2>2. pc' # Asserted /\ pc' # At("start", "FRONT") /\ pc \notin Reading
    BY <2>1 DEF Asserted, At, Reading
  <2>3. QED
    BY <2>1, <2>2, PromptElsewhere
<1>3. CASE Started \/ ReturnCached
  <2>1. /\ pc \in {At("started", "NONE"), Copy} /\ pc' \in {At("wait", "NONE"), Idle}
        /\ UNCHANGED <<irq, status_multiple, sensor>>
    BY <1>3 DEF Started, ReturnCached, Return
  <2>2. /\ pc' # Asserted /\ pc' # At("start", "FRONT") /\ pc \notin Reading
        /\ pc'[1] \notin {"check", "read"}
    BY <2>1 DEF Asserted, Idle, Copy, At, Reading
  <2>3. QED
    BY <2>1, <2>2, PromptElsewhere
<1>4. CASE StartMultiple /\ status_multiple = "MEASURING"
  <2>1. pc' = Idle /\ UNCHANGED <<irq, status_multiple, sensor>>
    BY <1>4 DEF StartMultiple, Return
  <2>2. /\ pc' # Asserted /\ pc' # At("start", "FRONT")
        /\ pc'[1] \notin {"check", "read"}
    BY <2>1 DEF Asserted, Idle, At
  <2>3. QED
    BY <1>4, <2>1, <2>2, PromptElsewhere
<1>5. CASE StartMultiple /\ status_multiple # "MEASURING"
  <2>1. /\ pc' = At("start", "FRONT") /\ irq' = irq /\ status_multiple' = "MEASURING"
    BY <1>5 DEF StartMultiple
  <2>2. ~irq
    BY <1>5 DEF Prompt
  <2>3. pc' # Asserted /\ pc'[1] = "start"
    BY <2>1 DEF Asserted, At
  <2>4. QED
    BY <2>1, <2>2, <2>3 DEF Prompt
<1>6. ASSUME NEW s \in Sensors, Exchange(s)
      PROVE  Prompt' /\ pc' # Asserted
  BY <1>6, ExchangePrompt
<1>7. QED
  BY <1>1, <1>2, <1>3, <1>4, <1>5, <1>6 DEF Measure

LEMMA MeasuredPrompt ==
    ASSUME TypeInv, RoundInv, Prompt, NEW s \in Sensors, MeasurementDone(s)
    PROVE  Prompt'
<1>1. /\ sensor[s].busy # "none"
      /\ irq' = (irq \/ (s = "FRONT" /\ ~sensor[s].status))
      /\ UNCHANGED <<pc, status_multiple>>
  BY DEF MeasurementDone
<1>2. sensor \in [Sensors -> Sensor] /\ "FRONT" \in Sensors
  BY DEF TypeInv, Sensors
<1>3. CASE s = "FRONT"
  <2>1. sensor'["FRONT"].status /\ sensor'["FRONT"].busy = "none"
    BY <1>3, MeasurementOutcome
  <2>2. status_multiple = "MEASURING"
    BY <1>1, <1>3 DEF Prompt
  <2>3. pc # At("start", "FRONT")
    BY <1>1, <1>2, <1>3 DEF RoundInv, Quiet
  <2>4. QED
    BY <1>1, <2>1, <2>2, <2>3 DEF Prompt
<1>4. CASE s # "FRONT"
  <2>1. sensor'["FRONT"] = sensor["FRONT"] /\ (irq' <=> irq)
    BY <1>1, <1>2, <1>4, MeasurementOutcome
  <2>2. QED
    BY <1>1, <2>1 DEF Prompt
<1>5. QED
  BY <1>3, <1>4

LEMMA ServedPrompt ==
    ASSUME RoundInv, Prompt, front_measurement_done_isr
    PROVE  Prompt'
<1>1. /\ irq /\ ~irq' /\ status_multiple' = "DONE" /\ UNCHANGED <<pc, sensor>>
  BY DEF front_measurement_done_isr
<1>2. sensor["FRONT"].status /\ pc # At("start", "FRONT")
  BY <1>1 DEF Prompt
<1>3. sensor["FRONT"].busy = "none"
  BY <1>2 DEF RoundInv, Sensors
<1>4. QED
  BY <1>1, <1>2, <1>3 DEF Prompt

-----------------------------------------------------------------------------
(* Measuring: the whole invariant *)
LEMMA MeasuringKeepsBoot ==
    ASSUME AddressInv, ConfigInv, BootInv, pc \in MeasurePcs, pc' \in MeasurePcs,
           UNCHANGED <<device, initialized, irq_enabled>>
    PROVE  AddressInv' /\ ConfigInv' /\ BootInv'
<1>1. /\ pc[1] \notin {"wake", "address", "select", "config", "interrupt"} /\ pc \notin BootPcs
      /\ pc'[1] \notin {"wake", "address", "select", "config", "interrupt"} /\ pc' \notin BootPcs
  BY Places
<1>2. initialized => \A s \in AllSensors : Woken(s)
  BY <1>1 DEF AddressInv
<1>3. AddressInv'
  BY <1>1, <1>2 DEF AddressInv, Woken
<1>4. \A s \in AllSensors : Stage(s) = 22 /\ Stage(s)' = 22
  BY <1>1 DEF Stage
<1>5. ConfigInv'
  BY <1>1, <1>4 DEF ConfigInv
<1>6. BootInv'
  BY <1>1 DEF BootInv
<1>7. QED
  BY <1>3, <1>5, <1>6

LEMMA MeasurePreserves ==
    ASSUME Vl53l0xInv, Measure
    PROVE  Vl53l0xInv'
<1>1. TypeInv /\ PlaceInv /\ CallInv /\ AstrayInv
  BY DEF Vl53l0xInv
<1>2. /\ TypeInv' /\ PlaceInv' /\ CallInv' /\ AstrayInv'
      /\ pc \in MeasurePcs /\ pc' \in MeasurePcs
      /\ initialized \/ (pc = Idle /\ pc' = Asserted)
      /\ faults' = 0 => faults = 0
  BY <1>1, MeasureTypes
<1>3. /\ UNCHANGED <<device, nvm, irq_enabled, initialized, irq>>
      /\ ~garbled' => ~garbled
  BY MeasureFrame DEF bootVars
<1>4. ~garbled' => AddressInv' /\ ConfigInv' /\ BootInv'
  BY <1>2, <1>3, MeasuringKeepsBoot DEF Vl53l0xInv
<1>5. ~garbled' /\ initialized' => RoundInv'
  BY <1>1, <1>3, MeasureRound DEF Vl53l0xInv
<1>6. ASSUME ~Refused', faults' = 0
      PROVE  PromptInv'
  <2>1. faults = 0 /\ PromptInv /\ ~garbled /\ ~garbled'
    BY <1>1, <1>2, <1>3, <1>6 DEF Vl53l0xInv, CallInv, Refused
  <2>2. initialized /\ Prompt /\ pc # Asserted
    BY <1>2, <2>1, PromptIsPart
  <2>3. RoundInv
    BY <2>1, <2>2 DEF Vl53l0xInv
  <2>4. Prompt' /\ pc' # Asserted
    BY <1>1, <1>6, <2>1, <2>2, <2>3, MeasurePrompt
  <2>5. initialized'
    BY <1>3, <2>2
  <2>6. QED
    BY <2>4, <2>5 DEF PromptInv, Prompt, Reading
<1>7. QED
  BY <1>2, <1>4, <1>5, <1>6 DEF Vl53l0xInv

(* The end of a measurement and the interrupt, which come at any time. *)
LEMMA EventPreserves ==
    ASSUME Vl53l0xInv, Served \/ \E s \in Sensors : Measured(s)
    PROVE  Vl53l0xInv'
<1>1. TypeInv /\ PlaceInv /\ CallInv /\ AstrayInv
  BY DEF Vl53l0xInv
<1>2. UNCHANGED <<bootVars, garbled, slave, pc, initialized, latest_ranges, faults, first_call>>
  BY DEF Served, Measured, front_measurement_done_isr, MeasurementDone
<1>3. /\ sensor' \in [Sensors -> Sensor] /\ status_multiple' \in {status_multiple, "DONE"}
      /\ \A t \in Sensors : sensor'[t].astray = sensor[t].astray
  <2>1. CASE Served
    BY <1>1, <2>1 DEF Served, front_measurement_done_isr, TypeInv
  <2>2. ASSUME NEW s \in Sensors, Measured(s)
        PROVE  /\ sensor' \in [Sensors -> Sensor] /\ status_multiple' \in {status_multiple, "DONE"}
               /\ \A t \in Sensors : sensor'[t].astray = sensor[t].astray
    <3>1. MeasurementDone(s) /\ status_multiple' = status_multiple
      BY <2>2 DEF Measured, MeasurementDone
    <3>2. QED
      BY <1>1, <3>1, MeasurementOutcome
  <2>3. QED
    BY <2>1, <2>2
<1>4. TypeInv'
  BY <1>1, <1>2, <1>3 DEF TypeInv, CallType, bootVars, callVars
<1>5. PlaceInv' /\ CallInv'
  BY <1>1, <1>2 DEF PlaceInv, CallInv, bootVars, callVars
<1>6. UNCHANGED <<device, step, garbled, irq_enabled, nvm>>
  BY <1>2 DEF bootVars
<1>7. ASSUME ~garbled
      PROVE  AddressInv' /\ ConfigInv' /\ BootInv' /\ pc \in MeasurePcs
  <2>1. AddressInv /\ ConfigInv /\ BootInv
    BY <1>7 DEF Vl53l0xInv
  <2>2. AddressInv' /\ ConfigInv'
    BY <1>2, <1>6, <2>1, AddressesAlike, ConfigsAlike
  <2>3. pc \notin BootPcs
    <3>1. ASSUME NEW s \in Sensors, Measured(s)
          PROVE  sensor[s].busy # "none"
      BY <3>1 DEF Measured, MeasurementDone
    <3>2. Served => irq /\ irq_enabled
      BY DEF Served, front_measurement_done_isr
    <3>3. QED
      BY <2>1, <3>1, <3>2 DEF BootInv
  <2>4. BootInv'
    BY <1>2, <1>6, <2>1, <2>3 DEF BootInv
  <2>5. QED
    BY <1>1, <2>2, <2>3, <2>4 DEF PlaceInv
<1>8. ASSUME ~garbled, initialized
      PROVE  RoundInv'
  BY <1>1, <1>8, MeasuredRound, ServedRound DEF Vl53l0xInv, Served, Measured
<1>9. ASSUME ~Refused, faults = 0
      PROVE  PromptInv'
  <2>1. ~garbled /\ PromptInv
    BY <1>1, <1>9 DEF Vl53l0xInv, CallInv
  <2>2. initialized /\ Prompt /\ pc # Asserted
    BY <1>7, <2>1, PromptIsPart
  <2>3. RoundInv
    BY <2>1, <2>2 DEF Vl53l0xInv
  <2>4. Prompt'
    BY <1>1, <2>2, <2>3, MeasuredPrompt, ServedPrompt DEF Served, Measured
  <2>5. initialized' /\ pc' # Asserted
    BY <1>2, <2>2
  <2>6. QED
    BY <2>4, <2>5 DEF PromptInv, Prompt, Reading
<1>10. AstrayInv'
  BY <1>1, <1>2, <1>3 DEF AstrayInv
<1>11. QED
  BY <1>2, <1>4, <1>5, <1>6, <1>7, <1>8, <1>9, <1>10 DEF Vl53l0xInv, Refused

-----------------------------------------------------------------------------
(* The invariant *)
LEMMA InitInvariant == Init => Vl53l0xInv
<1> SUFFICES ASSUME Init
             PROVE  Vl53l0xInv
  OBVIOUS
<1> USE DEF Init, InitInit, I2cInit
<1>1. pc[1] = "wake" /\ pc[2] = "FRONT" /\ pc \in BootPcs /\ pc \notin MeasurePcs
  <2>1. pc = At("wake", "FRONT")
    OBVIOUS
  <2>2. pc \in BootPcs
    BY <2>1 DEF BootPcs, At, AllSensors
  <2>3. QED
    BY <2>1, <2>2, Places DEF At
<1>2. \A s \in AllSensors :
          /\ device[s] \in Device /\ ~device[s].awake /\ device[s].addr = VL53L0X_DEFAULT_ADDRESS
          /\ device[s].busy = "none" /\ device[s].done = {}
  BY DEF Device, Registers, Values, VL53L0X_DEFAULT_ADDRESS
<1>3. \A s \in Sensors : /\ sensor[s] \in Sensor /\ sensor[s].busy = "none"
                         /\ ~sensor[s].astray
  BY DEF Sensor, Ages
<1>4. device \in [AllSensors -> Device] /\ sensor \in [Sensors -> Sensor]
  BY <1>2, <1>3
<1>5. CallType
  BY RetriesAssumption DEF CallType
<1>6. TypeInv
  BY <1>4, <1>5 DEF TypeInv, Ages
<1>7. PlaceInv
  BY <1>1 DEF PlaceInv, InitOps
<1>8. CallInv
  BY RetriesAssumption DEF CallInv, PostDecremented
<1>9. AddressInv
  <2>1. \A s \in AllSensors : Asleep(s) /\ ~(Rank[s] < Rank["FRONT"])
    BY <1>2 DEF Asleep, Rank, AllSensors
  <2>2. "FRONT" \in AllSensors
    BY DEF AllSensors
  <2>3. QED
    BY <1>1, <2>1, <2>2 DEF AddressInv
<1>10. ConfigInv
  <2>1. \A s \in AllSensors : Stage(s) = 1
    BY <1>1 DEF Stage
  <2>2. \A s \in AllSensors : Configured(device[s], 1)
    BY <1>2 DEF Configured
  <2>3. QED
    BY <2>1, <2>2 DEF ConfigInv
<1>11. BootInv
  BY <1>1, <1>3 DEF BootInv
<1>12. PromptInv
  <2>1. pc # Asserted
    BY <1>1 DEF Asserted, At
  <2>2. QED
    BY <1>1, <2>1 DEF PromptInv
<1>13. QED
  BY <1>3, <1>6, <1>7, <1>8, <1>9, <1>10, <1>11, <1>12 DEF Vl53l0xInv, AstrayInv

LEMMA StutterPreserves == Vl53l0xInv /\ UNCHANGED vars => Vl53l0xInv'
<1> SUFFICES ASSUME Vl53l0xInv, UNCHANGED vars
             PROVE  Vl53l0xInv'
  OBVIOUS
<1>1. UNCHANGED <<initVars, measureVars>>
  BY DEF vars
<1>2. TypeInv => TypeInv'
  BY <1>1 DEF TypeInv, CallType, initVars, i2cVars, callVars, measureVars
<1>3. PlaceInv => PlaceInv'
  BY <1>1 DEF PlaceInv, initVars, i2cVars, callVars
<1>4. CallInv => CallInv'
  BY <1>1 DEF CallInv, initVars, i2cVars, callVars
<1>5. AddressInv => AddressInv'
  BY <1>1, AddressesAlike DEF initVars
<1>6. ConfigInv => ConfigInv'
  BY <1>1, ConfigsAlike DEF initVars
<1>7. BootInv => BootInv'
  BY <1>1 DEF BootInv, initVars, measureVars
<1>8. RoundInv => RoundInv'
  <2>1. UNCHANGED <<pc, sensor, status_multiple, latest_ranges, first_call>>
    BY <1>1 DEF initVars, measureVars
  <2>2. QED
    BY <2>1 DEF RoundInv, Read1, Quiet
<1>9. PromptInv => PromptInv'
  BY <1>1 DEF PromptInv, initVars, measureVars
<1>10. UNCHANGED <<garbled, initialized, faults, nvm, sensor>>
  BY <1>1 DEF initVars, i2cVars, measureVars
<1>11. QED
  BY <1>2, <1>3, <1>4, <1>5, <1>6, <1>7, <1>8, <1>9, <1>10 DEF Vl53l0xInv, AstrayInv, Refused

LEMMA NextInvariant == Vl53l0xInv /\ [Next]_vars => Vl53l0xInv'
<1> SUFFICES ASSUME Vl53l0xInv, [Next]_vars
             PROVE  Vl53l0xInv'
  OBVIOUS
<1>1. CASE Boot
  BY <1>1, BootPreserves
<1>2. CASE Measure
  BY <1>2, MeasurePreserves
<1>3. CASE Bus /\ UNCHANGED measureVars
  BY <1>3, BusPreserves
<1>4. CASE Served \/ \E s \in Sensors : Measured(s)
  BY <1>4, EventPreserves
<1>5. ASSUME NEW s \in AllSensors, Prepared(s)
      PROVE  Vl53l0xInv'
  BY <1>5, PreparedPreserves
<1>6. CASE Halted \/ BusyWait \/ UNCHANGED vars
  BY <1>6, StutterPreserves DEF Halted, BusyWait
<1>7. QED
  BY <1>1, <1>2, <1>3, <1>4, <1>5, <1>6 DEF Next, Driver

(* Vl53l0xInv holds always: where the driver is in the initialisation says *)
(* which sensors are awake, at which address and how far configured, and   *)
(* where it is in a call says which sensors are done.                      *)
THEOREM Vl53l0xInvariant == Spec => []Vl53l0xInv
BY InitInvariant, NextInvariant, PTL DEF Spec

-----------------------------------------------------------------------------
(* vl53l0x_init: every exchange is answered by the sensor it is about alone, *)
(* whatever the bus does, unless a byte was lost without an error.         *)
THEOREM EachExchangeHasOneSensor == Spec => []OneSensorAnswers
<1>1. Vl53l0xInv => OneSensorAnswers
  BY OneAnswers DEF Vl53l0xInv, OneSensorAnswers
<1>2. QED
  BY <1>1, Vl53l0xInvariant, PTL

(* vl53l0x_init: when it has succeeded all five sensors are configured, and *)
(* the interrupt is enabled.                                               *)
THEOREM InitialisedIsReady == Spec => []ReadyWhenInitialized
<1>1. Vl53l0xInv => ReadyWhenInitialized
  <2> SUFFICES ASSUME Vl53l0xInv, initialized, ~garbled, pc = Idle
               PROVE  /\ irq_enabled
                      /\ \A s \in AllSensors :
                            /\ device[s].addr = vl53l0x_cfgs[s]
                            /\ device[s].busy = "none" /\ "STATUS" \notin device[s].done
                            /\ device[s].regs =
                                   [MODE |-> "2v8", SPADS |-> "selected", TUNING |-> "default",
                                    GPIO |-> "new_sample_ready", SEQUENCE |-> "range"]
    BY DEF ReadyWhenInitialized
  <2>1. AddressInv /\ ConfigInv /\ BootInv /\ TypeInv
    BY DEF Vl53l0xInv
  <2>2. pc[1] = "idle"
    BY DEF Idle, At
  <2>3. irq_enabled
    BY <2>1 DEF BootInv
  <2>4. \A s \in AllSensors : Woken(s) /\ Configured(device[s], 22) /\ device[s] \in Device
    BY <2>1, <2>2 DEF AddressInv, ConfigInv, Stage, TypeInv
  <2>5. ASSUME NEW s \in AllSensors
        PROVE  /\ device[s].addr = vl53l0x_cfgs[s]
               /\ device[s].busy = "none" /\ "STATUS" \notin device[s].done
               /\ device[s].regs =
                      [MODE |-> "2v8", SPADS |-> "selected", TUNING |-> "default",
                       GPIO |-> "new_sample_ready", SEQUENCE |-> "range"]
    <3>1. /\ device[s].addr = vl53l0x_cfgs[s]
          /\ device[s].busy = "none" /\ "STATUS" \notin device[s].done
          /\ device[s].regs["MODE"] = "2v8" /\ device[s].regs["SPADS"] = "selected"
          /\ device[s].regs["TUNING"] = "default" /\ device[s].regs["GPIO"] = "new_sample_ready"
          /\ device[s].regs["SEQUENCE"] = "range"
      BY <2>4 DEF Woken, Configured
    <3>2. device[s].regs \in [Registers -> Values]
      BY <2>4 DEF Device
    <3>3. QED
      BY <3>1, <3>2 DEF Registers
  <2>6. QED
    BY <2>3, <2>5
<1>2. QED
  BY <1>1, Vl53l0xInvariant, PTL

(* vl53l0x_read_range_multiple: values returned as fresh are of one round, *)
(* for any number of faults at any points.                                 *)
THEOREM FreshValuesAreOfOneRound == Spec => []FreshIsOneRound
<1>1. Vl53l0xInv => FreshIsOneRound
  <2> SUFFICES ASSUME Vl53l0xInv, pc = At("start", "NONE"), ~first_call, ~garbled
               PROVE  \A s \in Sensors : latest_ranges[s] = "current"
    BY DEF FreshIsOneRound
  <2>1. initialized
    <3>1. pc \in MeasurePcs /\ pc # Idle /\ pc # Asserted
      BY DEF MeasurePcs, Idle, Asserted, At
    <3>2. PlaceInv
      BY DEF Vl53l0xInv
    <3>3. QED
      BY <3>1, <3>2 DEF PlaceInv
  <2>2. RoundInv
    BY <2>1 DEF Vl53l0xInv
  <2>3. \A s \in Sensors : Read1(s)
    BY <2>2 DEF RoundInv
  <2>4. QED
    BY <2>3 DEF Read1
<1>2. QED
  BY <1>1, Vl53l0xInvariant, PTL

(* The ASSERTs of vl53l0x_read_range_multiple: none fails, unless the bus  *)
(* has had a fault or a sensor's SPADs could not be enabled.               *)
THEOREM NoAssertWithoutFault == Spec => []AssertsOnlyAfterFault
<1>1. Vl53l0xInv => AssertsOnlyAfterFault
  <2>1. Vl53l0xInv => faults \in Nat
    BY DEF Vl53l0xInv, TypeInv, CallType
  <2>2. Vl53l0xInv /\ faults = 0 /\ ~Refused => pc # Asserted
    BY DEF Vl53l0xInv, PromptInv
  <2>3. QED
    BY <2>1, <2>2 DEF AssertsOnlyAfterFault
<1>2. QED
  BY <1>1, Vl53l0xInvariant, PTL

-----------------------------------------------------------------------------
(* The SPADs. What the loop enables is a function defined by recursion;    *)
(* that it exists, and what it yields, are shown by induction, here in the *)
(* form of a least element that does not belong to a set.                  *)
LEMMA LeastElement ==
    ASSUME NEW T \in SUBSET Nat, T # {}
    PROVE  \E x \in T : \A y \in T : x <= y
<1>1. PICK top \in T : TRUE
  OBVIOUS
<1>. DEFINE S == 0 .. top
            U == {0 .. x : x \in T \cap S}
<1>2. IsFiniteSet(S)
  BY FS_Interval
<1>3. IsWellFoundedOn(StrictSubsetOrdering(S), FiniteSubsetsOf(S))
  BY FS_StrictSubsetOrderingWellFounded
<1>4. U \subseteq FiniteSubsetsOf(S)
  <2>1. SUFFICES ASSUME NEW x \in T \cap S
                 PROVE  0 .. x \in FiniteSubsetsOf(S)
    OBVIOUS
  <2>2. 0 .. x \subseteq S
    OBVIOUS
  <2>3. QED
    BY <1>2, <2>2, FS_Subset DEF FiniteSubsetsOf
<1>5. U # {}
  <2>1. 0 .. top \in U
    BY <1>1
  <2>2. QED
    BY <2>1
<1>6. PICK u \in U : \A v \in U : ~ (<<v, u>> \in StrictSubsetOrdering(S))
  <2>. HIDE DEF U
  <2>. QED
    BY <1>3, <1>4, <1>5, WFMin
<1>7. PICK x \in T \cap S : u = 0 .. x
  OBVIOUS
<1>8. ASSUME NEW y \in T, y < x
      PROVE  FALSE
  <2>1. y \in T \cap S
    BY <1>8
  <2>2. 0 .. y \in U
    BY <2>1
  <2>3. 0 .. y \subseteq 0 .. x /\ 0 .. y # 0 .. x
    BY <1>8
  <2>4. <<0 .. y, 0 .. x>> \in StrictSubsetOrdering(S)
    BY <1>4, <1>7, <2>2, <2>3 DEF StrictSubsetOrdering, FiniteSubsetsOf
  <2>5. QED
    BY <1>6, <1>7, <2>2, <2>4
<1>9. ASSUME NEW y \in T
      PROVE  x <= y
  <2>1. x \in Nat /\ y \in Nat /\ ~(y < x)
    BY <1>8
  <2>2. QED
    BY <2>1
<1>10. QED
  BY <1>9, Zenon

LEMMA UpTo ==
    ASSUME NEW last \in Nat, NEW S,
           0 \in S, \A k \in 0 .. last : k + 1 \in 0 .. last /\ k \in S => k + 1 \in S
    PROVE  0 .. last \subseteq S
<1>. DEFINE T == (0 .. last) \ S
<1>1. SUFFICES ASSUME T # {}
               PROVE  FALSE
  OBVIOUS
<1>2. PICK k \in T : \A j \in T : k <= j
  <2>1. T \in SUBSET Nat
    OBVIOUS
  <2>. HIDE DEF T
  <2>. QED
    BY <1>1, <2>1, LeastElement
<1>3. k \in 1 .. last
  BY <1>2
<1>4. k - 1 \in 0 .. last /\ k - 1 \in S
  BY <1>2, <1>3
<1>5. k - 1 + 1 = k
  BY <1>3
<1>6. QED
  BY <1>2, <1>3, <1>4, <1>5

Bits == 0 .. SPAD_MAX_COUNT - 1

LEMMA BitsFromZero == SPAD_MAX_COUNT - 1 \in Nat /\ 0 \in Bits /\ SPAD_MAX_COUNT - 1 \in Bits
BY SpadsAssumption DEF Bits

Loop(n, f, k) == f[0] = {} /\ \A i \in 1 .. k : f[i] = WithBit(n, i - 1, f[i - 1])

LEMMA LoopRuns ==
    ASSUME NEW n
    PROVE  \E f : Loop(n, f, SPAD_MAX_COUNT - 1)
<1>. DEFINE S == {k \in Bits : \E f : Loop(n, f, k)}
<1>1. 0 \in S
  <2>1. Loop(n, [i \in {0} |-> {}], 0)
    BY DEF Loop
  <2>2. QED
    BY <2>1, BitsFromZero
<1>2. ASSUME NEW k \in Bits, k + 1 \in Bits, k \in S
      PROVE  k + 1 \in S
  <2>1. PICK f : Loop(n, f, k)
    BY <1>2
  <2>2. k \in Nat
    BY DEF Bits
  <2>. DEFINE g == [i \in 0 .. k + 1 |-> IF i = k + 1 THEN WithBit(n, k, f[k]) ELSE f[i]]
  <2>3. g[0] = {}
    BY <2>1, <2>2 DEF Loop
  <2>4. ASSUME NEW i \in 1 .. k + 1
        PROVE  g[i] = WithBit(n, i - 1, g[i - 1])
    <3>1. g[i - 1] = f[i - 1]
      BY <2>2
    <3>2. CASE i = k + 1
      <4>1. i - 1 = k
        BY <2>2, <3>2
      <4>2. QED
        BY <2>2, <3>1, <3>2, <4>1
    <3>3. CASE i # k + 1
      <4>1. g[i] = f[i] /\ i \in 1 .. k
        BY <2>2, <3>3
      <4>2. QED
        BY <2>1, <3>1, <4>1 DEF Loop
    <3>4. QED
      BY <3>2, <3>3
  <2>5. Loop(n, g, k + 1)
    BY <2>3, <2>4 DEF Loop
  <2>6. QED
    BY <1>2, <2>5
<1>3. Bits \subseteq S
  <2>. HIDE DEF S
  <2>. QED
    BY <1>1, <1>2, BitsFromZero, UpTo DEF Bits
<1>4. QED
  BY <1>3, BitsFromZero

LEMMA EnabledIsLoop ==
    ASSUME NEW n
    PROVE  /\ EnabledBefore(n)[0] = {}
           /\ \A k \in Bits : k + 1 \in Bits =>
                  EnabledBefore(n)[k + 1] = WithBit(n, k, EnabledBefore(n)[k])
<1>1. PICK f : Loop(n, f, SPAD_MAX_COUNT - 1)
  BY LoopRuns
<1>. DEFINE g == [i \in 0 .. SPAD_MAX_COUNT - 1 |-> f[i]]
<1>2. g = [i \in 0 .. SPAD_MAX_COUNT - 1 |-> IF i = 0 THEN {} ELSE WithBit(n, i - 1, g[i - 1])]
  <2>1. ASSUME NEW i \in 0 .. SPAD_MAX_COUNT - 1
        PROVE  g[i] = IF i = 0 THEN {} ELSE WithBit(n, i - 1, g[i - 1])
    <3>1. CASE i = 0
      BY <1>1, <3>1 DEF Loop
    <3>2. CASE i # 0
      <4>1. i \in 1 .. SPAD_MAX_COUNT - 1 /\ i - 1 \in 0 .. SPAD_MAX_COUNT - 1
        BY <3>2, BitsFromZero
      <4>2. g[i] = f[i] /\ g[i - 1] = f[i - 1]
        BY <4>1
      <4>3. f[i] = WithBit(n, i - 1, f[i - 1])
        BY <1>1, <4>1 DEF Loop
      <4>4. QED
        BY <3>2, <4>2, <4>3
    <3>3. QED
      BY <3>1, <3>2
  <2>2. QED
    BY <2>1
<1>. HIDE DEF g
<1>3. \E e : e = [i \in 0 .. SPAD_MAX_COUNT - 1 |->
                     IF i = 0 THEN {} ELSE WithBit(n, i - 1, e[i - 1])]
  BY <1>2
<1>4. EnabledBefore(n) = [i \in 0 .. SPAD_MAX_COUNT - 1 |->
                              IF i = 0 THEN {} ELSE WithBit(n, i - 1, EnabledBefore(n)[i - 1])]
  BY <1>3, Zenon DEF EnabledBefore
<1>5. \A i \in Bits : EnabledBefore(n)[i] =
                          IF i = 0 THEN {} ELSE WithBit(n, i - 1, EnabledBefore(n)[i - 1])
  BY <1>4, Zenon DEF Bits
<1>6. ASSUME NEW k \in Bits, k + 1 \in Bits
      PROVE  EnabledBefore(n)[k + 1] = WithBit(n, k, EnabledBefore(n)[k])
  <2>1. k + 1 # 0 /\ (k + 1) - 1 = k
    BY BitsFromZero DEF Bits
  <2>2. QED
    BY <1>5, <1>6, <2>1
<1>7. EnabledBefore(n)[0] = {}
  BY <1>5, BitsFromZero
<1>8. QED
  BY <1>6, <1>7

(* The good SPADs that the loop has met before the bit k.                   *)
Met(n, k) == {i \in n.good : Offset(n) <= i /\ i < k}

Progressed(n, k, enabled) ==
    /\ enabled \subseteq Met(n, k)
    /\ Cardinality(enabled) <= n.count
    /\ Cardinality(enabled) # n.count => enabled = Met(n, k)
    /\ Enough(n) => \A i \in enabled : OfItsType(n, i)

LEMMA MetIsFinite ==
    ASSUME NEW n \in Nvm \cup Garbage, NEW k \in Nat
    PROVE  /\ IsFiniteSet(Met(n, k)) /\ Cardinality(Met(n, k)) \in Nat
           /\ \A e \in SUBSET Met(n, k) : IsFiniteSet(e) /\ Cardinality(e) \in Nat
           /\ \A e \in SUBSET Met(n, k) : Cardinality(e) <= Cardinality(Met(n, k))
<1>1. IsFiniteSet(0 .. k)
  BY FS_Interval
<1>2. Met(n, k) \subseteq 0 .. k
  BY SpadsAssumption DEF Met
<1>3. IsFiniteSet(Met(n, k))
  BY <1>1, <1>2, FS_Subset
<1>4. QED
  BY <1>3, FS_Subset, FS_CardinalityType

(* Where the aperture SPADs begin, the others have all been met.            *)
LEMMA EnoughIsMet ==
    ASSUME NEW n \in Nvm \cup Garbage, NEW k \in Nat,
           Enough(n), ~n.aperture, k >= SPAD_APERTURE_START_INDEX
    PROVE  n.count <= Cardinality(Met(n, k))
<1>. DEFINE its == {i \in n.good : i < SPAD_MAX_COUNT /\ OfItsType(n, i)}
<1>1. its \subseteq Met(n, k)
  BY SpadsAssumption DEF OfItsType, Met, Offset
<1>2. Cardinality(its) \in Nat /\ Cardinality(its) <= Cardinality(Met(n, k))
  <2>1. its \in SUBSET Met(n, k)
    BY <1>1
  <2>. HIDE DEF its
  <2>2. QED
    BY <2>1, MetIsFinite
<1>3. n.count <= Cardinality(its) /\ n.count \in Nat
  BY SpadsAssumption DEF Enough
<1>4. Cardinality(Met(n, k)) \in Nat
  BY MetIsFinite
<1>. HIDE DEF its
<1>5. QED
  BY <1>2, <1>3, <1>4

LEMMA BitProgresses ==
    ASSUME NEW n \in Nvm \cup Garbage, NEW k \in Nat, NEW e, Progressed(n, k, e)
    PROVE  Progressed(n, k + 1, WithBit(n, k, e))
<1>. DEFINE d == WithBit(n, k, e)
<1>1. e \in SUBSET Met(n, k) /\ IsFiniteSet(e) /\ Cardinality(e) \in Nat /\ n.count \in Nat
  BY MetIsFinite, SpadsAssumption DEF Progressed
<1>2. Met(n, k + 1) = Met(n, k) \cup (IF k >= Offset(n) /\ k \in n.good THEN {k} ELSE {})
  BY SpadsAssumption DEF Met, Offset
<1>3. CASE Cardinality(e) # n.count /\ k >= Offset(n) /\ k \in n.good
  <2>1. d = e \cup {k} /\ e = Met(n, k)
    BY <1>3 DEF WithBit, Progressed
  <2>2. k \notin e
    BY <2>1 DEF Met
  <2>3. Cardinality(d) = Cardinality(e) + 1
    <3>1. Cardinality(e \cup {k}) = Cardinality(e) + 1
      BY <1>1, <2>2, FS_AddElement, Zenon
    <3>2. QED
      BY <2>1, <3>1
  <2>4. Cardinality(d) <= n.count
    BY <1>1, <1>3, <2>3 DEF Progressed
  <2>5. d = Met(n, k + 1)
    BY <1>2, <1>3, <2>1
  <2>6. Enough(n) => OfItsType(n, k)
    <3>1. CASE n.aperture
      BY <1>3, <3>1 DEF Offset, OfItsType
    <3>2. CASE ~n.aperture
      <4>1. SUFFICES ASSUME Enough(n), k >= SPAD_APERTURE_START_INDEX
                     PROVE  FALSE
        BY <3>2 DEF OfItsType
      <4>2. n.count <= Cardinality(e)
        BY <2>1, <3>2, <4>1, EnoughIsMet
      <4>3. QED
        BY <1>1, <2>3, <2>4, <4>2
    <3>3. QED
      BY <3>1, <3>2
  <2>7. QED
    BY <2>1, <2>4, <2>5, <2>6 DEF Progressed
<1>4. CASE ~ (Cardinality(e) # n.count /\ k >= Offset(n) /\ k \in n.good)
  <2>1. d = e
    BY <1>4 DEF WithBit
  <2>2. Cardinality(e) # n.count => e = Met(n, k + 1)
    BY <1>2, <1>4 DEF Progressed
  <2>3. QED
    BY <1>2, <2>1, <2>2 DEF Progressed
<1>5. QED
  BY <1>3, <1>4

LEMMA LoopProgresses ==
    ASSUME NEW n \in Nvm \cup Garbage
    PROVE  \A k \in Bits : Progressed(n, k, EnabledBefore(n)[k])
<1>. DEFINE S == {k \in Bits : Progressed(n, k, EnabledBefore(n)[k])}
<1>1. 0 \in S
  <2>1. Met(n, 0) = {}
    BY SpadsAssumption DEF Met
  <2>2. Cardinality({}) = 0
    BY FS_EmptySet
  <2>3. Progressed(n, 0, {})
    BY <2>1, <2>2, SpadsAssumption DEF Progressed
  <2>4. QED
    BY <2>3, BitsFromZero, EnabledIsLoop
<1>2. ASSUME NEW k \in Bits, k + 1 \in Bits, k \in S
      PROVE  k + 1 \in S
  <2>1. k \in Nat
    BY DEF Bits
  <2>2. EnabledBefore(n)[k + 1] = WithBit(n, k, EnabledBefore(n)[k])
    BY <1>2, EnabledIsLoop
  <2>3. QED
    BY <1>2, <2>1, <2>2, BitProgresses
<1>3. Bits \subseteq S
  <2>. HIDE DEF S
  <2>. QED
    BY <1>1, <1>2, BitsFromZero, UpTo DEF Bits
<1>4. QED
  BY <1>3

(* vl53l0x_set_spads_from_nvm, whatever number, type and map it has read: it *)
(* succeeds exactly if there are enough good SPADs from the offset of the  *)
(* type on and before the last bit; it then enables that many good SPADs,  *)
(* and none of the other type if those of the right type are enough.       *)
THEOREM LoopSelectsSpads ==
    ASSUME NEW n \in Nvm \cup Garbage
    PROVE  /\ SpadMap(n).ok <=> n.count <= Cardinality(Met(n, SPAD_MAX_COUNT - 1))
           /\ SpadMap(n).ok => Cardinality(SpadMap(n).map) = n.count
           /\ SpadMap(n).map \subseteq n.good
           /\ Enough(n) => \A i \in SpadMap(n).map : OfItsType(n, i)
<1>. DEFINE k == SPAD_MAX_COUNT - 1
            e == EnabledBefore(n)[k]
<1>1. Progressed(n, k, e) /\ k \in Nat
  BY LoopProgresses, BitsFromZero
<1>2. e \subseteq n.good
  BY <1>1 DEF Progressed, Met
<1>3. Cardinality(e) = n.count <=> n.count <= Cardinality(Met(n, k))
  <2>1. e \in SUBSET Met(n, k)
    BY <1>1 DEF Progressed
  <2>2. Cardinality(e) \in Nat /\ Cardinality(Met(n, k)) \in Nat /\ n.count \in Nat
    BY <1>1, <2>1, MetIsFinite, SpadsAssumption
  <2>3. CASE Cardinality(e) = n.count
    <3>1. Cardinality(e) <= Cardinality(Met(n, k))
      BY <1>1, <2>1, MetIsFinite
    <3>2. QED
      BY <2>3, <3>1
  <2>4. CASE Cardinality(e) # n.count
    <3>1. e = Met(n, k) /\ Cardinality(e) <= n.count
      BY <1>1, <2>4 DEF Progressed
    <3>2. QED
      BY <2>2, <2>4, <3>1
  <2>5. QED
    BY <2>3, <2>4
<1>4. Enough(n) => \A i \in e : OfItsType(n, i)
  BY <1>1 DEF Progressed
<1>5. SpadMap(n).ok = (Cardinality(e) = n.count) /\ SpadMap(n).map = e
  BY DEF SpadMap
<1>6. QED
  BY <1>2, <1>3, <1>4, <1>5

(* During the initialisation spads are those of the last reading.           *)
SpadsInv ==
    pc \in BootPcs => \A n \in nvm :
        n \in Nvm \cup Garbage /\ SpadMap(n).ok /\ spads = SpadMap(n).map

LEMMA SpadsAlike ==
    ASSUME SpadsInv, UNCHANGED <<nvm, spads>>, pc' \in BootPcs => pc \in BootPcs
    PROVE  SpadsInv'
BY DEF SpadsInv

LEMMA SpadsStep == Vl53l0xInv /\ SpadsInv /\ [Next]_vars => SpadsInv'
<1>. SUFFICES ASSUME Vl53l0xInv, SpadsInv, [Next]_vars
              PROVE  SpadsInv'
  OBVIOUS
<1>1. PlaceInv /\ PlaceInv'
  BY NextInvariant DEF Vl53l0xInv
<1>2. CASE Boot
  <2>1. vl53l0x_init /\ pc \in BootPcs
    <3>1. vl53l0x_init
      BY <1>2 DEF Boot
    <3>2. pc[1] \in {"wake", "select", "interrupt", "finish"} \/ pc[1] \in InitOps
      <4>1. CASE phase = "idle"
        BY <3>1, <4>1 DEF vl53l0x_init, Wake, Select, Transfer, Transferring, Poll, WaitEnds, Waits,
                          TransferFailed, WriteDone, PollDone, ReadDone, Returned,
                          vl53l0x_configure_front_sensor_interrupt, Finish
      <4>2. QED
        BY <1>1, <4>1 DEF PlaceInv
    <3>3. QED
      BY <1>1, <3>1, <3>2, Places DEF PlaceInv, InitOps
  <2>2. CASE ReadDone
    <3>1. CASE Current.reg = "SPADS"
      <4>1. PICK n \in Nvm \cup Garbage : /\ nvm' = {n} /\ spads' = SpadMap(n).map
                                          /\ SpadMap(n).ok \/ Fails
        BY <2>2, <3>1 DEF ReadDone
      <4>2. CASE SpadMap(n).ok
        BY <4>1, <4>2 DEF SpadsInv
      <4>3. CASE Fails
        BY <4>3, Places DEF Fails, SpadsInv, Idle, MeasurePcs
      <4>4. QED
        BY <4>1, <4>2, <4>3
    <3>2. CASE Current.reg # "SPADS"
      BY <2>1, <2>2, <3>2, SpadsAlike DEF ReadDone
    <3>3. QED
      BY <3>1, <3>2
  <2>3. CASE WriteDone
    BY <2>3 DEF WriteDone, SpadsInv
  <2>4. CASE ~ReadDone /\ ~WriteDone
    <3>1. UNCHANGED <<nvm, spads>>
      BY <2>1, <2>4 DEF vl53l0x_init, Wake, Select, Transfer, Transferring, TransferFailed, PollDone,
                        vl53l0x_configure_front_sensor_interrupt, Finish
    <3>2. QED
      BY <2>1, <3>1, SpadsAlike
  <2>5. QED
    BY <2>2, <2>3, <2>4
<1>3. CASE Measure
  BY <1>3, MeasurePlaces, Places DEF SpadsInv
<1>4. CASE Bus \/ Served \/ (\E s \in Sensors : Measured(s)) \/ \E s \in AllSensors : Prepared(s)
  <2>1. UNCHANGED <<nvm, spads, pc>>
    BY <1>4 DEF Bus, Served, front_measurement_done_isr, Measured, MeasurementDone, Prepared, SensorDone, bootVars
  <2>2. QED
    BY <2>1, SpadsAlike
<1>5. CASE Halted \/ BusyWait \/ UNCHANGED vars
  <2>1. UNCHANGED <<nvm, spads, pc>>
    BY <1>5 DEF Halted, BusyWait, vars, initVars
  <2>2. QED
    BY <2>1, SpadsAlike
<1>6. QED
  BY <1>2, <1>3, <1>4, <1>5 DEF Next, Driver

(* SpadsOfOneType, for any calibration and any number of faults: no sensor *)
(* is configured further with too few or with bad SPADs, nor with SPADs of *)
(* both types where one type would do.                                     *)
THEOREM SpadsAreOfOneType == Spec => []SpadsOfOneType
<1>1. Init => SpadsInv
  BY DEF Init, InitInit, SpadsInv
<1>2. Vl53l0xInv /\ SpadsInv => SpadsOfOneType
  <2>1. SUFFICES ASSUME Vl53l0xInv, SpadsInv, pc[1] = "config", NEW n \in nvm
                 PROVE  /\ Cardinality(spads) = n.count
                        /\ spads \subseteq n.good
                        /\ Enough(n) => \A i \in spads : OfItsType(n, i)
    BY DEF SpadsOfOneType
  <2>2. pc \in BootPcs
    BY <2>1, Places DEF Vl53l0xInv, PlaceInv
  <2>3. n \in Nvm \cup Garbage /\ SpadMap(n).ok /\ spads = SpadMap(n).map
    BY <2>1, <2>2 DEF SpadsInv
  <2>4. QED
    BY <2>3, LoopSelectsSpads
<1>3. QED
  BY <1>1, <1>2, SpadsStep, Vl53l0xInvariant, PTL DEF Spec

=============================================================================
