# nsumo_video: specification of the robot's software

TLA+ modules, TLC runs and TLAPS proofs for the software of a mini sumo robot
(`src/src`, C for an MSP430). The robot waits for a start command, looks for the
opponent with three range sensors, pushes it, and backs off from the white line
at the border of the ring that four sensors under its corners see. A user can
take over with an IR remote. `PROJECT.json` says which lines of the code each
definition stands for.

## 1. Inventory

The program is one endless loop and six interrupts (watchdog, converter, UART,
the timer of the IR decoder, and the two ports, of which port 2 serves both the IR
receiver and the front range sensor). There is no operating
system, nothing is stored over a reset, and there is no heap.

| Part | State it keeps | Operations | Interacts with |
|---|---|---|---|
| State machine (`app/state_machine.c`, `state_*.c`) | current state, pending internal event, timer, sampled inputs, search/attack/retreat sub-state and move index | one iteration: `process_input` chooses one event, `process_event` looks up a table of 24 transitions and runs the handler | samples every input below; calls `drive_set`, `drive_stop`; asks the timer |
| Enemy and line detection (`enemy.c`, `line.c`) | none (an `initialized` flag) | `enemy_get`, `line_get`, predicates | read the range sensors, the ADC cache |
| Input history (`input_history.c`) | ring buffer of six inputs | save, last directed enemy | `ring_buffer.c` |
| Ring buffer (`common/ring_buffer.c`) | slots, head, tail, full | put, get, peeks, count | input history, IR remote, UART |
| Timer, millisecond counter (`timer.c`, `millis.c`) | deadline; 32-bit counter | start, clear, timeout; `millis` | watchdog interrupt |
| Range sensors (`vl53l0x.c`) | status of the round, cached ranges; addresses and settings of five sensors | `vl53l0x_init`, `vl53l0x_read_range_multiple` | I2C, interrupt of the front sensor through port 2 |
| I2C (`i2c.c`) | registers of the peripheral | `i2c_write`, `i2c_read`, each a sequence of polling waits | range sensors |
| IR remote (`ir_remote.c`) | pulse count, milliseconds since the last pulse, message under reception, command buffer | `isr_pulse`, timer interrupt, `ir_remote_get_cmd` | port 2 interrupt, main loop |
| Pins (`io.c`) | interrupt functions per pin | `isr_port_2`, enable/disable | front range sensor and IR receiver share port 2 |
| Motors (`drive.c`, `tb6612fng.c`, `pwm.c`) | mode pins, PWM registers and the driver's copies of their states | `drive_set`, `drive_stop`, `assert_stop_motors` | state machine, assert handler |
| UART and trace (`uart.c`, `trace.c`) | transmit buffer, registers of the peripheral | `_putchar`, transmit interrupt, polling report of an ASSERT | ring buffer, assert handler |
| ADC and line sensors (`adc.c`, `qre1113.c`) | block of samples, cache of it | conversion interrupt, `adc_get_channel_values` | line detection |
| Assert handler | none | stops the motors, reports over the UART, blinks for ever; `ASSERT_INTERRUPT` spins | everything |

What is hard to get right and hard to test here:

- *Which event an iteration takes.* Up to five things happen at once and one
  wins; the losers are lost (LINE, ENEMY), kept (the internal event) or seen
  again later (an elapsed timer). What a handler finds depends on what earlier
  iterations left in the timer, the internal event and the sub-states.
- *ASSERTs.* A failed one ends the match. The table and six nested switches
  must agree on which (state, event) pairs occur.
- *Interrupts between statements*: `millis` reads two words, a cache of samples
  is read while it is rewritten, the command buffer is emptied while port 2 fills
  it, the UART's buffer is filled while its interrupt empties it, and one function
  masks what another relies on.
- *Hardware that takes its own time*: sensors finish in any order, a pulse comes
  while the millisecond interrupt is pending, a byte leaves TXBUF before or after
  the next one is written.
- *A bus that fails or stalls* half-way through the initialisation of the sensors
  or a round of measurements, and waits that count their retries down.
- *Indices and counters that wrap around.*

The correctness conditions are, per part: no ASSERT but those known to be
reachable, something always ends what the robot does, the motors do what the
state asks for, no movement before the start, the remote overrules the sensors,
a reaction to a line leads away from it (state machine); left and right are
treated alike (detection); a FIFO that drops its oldest (ring buffer); the last
side is remembered (history); neither early nor late (timer); no torn read, no
lost tick (counter); samples of one round, conversions that never stop (ADC);
one sensor answers, all are ready or the failure is known, the initialisation
ends, values of one round, never stuck (range sensors); what is pressed is what is
put, after any broken frame (IR decoder), and no command lost, doubled or
reordered (IR buffer); everything sent once and in order, the loop never blocked,
a failed ASSERT reported (UART); wheels turn as asked and not the wrong way in
between (motors). `hazards` in `PROJECT.json` lists, line by line, what threatens
them.

## 2. Modules

| Module | Stands for | Uses |
|---|---|---|
| `StateMachine` | main loop, transition table, five state handlers | `Enemy`, `Line`, `InputHistory` |
| `Strategy` | abstract: what the robot promises to do, without events, timers, priorities | |
| `StateMachineRefinement` | the mapping from `StateMachine` to `Strategy` | both |
| `StateMachineProofs` | theorems about `StateMachine` and its refinement of `Strategy` | both |
| `Enemy`, `Line` | the two decision trees, as operators | |
| `Sensing` | both trees over measured values, and their symmetry | `Enemy`, `Line` |
| `Perception` | the sampling half of an iteration: measure, decide, save | `Sensing`, `HistoryBuffer` |
| `PerceptionProofs` | theorems about the trees and the history | `Perception`, `RingBufferProofs` |
| `InputHistory` | the history as a bounded sequence | `Enemy`, `Line` |
| `RingBuffer`, `RingBufferProofs` | the ring buffer, slot by slot, and lemmas on its contents | |
| `Fifo` | abstract: a queue that drops its oldest element | |
| `HistoryBuffer` | the history on top of the ring buffer | `RingBuffer`, `InputHistory` |
| `Timer`, `TimerProofs` | deadlines over a counter of finite width, and theorems | |
| `Millis` | the counter as two words, its interrupt and the masked read | |
| `Adc` | conversion rounds, the interrupt that copies them, the call that reads the copy | |
| `Interrupts` | the two on one processor, each keeping interrupts off | `Millis`, `Adc` |
| `InterruptsProofs` | theorems about what the two functions read | `Interrupts` |
| `I2c` | a transfer, phase by phase and look by look, on a bus that may stall | |
| `Vl53l0xInit` | addresses, settings and calibration of five sensors over `I2c` | `I2c` |
| `Vl53l0x` | the initialisation followed by rounds of measurements | `Vl53l0xInit` |
| `Vl53l0xProofs` | theorems about the initialisation and the rounds | `Vl53l0x` |
| `IrRemote` | the decoder of pulses, against a remote | |
| `IrPort2` | the command buffer between `isr_port_2` and the main loop | `RingBuffer` |
| `Uart` | trace, transmit interrupt and the report of an ASSERT | `RingBuffer` |
| `SerialProofs` | theorems about `Uart`, `IrPort2` and `IrRemote` | those and `RingBufferProofs` |
| `Drive`, `DriveProofs` | motors, pin by pin and channel by channel, and theorems | |
| `MC*` | values of the constants for TLC | |

### How state and actions correspond to the code

**StateMachine.** Each variable is a field of `struct state_machine_data` or of
the state data nested in it (the declarations name the field). One iteration is
`ProcessInput` followed by one of `EnterWait`, `EnterSearch`, `EnterAttack`,
`RetreatRun`, `RetreatNextMove`, `RetreatIgnore`, `EnterManual` (the handlers,
with `state_enter`'s clearing of the timer) or `NoTransition` (the ASSERT at the
end of `process_event`). Sampled inputs are chosen freely in every iteration.
`pc = "halted"` is `assert_handler`: the motors are stopped and nothing more
happens. `drive` is what `drive_set`/`drive_stop` were last given. The timer is
abstract here: a started timer may elapse at any moment (`TimerElapses`), which
includes the moment between an iteration's choice and its handler; `Timer` has
the arithmetic. `next_retreat_state` is given the drive direction that the code
really looks at, which is that of the first move of the *previous* retreat.

**RingBuffer, HistoryBuffer.** Operations are atomic. The history has no
interrupt near it, the UART disables its own around a put, and the IR remote,
where an interrupt does come between the statements of a get, has `IrPort2`.
`ring_buffer_count` is modelled as coded: it is off by one in a branch that the
history never reaches.

**Timer.** Time is counted in ticks of the watchdog, half a millisecond.

**Millis, Adc, Interrupts.** `millis()` and `adc_get_channel_values` are split
into their instructions, `isr_adc10` into its copies. `Interrupts` puts them on
one processor: the main program calls one function or the other, an interrupt
runs to its end before anything else, `GIE` holds off both interrupts and `WDTIE`
one of them. A sample is its channel and the round it was taken in.

**I2c.** A call goes through the phases start, tx, restart, rx, stop and last.
`BusReady` is the peripheral setting the flag a phase waits for; `Poll` is a look
that finds it clear and `WaitEnds` leaves the phase, with the flag or with the
retries used up. Both ways of counting down are there: `--retries` in the waits
for a start or stop condition and `retries--`, which leaves 65535 for 0, in the
others. `lost` remembers that a wait gave up without an error, so that the byte it
waited for was overwritten or read before it came. The bus may stall at any flag
and may come back; a slave may fail to acknowledge.

**Vl53l0xInit.** `Program` is the list of exchanges of `vl53l0x_init_address` and
`vl53l0x_init_config`; `pc` and `step` say where the driver is. A write reaches
every sensor that is awake and has the address in `slave`. Runs of writes that set
registers of one kind (the tuning settings, the bank switches around the reading
of the memory) are one exchange. `SpadMap` is what the loop over the SPAD map leaves,
a recursive function of the bit. What is read from a sensor is one of `Nvm`; once a byte
was lost it is one of `Garbage`, any number, type and map. `garbled` remembers that
a call returned success with a byte lost.

**Vl53l0x.** Once the initialisation is over, one step is what one function does with one
sensor. Each of its exchanges works, reports an error, or loses a byte and is reported as a
success, while `faults` stays within `MaxFaults`:

- a check (`IsSysrangeDone`) that loses a byte says either;
- of a reading (`ReadRange`) any set of exchanges may lose a byte: the last poll, so that the
  range may be read before it is there; the range itself, which is then whatever RXBUF held
  (`"garbage"`); one clearing of the status, which the other makes up for, or both, which
  leaves the status set. A range read too early, a lost one and a status left set also set
  `garbled`, as nothing in the driver can tell them from a success;
- a start (`StartSysrange`) that loses a byte, or fails, may have started the sensor or not,
  or have left it `astray`, in the other bank of registers that the start switches to and
  back from: a sensor that is astray answers anything until it is started again, and the
  driver may poll it for ever for having taken the start (`Stuck`).

A range is abstracted to the age of the round it belongs to.

**IrRemote.** The remote sends a message (34 edges) and repetitions of it (2
edges) with the durations of the NEC protocol, counted in sixteenths of a
millisecond; any of a few sets of edges of each frame is received. Time jumps to
the next event. `isr_pulse` and `isr_timer_a0` run within `LATENCY` of their
flags, the timer's first when both wait. `isr_pulse` includes the clearing of the
pin's flag by `io_isr`. A byte is a function from its bits; of the message only the
lower 16 bits are kept, which hold the command. The count of pulses is 16 bits wide.

**IrPort2.** One step of `ir_remote_get_cmd` is one statement that touches the
buffer, with interrupts between any two; `isr_pulse` puts with the operation of
`RingBuffer`, as no interrupt divides an interrupt. A pulse either completes a command or
not, which is what `IrRemote` decides.

**Uart.** TXBUF and the shift register hold a byte each; `TxbufToShift` and
`ShiftedOut` are the peripheral's. The interrupt's three statements are steps of
their own because the peripheral works meanwhile, and `_putchar` has a step per
statement. The report of a failed ASSERT takes over from any point between two
calls of `_putchar`.

**Drive.** `drive_set` expands into the pin writes of `tb6612fng_set_mode` and a
`pwm_set_duty_cycle` for both wheels, executed one by one. A `pwm_set_duty_cycle` is one
step although it writes up to three registers (duty cycle, output mode, timer): only one
of these writes changes what the wheel does.

## 3. Runs

| Run | Question | Constants and bounds |
|---|---|---|
| `state_machine` | Safety of the main loop, and that it implements `Strategy` | all 11 lines; an enemy for each answer of the four predicates; commands NONE, a movement, a number, an unknown one; history of one entry |
| `state_machine_live` | Retreats end, searches sweep, attacks give up | one line, three enemies, one command |
| `perception` | Symmetry of the trees; the history on the buffer equals the sequence; the last side is remembered | 3 entries; the first measurement is any combination of ranges and voltages on both sides of every threshold (one kind at a time), the later ones an enemy on either side, in front or out of sight, on and off the line |
| `timer` | Neither early nor late | counters of 6 bits, up to the last tick before they wrap; timeouts 1, 4, 7 and half the range |
| `interrupts` | No torn read, no lost tick, samples of one round, conversions go on | words of 2 bits, nine ticks (two carries); the channels of the robot's four pins, three rounds |
| `vl53l0x` | One sensor answers; ready or reported; the initialisation ends; SPADs of one type; one round per result, asserts only after a fault, fresh values again | five sensors, three of them measuring; two faults; two retries; five SPADs, aperture SPADs from the third on, calibrated with enough good SPADs of the type, too few, or only with the last |
| `uart` | Sent once and in order, the interrupt always finds a byte, the loop never blocks, an ASSERT is reported, the buffer is a FIFO | 3 slots, up to 7 bytes of two characters, one of them a line feed; a report of three bytes |
| `ir_remote` | Messages are decoded, nothing else is put, repetitions while a button is held | two commands, up to three repetitions; frames received whole, not at all, up to an edge, from an edge on, or with one edge missing; a new press 110, 125 or 153 ms after the last |
| `ir_port2` | Commands are neither lost, doubled nor reordered | 4 slots, 2 commands; the front sensor is quiet above 2 queued commands |
| `drive` | Wheels turn as asked, no kick on the way | every direction at every speed |
| `event_without_transition`, `cached_for_ever` | Two statements of the sources that the code does not keep (section 6) | as small as shows it |

Why the bounds are enough. *State machine*: the code compares inputs only
through the predicates and the enumeration of lines, so one representative per
answer covers all; the commands have one representative per branch of
`state_manual.c` that leads to a different kind of motion; the history matters
only for the side of a rotation, and both sides occur with one entry (its depth
is the subject of `perception`). The state has no counter but the move index,
which is bounded by the longest row of the table. *Buffers*: indices wrap around
after each `buffer_size` operations and the state is finite, so the runs see
every position of head and tail, full and empty, any number of times. *Timer and
Millis*: narrow counters meet the carry and the end of the range; `UPTIME` bounds
time at the wrap-around, past which the properties of `Timer` are false (section
6). *Adc*: a third round shows that the second call can meet the copy of a later
round; more rounds repeat it. *I2c, Vl53l0x*: faults fall at every flag of every
phase; a first fault before and a second during the recovery, or a stall and a
missing acknowledge in one transfer. Two retries are one look that goes on and one
that is the last, which is all that the two ways of counting differ in; a bus that
works is taken to be ready before the last look (`InTime`), since 65535 looks
take hundreds of times as long as a byte. While measuring, a fault falls on any exchange; two
faults are what it takes to lose both clears, or a check and what follows it, and the theorems
have no bound. *SPADs*: good and bad bits on both sides of the limit between the types, enough
of the sensor's type, too few of it so that those of the other type are taken, and enough
only with the last bit, which is refused; after a lost byte also no SPAD and more than there
are. *Uart*:
seven bytes fill the buffer twice and wrap around in it; bytes are told apart only
as a line feed, another character, or the report's. *IrRemote*: bits are told apart
one by one, so that two commands that differ in both directions suffice; three
repetitions reach the second of the odd pulses that put a command, after which the
count repeats but for its parity; the 16-bit wrap of the count, an hour on one
button, is beyond the bound (the theorems of `SerialProofs` go as far as the wrap). *IrPort2*: `QuietAbove` leaves out the one interleaving
known to damage the buffer: the range sensor's interrupt while the command buffer is
almost full (section 6).

The runs `timer`, whose time stops at `UPTIME`, and `uart`, whose program may have
nothing left to trace, do not look for deadlocks. All others do.

### Fairness

`state_machine_live`: the loop is unconditional and none of its calls blocks for
ever, so its steps are weakly fair. Time is fair only to a timer that an
iteration has already polled: a timer that each iteration starts anew need not
elapse. `RetreatEnds` assumes that the line stays out of sight and no command
comes; without that the robot may retreat for ever, rightly. The inputs are never
fair.

`interrupts`: a pending, enabled interrupt is served before the program goes on,
however briefly it is enabled, hence strong fairness of both; the converter
converts; calls of the two functions end but need not occur. `uart`: the program
goes on (whatever it traces; an ASSERT is never forced), the interrupt is served and
the peripheral sends. `vl53l0x`: the driver's code goes on, a bus that works sets
the flag, a sensor finishes what it has begun and its interrupt is served; a fault is
never forced, and a bus that stalls need not come back. `InitEnds` is about a bus that
stalls for good, or behaviours in which no byte is lost unnoticed; `AlwaysFreshAgain` is about
behaviours without a fault in which the initialisation has not refused a sensor's SPADs.

## 4. Proofs

The theorems hold for every value of the constants that satisfies the assumptions
named in the modules. Those about reachable states rest on an inductive invariant:
most of the properties are not inductive by themselves, because they speak of one
moment (an iteration has ended, a call is over, an interrupt comes) while what makes
them true is arranged at others.

**StateMachineProofs**, for any sets of inputs and any size of the history: `Spec`
keeps `IInv`, which is

- `TypeOK`;
- `EventInv`: between `process_input` and `process_event` the chosen event
  stands for what it was chosen for, and only a command leaves the internal
  event where it was;
- `DeadlineInv`, `FinishedInv`: the properties `Deadline` and
  `FinishedOnlyAfterLastMove`, which speak of the moment between iterations,
  extended to the moment between the choice of an event and its handling, when
  the timer has been cleared or FINISHED taken;
- `ClearedInv`: a cleared timer does not elapse;
- `OnlyKnownAsserts`.

Whether an ASSERT holds in RETREAT depends on the timer and the move index, what a
TIMEOUT finds depends on what cleared the timer, and whether FINISHED can be pending
depends on where a command may have overtaken it. From `IInv` follow
`TypeCorrectness`, `AssertsKnown`, `DeadlineAlways` and `FinishedAfterLastMove`, and,
as properties of steps, `StartedByCommand` (`StillUntilStarted`), `ManualIsFinal`
(`ManualObeysOnlyCommands`) and `RetreatsComplete` (`RetreatRunsToItsEnd`).
`MotorsInv` ties the motors to the state while an event is about to be handled as
well, in a retreat to the row of the table and the move that is under way; with it
`MotorsDoWhatStateAsks` (`MotorsFollowState`) and `LeavesLine` (`MovesAwayFromLine`).
`Refinement` shows that `Spec` implements `Strategy` without its fairness
(`ImplementsStrategy`): each disjunct of `Next` is a step of the strategy or a
stutter. It needs `MotorsInv` before and after the step, and `RestOfRetreat`, which
says that what is left of a row after a move is the tail of what was left before.

**TimerProofs** proves `TimerNeverEarly` and `TimerNeverLate` for every width of the
counter and every uptime, under `NoWrap`: the counter does not wrap around during the
uptime, and timeouts are at most half its range. That is 24 days and timeouts of the same
order for the code; the longest timeout the robot uses is 5 s. Nothing is proved of what
comes with the wrap-around, a deadline that looks cleared among it (section 6).

**InterruptsProofs**, for words of any width and any channels. `MillisInv`: the
two words are the number of ticks served, and what `millis()` has copied still
stands, as its interrupt is masked (`ReadsAreNotTorn`). `AdcInv`: the blocks hold a
prefix of the round being converted, the interrupt finds a whole one, and the cache
holds the last round copied, which cannot change during a call
(`SamplesAreOfOneRound`).

**RingBufferProofs** is about the operations of the ring buffer, for any size: on
the elements between tail and head, `ring_buffer_put` appends and drops the oldest
element of a full buffer (`PutAppends`), `ring_buffer_get` takes the oldest
(`GetTakesOldest`). The proofs about its clients rest on these lemmas.

**PerceptionProofs**. `LeftAndRightAreAlike` (`MirrorImage`), for every set of ranges
and voltages: the decision trees look at no more than which sensors are below a
threshold, and the lemmas `PositionMirrored` and `LineMirrored` go through the sets.
`HistoryIsSequence` (`SavesAsSequence`), for a history of any size: the element
before the head is the last of the contents. `LastSideIsRemembered` (`RemembersLastSide`)
with `SideInv`: the last directed enemy is at the offset `undirected`, and nothing directed
is nearer. It assumes that an element of zeroes, as in a static buffer that was never
written, is no enemy on a side. Neither proof uses that the history, which never gets, does
not reach the branch of `ring_buffer_count` that counts one too many.

**SerialProofs**, about `Uart`, for a buffer and a text of any size. `UartInv` says who is
responsible for the oldest byte: while neither the program nor the interrupt is
between two bytes, either the buffer is empty and no interrupt is to come, or that
byte waits in TXBUF or an interrupt is to come, not both (`TransmissionInv`). From it
follow `InterruptAlwaysFindsByte` and `TraceIsSentInOrder` (`SentInOrder`), and,
since then every get finds an element, `SharedBufferIsFifo` (`ImplementsFifo`).

About `IrPort2`, for a buffer of any size: `CommandsAreKept` (`HoldsQueue`), under
`QuietInTime`, that the range sensor is quiet while there is room for fewer than two
more commands. Without it the property is false: section 6 has the interleaving.
`Port2Inv` relates buffer and queue at each statement of a get: between the copying of
an element and the increment of the tail the queue starts one behind the tail, between
increment and wrap possibly at slot 0 with the tail past the end (`TailInv`,
`QueueInv`); `full` may be set too early while a get is under way, but only with so
many commands in the queue that the range sensor's interrupt lets no other in before
the get clears it (`FullInv`, `PortInv`).

About `IrRemote`, for any commands, any edges that are missed and buttons pressed and
held in any order: `MessagesAreDecoded` (`DecodesMessages`), `OnlySentCommandsArePut`
(`PutsOnlyWhatIsSent`) and `CommandIsRepeated` (`RepeatsWhileHeld`, for less than 32750
repetitions, an hour, before the count wraps around). They assume `ServedInTime`: an
interrupt waits for no more than 1/16 ms, and presses are more than 110 ms apart. The run
shows that the first bound is sharp: with `LATENCY = 2` it finds `DecodesMessages` violated;
what shorter pauses do is in section 6. `IrInv` consists of

- `TimerInv`, `RemoteInv`: the timer runs while the count is not 0; how long the pause
  before a frame is and what is left of it;
- `FreshInv`: before the first edge of a frame that is received, so much time has passed
  since the last pulse that the next one starts the count again, unless the frame is the
  repetition that is expected;
- `InStepInv`: while no edge was missed, the count is the number of edges sent and the
  timer agrees with the remote to one unit, or is a whole tick ahead, before the third
  edge, where no limit is that close;
- `MessageInv`, `RepetitionInv`: which bits have been shifted in and what has been
  put. Once an edge of a message was missed the count stays behind the edges, so that 34
  is reached only by a message received whole.

The proof of a pulse goes through the limits of `is_valid_pulse` one by one, and from units
to milliseconds by the range of the timer.

**DriveProofs**, for any directions and speeds. `DriveInv` says which writes of a
call are still to come and what the others have set (`CallInv`, `Progress`), and
that the driver's copies agree with the timer and the channels after each write
(`ChannelsInv`). With it `WheelsObeyLastCall` (`ObeysLastCall`) and
`WheelsAreNotKicked` (`NoKickOnTheWay`).

**Vl53l0xProofs**, for any number of faults, two retries or more, and any SPADs.
`Vl53l0xInv` covers the initialisation and the measuring:

- `PlaceInv`: where the driver can be; `CallInv`: an error or a lost byte has a fault
  behind it;
- unless a byte was lost: `AddressInv`, that sensors are woken one by one and have left
  the default address before the next is; `ConfigInv`, what each of them has been set
  to before the next exchange and which calibration it may still be busy with;
  `BootInv`, that no edge is latched when the interrupt is enabled;
- `RoundInv`, unless a byte was lost that the driver has to take for what it is not: a
  sensor that says it is done has a range of this round and does not measure, whatever an
  earlier check said or start did; those that have been read are idle and cleared, so that
  the next round finds nothing of this one. It holds for any number of exchanges that fail
  or lose a byte otherwise;
- `AstrayInv`: no sensor is astray without a fault;
- `PromptInv`, for behaviours without a fault or a refused sensor: the interrupt's flag and
  the state of the front sensor agree, and no ASSERT has failed.

The exchanges are looked up in the list that `Program` is (`InitConfigExchanges`).
What the loop over the SPAD map enables is shown by induction over its bits. The library's
induction theorems are out of the provers' reach; `LeastElement`, that a set of numbers has
a least one, follows from the well-founded order of finite sets without them, and with `UpTo`
also that the recursive function exists (`LoopRuns`, `EnabledIsLoop`). `Progressed` is the
invariant of the loop: while SPADs are missing, all good ones that it has met are enabled, so
if there are enough of the sensor's type it is over before it comes to those of the other.
`LoopSelectsSpads` is its result, for any number, type, map and limits: the loop succeeds
exactly if enough good SPADs lie before the last bit.

Theorems: `EachExchangeHasOneSensor` (`OneSensorAnswers`), `InitialisedIsReady`
(`ReadyWhenInitialized`), `SpadsAreOfOneType` (`SpadsOfOneType`),
`FreshValuesAreOfOneRound` (`FreshIsOneRound`), and `NoAssertWithoutFault`
(`AssertsOnlyAfterFault`); a sensor whose SPADs cannot be enabled is a failed initialisation,
which the property names (`Refused`). The three properties that say `~garbled` are about
behaviours in which no byte was lost unnoticed so far, or, once the sensors are
initialised, none but those that a later exchange makes up for: a lost check, start, or one
of the two clears. Section 6 has what the code does with the others.

Only model-checked is liveness, with whatever needs fairness (`RetreatEnds`,
`SearchSweeps`, `AttackGivesUp`, `EveryTickCounted`, `ConversionsGoOn`,
`EverythingIsSent`, `AssertIsReported`, `InitEnds`, `AlwaysFreshAgain`), which is
beyond the prover.

## 5. Not modelled

- The values that are written to the VL53L0X's registers, pin tables, clock and
  watchdog set-up (`main.c`, `mcu_init.c`, `io_init`): straight-line writes to
  hardware with nothing to interleave with; what they set up is the initial state of
  the modules.
- How long instructions take, but for the latency in `IrRemote`: an edge that comes
  in the few instructions between a pin's handler and the clearing of its flag is
  lost (`io.c:392`), which no property here can see.
- The composition of all interrupts at once. The modules compose those that share
  state: watchdog and converter, the two pins of port 2, the UART and its program.
- `vl53l0x_read_range_single` and everything else that only `test/test.c` calls,
  and the bring-up tests themselves.
- Traces, names of enumerators, the LED.
- What the robot's movements do to what its sensors see: inputs are free.

## 6. Where the code and its documents disagree

Two are shown by runs of their own and listed under `findings`:

- A command that arrives while FINISHED is pending leaves FINISHED to the manual
  state, which has no transition for it: ASSERT at `state_machine.c:139`.
- After a start of the range sensors that fails, nothing measures and cached
  values are returned for ever.

Met while modelling, and modelled as coded:

- A line on a diagonal, a value a sensor can report, fails an ASSERT
  (`state_retreat.c:146`), as an attack of 5 s on one side does
  (`state_attack.c`). `OnlyKnownAsserts` names both.
- A failure to initialise a range sensor is ignored (`enemy_init`) and fails an
  ASSERT at the first reading.
- With the line at the front right and the enemy in front the robot aligns to the
  left (`state_retreat.c:93`), where `docs/retreat_state.uml:32` has the right. With the
  line in front it aligns to the side of the enemy (`state_retreat.c:127-131`), where
  `docs/retreat_state.uml:51-52` has the other side.
- `ring_buffer_count` returns one too many once the head is below the tail of a
  buffer that is not full (`ring_buffer.c:64`). Its only caller, the history,
  never gets and so never is in that branch.
- The search turns to where the enemy was last seen (`state_search.c:15`) only
  while that sighting is among the last six entries of the history.
- `timer.h:9` allows timeouts up to `UINT32_MAX`; with `millis` counting to half
  that and the sum wrapping around, half the range is the limit (`timer.c:9,17`).
- The average of three ranges weights the right one with a half (`enemy.c:60`).
- `isr_port_2` serves the IR pin on the range sensor's interrupt although
  `ir_remote_get_cmd` has disabled the pin's own interrupt. With a command buffer
  that is just getting full, the put in the middle of the get is undone. With ten
  slots that needs a main loop that has not run for a second.
- `state_retreat_run` resets the move index before `next_retreat_state` looks at
  the current move (`state_retreat.c:170`), so the arc turn away from a line at the
  back, which `docs/retreat_state.uml:38` has for a robot that drives in reverse,
  depends on the first move of an earlier retreat.
- `i2c_wait_tx_byte` and `i2c_wait_rx_byte` return a timeout if `retries` is 0, but
  `retries--` leaves 65535 when they give up, and 0 when the flag came with the last
  look (`i2c.c:19`, `i2c.c:29`). A stall in the middle of a transfer passes for a
  success unless it lasts to the stop condition, whose wait does notice. `i2c.h:21`
  says of the functions that they send the data; a byte can be lost. What follows
  depends on the byte: a new address that did not arrive leaves two sensors answering
  at the default one, a request that did not arrive is polled for ever, and a status
  that was not cleared keeps the first call of `vl53l0x_read_range_multiple` waiting
  for an edge that does not come. SPADs read with a byte lost are any number of either type,
  also of both. `OneSensorAnswers`, `ReadyWhenInitialized`, `SpadsOfOneType` and `InitEnds`
  except that case by name (`garbled`).
- The same while measuring: a lost byte in the reading of a range leaves what RXBUF held in
  `latest_ranges`, which is returned as a fresh value; a poll that loses one has the range
  read before it is there; two lost writes of INTERRUPT_CLEAR leave a side's status set, so
  that its old range is read as one of the next round, and one front sensor left so makes no
  edge any more. `FreshIsOneRound` excepts these, and only these, by name. A start that loses
  a byte may leave a sensor not measuring, with the same cached values for ever as a failed
  one, or astray in another bank of registers, where its start bit or its status may be polled
  for ever. After an error, a cached entry may hold one new and one old byte.
- After an error a transfer sends no stop condition.
- The loop over the SPAD map (`vl53l0x.c:320`) returns an error when the last SPAD it
  needs is the 44th, because the index is checked before the count; and it goes on
  into the aperture SPADs when the others are too few, against the comment at
  `vl53l0x.c:181`. `SpadsOfOneType` and `AssertsOnlyAfterFault` name both cases (`Enough`,
  `Refused`), and the run has them.
- `UCA0CTL1 &= UCSWRST` (`uart.c:80`) is meant to set the reset bit (the comment
  above it) and instead clears all others. After a hardware reset the bit is set
  anyway; on the way of a failed ASSERT it is not, and a byte that is being sent while
  the module is configured again may be garbled. `AssertIsReported` allows for one.
- A failed `ASSERT_INTERRUPT` neither stops the motors nor reports anything; the run
  `uart` shows that it does not fail.
- The decoder takes a pulse within 110 ms of a repetition for another one and puts the
  old command, and one between 50 and 110 ms after a message for the start of a message
  that it then loses; a remote that keeps to its frames of 108 ms cannot send those. The
  inverse of the command is received and not compared.
- `ir_timer_start` restarts the timer and leaves its flag alone (`ir_remote.c:47-52`): a
  tick that is pending when a pulse is served is counted to the next bit. With interrupts
  held off for 1/8 ms instead of 1/16, a bit of 1.125 ms may so be read as one of 2.25 ms, a
  0 as a 1 (`ir_remote.c:103`); the critical sections and handlers of the program are far
  shorter.
- `adc_get_channel_values` returns zeros before the first round has been copied, which
  `line_get` takes for a line under every corner.

## 7. Plan

Done: the state machine with its safety, liveness and refinement; the ring buffer, the
history, timer and counter; range sensors with their bus and initialisation; IR decoder
and buffer; UART; converter; motors; theorems about every component, the refinements of
`Strategy` and `Fifo` among them. Every safety property of a run is a theorem.

Next: theorems about what lies between the components, such as what still holds after a
byte was lost that the driver cannot notice, which the theorems about the range sensors
exclude by name.
