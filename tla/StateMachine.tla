---------------------------- MODULE StateMachine ----------------------------
(***************************************************************************)
(* The main loop of the robot: app/state_machine.c with the handlers       *)
(* app/state_{wait,search,attack,retreat,manual}.c, the timer they share   *)
(* and the input history. Each iteration of state_machine_run is two       *)
(* steps: process_input samples the sensors, the IR remote, the internal   *)
(* event and the timer and chooses ONE event; process_event looks the      *)
(* event up in the transition table and runs the handler of the state      *)
(* entered. A failed ASSERT stops the motors and never returns             *)
(* (common/assert_handler.c), which is pc = "halted".                      *)
(*                                                                         *)
(* Time is abstract: once started, the timer may elapse at any moment.     *)
(* timer.c itself, with the width of its counter, is Timer.tla.            *)
(***************************************************************************)
EXTENDS Naturals, Sequences, Enemy, Line, InputHistory

CONSTANTS Enemies,   \* what enemy_get may return
          Lines,     \* what line_get may return
          Cmds,      \* what ir_remote_get_cmd may return
          INPUT_HISTORY_BUFFER_SIZE

(* The commands of drivers/ir_remote.h, and UNKNOWN for any other byte: the *)
(* decoder returns the received byte whether or not it is in the enum.     *)
ir_cmd_e == {"NONE", "UP", "DOWN", "LEFT", "RIGHT", "0", "1", "2", "3", "4", "5",
             "6", "7", "8", "9", "STAR", "HASH", "OK", "UNKNOWN"}

ASSUME EnemiesAssumption == Enemies \subseteq EnemyType
ASSUME LinesAssumption == Lines \subseteq line_e
ASSUME CmdsAssumption == Cmds \subseteq ir_cmd_e
ASSUME SizeAssumption == INPUT_HISTORY_BUFFER_SIZE \in Nat \ {0}

VARIABLES pc,             \* "process_input", "process_event" or "halted"
          assert_failed,  \* the ASSERT that halted the program, or "none"
          state,          \* data.state
          next_event,     \* the event process_input returned
          internal_event, \* data.internal_event
          timer,          \* data.timer
          enemy, line, cmd, \* data.common.{enemy,line,cmd}
          input_history,  \* data.input_history
          search_state,   \* data.search.state
          attack_state,   \* data.attack.state
          retreat_state,  \* data.retreat.state
          move_idx,       \* data.retreat.move_idx
          drive           \* what the motors were last told to do

inputs == <<enemy, line, cmd, input_history>>
vars == <<pc, assert_failed, state, next_event, internal_event, timer, inputs,
          search_state, attack_state, retreat_state, move_idx, drive>>

-----------------------------------------------------------------------------
(* Enumerations *)
state_e == {"WAIT", "SEARCH", "ATTACK", "RETREAT", "MANUAL"}
state_event_e == {"TIMEOUT", "LINE", "ENEMY", "FINISHED", "COMMAND", "NONE"}
search_state_e == {"ROTATE", "FORWARD"}
attack_state_e == {"FORWARD", "LEFT", "RIGHT"}
retreat_state_e == {"REVERSE", "FORWARD", "ROTATE_LEFT", "ROTATE_RIGHT", "ARCTURN_LEFT",
                    "ARCTURN_RIGHT", "ALIGN_LEFT", "ALIGN_RIGHT"}
drive_dir_e == {"FORWARD", "REVERSE", "ROTATE_LEFT", "ROTATE_RIGHT",
                "ARCTURN_SHARP_LEFT", "ARCTURN_SHARP_RIGHT", "ARCTURN_MID_LEFT",
                "ARCTURN_MID_RIGHT", "ARCTURN_WIDE_LEFT", "ARCTURN_WIDE_RIGHT"}

(* The ASSERTs on the way of an iteration, named after their function. *)
Asserts == {"no_transition", "post_internal_event", "wait_enter", "search_enter",
            "attack_enter", "attack_timeout", "next_attack_state",
            "retreat_enter", "next_retreat_state", "start_retreat_move"}

Drive(dir, speed) == [dir |-> dir, speed |-> speed]
Stopped == Drive("STOP", "NONE")
DriveType == [dir : drive_dir_e, speed : {"FAST", "MAX"}] \cup {Stopped}

-----------------------------------------------------------------------------
(* The timer: the duration it was started with, 0 when cleared, and whether *)
(* millis() has passed the deadline since. "polled" marks a running timer  *)
(* that an iteration has seen: only the fairness of time looks at it.      *)
SEARCH_STATE_ROTATE_TIMEOUT == 400
SEARCH_STATE_FORWARD_TIMEOUT == 3000
ATTACK_STATE_TIMEOUT == 5000
MoveDurations == {150, 250, 300}

timer_start(timeout) == [timeout |-> timeout, status |-> "started"]
TimerCleared == timer_start(0)
TimerRunning == timer.timeout # 0 /\ timer.status # "elapsed"
timer_timeout == timer.status = "elapsed"
TimerPolled == IF TimerRunning THEN [timer EXCEPT !.status = "polled"] ELSE timer
TimerType == [timeout : MoveDurations \cup {0, SEARCH_STATE_ROTATE_TIMEOUT,
                          SEARCH_STATE_FORWARD_TIMEOUT, ATTACK_STATE_TIMEOUT},
              status : {"started", "polled", "elapsed"}]

(* Mutant: state_enter forgets the timer_clear. *)
TimerEntering_kept(to) == timer

(* state_enter clears the timer on a change of state. *)
TimerEntering(to) == IF state # to THEN TimerCleared ELSE timer

-----------------------------------------------------------------------------
(* state_machine.c: the transition table and the choice of the event *)
state_transitions == {
    <<"WAIT", "NONE", "WAIT">>, <<"WAIT", "LINE", "WAIT">>,
    <<"WAIT", "ENEMY", "WAIT">>, <<"WAIT", "COMMAND", "SEARCH">>,
    <<"SEARCH", "NONE", "SEARCH">>, <<"SEARCH", "TIMEOUT", "SEARCH">>,
    <<"SEARCH", "ENEMY", "ATTACK">>, <<"SEARCH", "LINE", "RETREAT">>,
    <<"SEARCH", "COMMAND", "MANUAL">>,
    <<"ATTACK", "ENEMY", "ATTACK">>, <<"ATTACK", "LINE", "RETREAT">>,
    <<"ATTACK", "NONE", "SEARCH">>, <<"ATTACK", "COMMAND", "MANUAL">>,
    <<"ATTACK", "TIMEOUT", "ATTACK">>,
    <<"RETREAT", "LINE", "RETREAT">>, <<"RETREAT", "FINISHED", "SEARCH">>,
    <<"RETREAT", "TIMEOUT", "RETREAT">>, <<"RETREAT", "ENEMY", "RETREAT">>,
    <<"RETREAT", "NONE", "RETREAT">>, <<"RETREAT", "COMMAND", "MANUAL">>,
    <<"MANUAL", "COMMAND", "MANUAL">>, <<"MANUAL", "NONE", "MANUAL">>,
    <<"MANUAL", "LINE", "MANUAL">>, <<"MANUAL", "ENEMY", "MANUAL">> }

(* Mutants: the row RETREAT/ENEMY is forgotten; an enemy in sight starts a *)
(* waiting robot; a line takes the robot away from the remote.             *)
Transition_row_lost(from, event, to) ==
    <<from, event, to>> \in state_transitions \ {<<"RETREAT", "ENEMY", "RETREAT">>}
Transition_auto_start(from, event, to) ==
    <<from, event, to>> \in (state_transitions \ {<<"WAIT", "ENEMY", "WAIT">>})
                              \cup {<<"WAIT", "ENEMY", "SEARCH">>}
Transition_line_over_remote(from, event, to) ==
    <<from, event, to>> \in (state_transitions \ {<<"MANUAL", "LINE", "MANUAL">>})
                              \cup {<<"MANUAL", "LINE", "RETREAT">>}

(* The row process_event looks for. No two rows have the same from and event. *)
Transition(from, event, to) == <<from, event, to>> \in state_transitions

(* Mutants: LINE goes before the internal event; the timer is not asked.    *)
InputEvent_line_first(e, l, c) ==
    IF c # "NONE" THEN "COMMAND"
    ELSE IF l # "NONE" THEN "LINE"
    ELSE IF internal_event # "NONE" THEN internal_event
    ELSE IF timer_timeout THEN "TIMEOUT"
    ELSE IF enemy_detected(e) THEN "ENEMY"
    ELSE "NONE"
InputEvent_no_timeout(e, l, c) ==
    IF c # "NONE" THEN "COMMAND"
    ELSE IF internal_event # "NONE" THEN internal_event
    ELSE IF l # "NONE" THEN "LINE"
    ELSE IF enemy_detected(e) THEN "ENEMY"
    ELSE "NONE"

(* The event of an iteration, in the code's order of priority. *)
InputEvent(e, l, c) ==
    IF c # "NONE" THEN "COMMAND"
    ELSE IF internal_event # "NONE" THEN internal_event
    ELSE IF timer_timeout THEN "TIMEOUT"
    ELSE IF l # "NONE" THEN "LINE"
    ELSE IF enemy_detected(e) THEN "ENEMY"
    ELSE "NONE"

ProcessInput ==
    /\ pc = "process_input"
    /\ pc' = "process_event"
    /\ enemy' \in Enemies
    /\ line' \in Lines
    /\ cmd' \in Cmds
    /\ input_history' = input_history_save(input_history,
                            [enemy |-> enemy', line |-> line'], INPUT_HISTORY_BUFFER_SIZE)
    /\ next_event' = InputEvent(enemy', line', cmd')
    /\ internal_event' = IF next_event' = internal_event THEN "NONE" ELSE internal_event
    /\ timer' = IF next_event' = "TIMEOUT" THEN TimerCleared ELSE TimerPolled
    /\ UNCHANGED <<assert_failed, state, search_state, attack_state, retreat_state,
                   move_idx, drive>>

(* process_event finds a transition and state_enter moves to its target. *)
Dispatch(to) ==
    /\ pc = "process_event"
    /\ Transition(state, next_event, to)
    /\ state' = to
    /\ UNCHANGED <<next_event, inputs>>

(* The handler returns with the motors doing d, or halts at an ASSERT. *)
Finish(failed, d) ==
    /\ assert_failed' = failed
    /\ pc' = IF failed = "none" THEN "process_input" ELSE "halted"
    /\ drive' = IF failed = "none" THEN d ELSE Stopped

NoTransition ==
    /\ pc = "process_event"
    /\ \A to \in state_e : ~Transition(state, next_event, to)
    /\ Finish("no_transition", drive)
    /\ UNCHANGED <<state, next_event, internal_event, timer, inputs, search_state,
                   attack_state, retreat_state, move_idx>>

-----------------------------------------------------------------------------
(* state_wait.c *)
EnterWait ==
    /\ Dispatch("WAIT")
    /\ timer' = TimerEntering("WAIT")
    /\ Finish(IF state = "WAIT" THEN "none" ELSE "wait_enter", drive)
    /\ UNCHANGED <<internal_event, search_state, attack_state, retreat_state, move_idx>>

-----------------------------------------------------------------------------
(* state_search.c *)
SearchDrive(s, history) ==
    IF s = "FORWARD" THEN Drive("FORWARD", "FAST")
    ELSE IF enemy_at_right(input_history_last_directed_enemy(history))
         THEN Drive("ROTATE_RIGHT", "FAST")
         ELSE Drive("ROTATE_LEFT", "FAST")

SearchTimeout(s) == IF s = "ROTATE" THEN SEARCH_STATE_ROTATE_TIMEOUT
                                    ELSE SEARCH_STATE_FORWARD_TIMEOUT

(* Mutants: no switch to ROTATE after a retreat; no switch on a timeout. *)
next_search_state_after_retreat(from, event, s) ==
    IF from = "SEARCH" /\ event = "TIMEOUT" /\ s = "ROTATE" THEN "FORWARD"
    ELSE IF from = "SEARCH" /\ event = "TIMEOUT" THEN "ROTATE" ELSE s
next_search_state_no_switch(from, event, s) == IF from = "RETREAT" THEN "ROTATE" ELSE s

next_search_state(from, event, s) ==
    CASE from = "RETREAT" -> "ROTATE"
      [] from = "SEARCH" /\ event = "TIMEOUT" -> IF s = "ROTATE" THEN "FORWARD" ELSE "ROTATE"
      [] OTHER -> s

SearchEntries == {<<"WAIT", "COMMAND">>, <<"ATTACK", "NONE">>, <<"RETREAT", "FINISHED">>,
                  <<"SEARCH", "NONE">>, <<"SEARCH", "TIMEOUT">>}

EnterSearch ==
    /\ Dispatch("SEARCH")
    /\ search_state' = next_search_state(state, next_event, search_state)
    /\ LET runs == <<state, next_event>> # <<"SEARCH", "NONE">>
       IN  /\ timer' = IF runs THEN timer_start(SearchTimeout(search_state')) ELSE timer
           /\ Finish(IF <<state, next_event>> \in SearchEntries THEN "none" ELSE "search_enter",
                     IF runs THEN SearchDrive(search_state', input_history) ELSE drive)
    /\ UNCHANGED <<internal_event, attack_state, retreat_state, move_idx>>

-----------------------------------------------------------------------------
(* state_attack.c *)
EnemyLocated(e) == enemy_at_front(e) \/ enemy_at_left(e) \/ enemy_at_right(e)

next_attack_state(e) ==
    IF enemy_at_front(e) THEN "FORWARD" ELSE IF enemy_at_left(e) THEN "LEFT" ELSE "RIGHT"

AttackDrive(a) ==
    CASE a = "FORWARD" -> Drive("FORWARD", "FAST")
      [] a = "LEFT" -> Drive("ARCTURN_WIDE_LEFT", "FAST")
      [] a = "RIGHT" -> Drive("ARCTURN_WIDE_RIGHT", "FAST")

AttackAssert ==
    IF ~EnemyLocated(enemy) THEN "next_attack_state"
    ELSE IF <<state, next_event>> = <<"ATTACK", "TIMEOUT">> THEN "attack_timeout"
    ELSE IF state \in {"SEARCH", "ATTACK"} /\ next_event = "ENEMY" THEN "none"
    ELSE "attack_enter"

(* Mutants: the side is not looked at again, or the attack always reruns. *)
AttackReruns_never(side) == FALSE
AttackReruns_always(side) == TRUE

(* Within ATTACK the motors and the timer are set again only when the enemy *)
(* has moved to another side.                                              *)
AttackReruns(side) == side # attack_state

EnterAttack ==
    /\ Dispatch("ATTACK")
    /\ attack_state' = IF EnemyLocated(enemy) THEN next_attack_state(enemy) ELSE attack_state
    /\ LET runs == AttackAssert = "none" /\ (state = "SEARCH" \/ AttackReruns(attack_state'))
       IN  /\ timer' = IF runs THEN timer_start(ATTACK_STATE_TIMEOUT) ELSE TimerEntering("ATTACK")
           /\ Finish(AttackAssert, IF runs THEN AttackDrive(attack_state') ELSE drive)
    /\ UNCHANGED <<internal_event, search_state, retreat_state, move_idx>>

-----------------------------------------------------------------------------
(* state_retreat.c *)
Move(dir, speed, duration) == [dir |-> dir, speed |-> speed, duration |-> duration]

retreat_states == [
    REVERSE       |-> << Move("REVERSE", "MAX", 300) >>,
    FORWARD       |-> << Move("FORWARD", "FAST", 300) >>,
    ROTATE_LEFT   |-> << Move("ROTATE_LEFT", "FAST", 150) >>,
    ROTATE_RIGHT  |-> << Move("ROTATE_RIGHT", "FAST", 150) >>,
    ARCTURN_LEFT  |-> << Move("ARCTURN_SHARP_LEFT", "MAX", 150) >>,
    ARCTURN_RIGHT |-> << Move("ARCTURN_SHARP_RIGHT", "MAX", 150) >>,
    ALIGN_LEFT    |-> << Move("REVERSE", "MAX", 300),
                         Move("ARCTURN_SHARP_LEFT", "MAX", 250),
                         Move("ARCTURN_MID_RIGHT", "MAX", 300) >>,
    ALIGN_RIGHT   |-> << Move("REVERSE", "MAX", 300),
                         Move("ARCTURN_SHARP_RIGHT", "MAX", 250),
                         Move("ARCTURN_MID_LEFT", "MAX", 300) >> ]

move_cnt(s) == Len(retreat_states[s])

(* Mutant: the first move is made again and again. *)
MoveAt_first(s, idx) == retreat_states[s][1]

MoveAt(s, idx) == retreat_states[s][idx + 1]   \* C index from 0

(* Mutant: the fallback drives over the line. *)
AlignOr_forward(rights, lefts) ==
    CASE rights -> "ALIGN_RIGHT" [] lefts /\ ~rights -> "ALIGN_LEFT" [] OTHER -> "FORWARD"

(* Align with the enemy towards the side it is on, else just reverse. *)
AlignOr(rights, lefts) ==
    CASE rights -> "ALIGN_RIGHT" [] lefts /\ ~rights -> "ALIGN_LEFT" [] OTHER -> "REVERSE"

(* dir is that of current_move: state_retreat_run has set move_idx to 0    *)
(* before it calls next_retreat_state, so it is the first move of the      *)
(* retreat state of the PREVIOUS retreat.                                  *)
next_retreat_state(l, e, s, dir) ==
    CASE l = "FRONT_LEFT" ->
             AlignOr(enemy_at_right(e) \/ enemy_at_front(e), enemy_at_left(e))
      [] l = "FRONT_RIGHT" ->
             AlignOr(enemy_at_right(e), enemy_at_left(e) \/ enemy_at_front(e))
      [] l = "FRONT" -> AlignOr(enemy_at_right(e), enemy_at_left(e))
      [] l = "BACK_LEFT" ->
             IF dir = "REVERSE" \/ s = "ARCTURN_RIGHT" THEN "ARCTURN_RIGHT" ELSE "FORWARD"
      [] l = "BACK_RIGHT" ->
             IF dir = "REVERSE" \/ s = "ARCTURN_LEFT" THEN "ARCTURN_LEFT" ELSE "FORWARD"
      [] l = "BACK" -> "FORWARD"
      [] l = "LEFT" -> "ARCTURN_RIGHT"
      [] l = "RIGHT" -> "ARCTURN_LEFT"

Ambiguous(l) == l \in {"DIAGONAL_LEFT", "DIAGONAL_RIGHT", "NONE"}

(* Event LINE: state_retreat_run. *)
RetreatRun ==
    /\ Dispatch("RETREAT")
    /\ next_event = "LINE"
    /\ move_idx' = 0
    /\ IF state \in {"WAIT", "MANUAL"} \/ Ambiguous(line)
       THEN /\ timer' = TimerEntering("RETREAT")
            /\ Finish(IF state \in {"WAIT", "MANUAL"} THEN "retreat_enter"
                      ELSE "next_retreat_state", drive)
            /\ UNCHANGED retreat_state
       ELSE /\ retreat_state' = next_retreat_state(line, enemy, retreat_state,
                                                   MoveAt(retreat_state, 0).dir)
            /\ LET move == MoveAt(retreat_state', 0)
               IN  /\ timer' = timer_start(move.duration)
                   /\ Finish("none", Drive(move.dir, move.speed))
    /\ UNCHANGED <<internal_event, search_state, attack_state>>

(* Event TIMEOUT: the current move is over; start the next one, or post    *)
(* FINISHED after the last.                                                *)
RetreatNextMove ==
    /\ Dispatch("RETREAT")
    /\ next_event = "TIMEOUT"
    /\ move_idx' = move_idx + 1
    /\ IF move_idx' = move_cnt(retreat_state)
       THEN /\ internal_event' = "FINISHED"
            /\ timer' = TimerEntering("RETREAT")
            /\ Finish(IF state # "RETREAT" THEN "retreat_enter"
                      ELSE IF internal_event # "NONE" THEN "post_internal_event" ELSE "none",
                      drive)
       ELSE LET move == MoveAt(retreat_state, move_idx')
            IN  /\ timer' = timer_start(move.duration)
                /\ Finish(IF state # "RETREAT" THEN "retreat_enter"
                          ELSE IF move_idx' > move_cnt(retreat_state)
                               THEN "start_retreat_move" ELSE "none",
                          Drive(move.dir, move.speed))
                /\ UNCHANGED internal_event
    /\ UNCHANGED <<search_state, attack_state, retreat_state>>

(* Events ENEMY and NONE are ignored while retreating. *)
RetreatIgnore ==
    /\ Dispatch("RETREAT")
    /\ next_event \notin {"LINE", "TIMEOUT"}
    /\ timer' = TimerEntering("RETREAT")
    /\ Finish(IF state = "RETREAT" /\ next_event \in {"ENEMY", "NONE"}
              THEN "none" ELSE "retreat_enter", drive)
    /\ UNCHANGED <<internal_event, search_state, attack_state, retreat_state, move_idx>>

-----------------------------------------------------------------------------
(* state_manual.c *)
ManualDrive(c) ==
    CASE c = "UP" -> Drive("FORWARD", "MAX")
      [] c = "DOWN" -> Drive("REVERSE", "MAX")
      [] c = "LEFT" -> Drive("ROTATE_LEFT", "MAX")
      [] c = "RIGHT" -> Drive("ROTATE_RIGHT", "MAX")
      [] c \in {"NONE", "UNKNOWN"} -> drive
      [] OTHER -> Stopped

EnterManual ==
    /\ Dispatch("MANUAL")
    /\ timer' = TimerEntering("MANUAL")
    /\ Finish("none", IF next_event = "COMMAND" THEN ManualDrive(cmd) ELSE drive)
    /\ UNCHANGED <<internal_event, search_state, attack_state, retreat_state, move_idx>>

-----------------------------------------------------------------------------
ProcessEvent ==
    \/ EnterWait
    \/ EnterSearch
    \/ EnterAttack
    \/ RetreatRun
    \/ RetreatNextMove
    \/ RetreatIgnore
    \/ EnterManual
    \/ NoTransition

(* assert_handler never returns: it blinks the LED for ever. *)
AssertHandler == pc = "halted" /\ UNCHANGED vars

(* millis() passes the deadline of a started timer. *)
TimerElapses ==
    /\ pc # "halted"
    /\ TimerRunning
    /\ timer' = [timer EXCEPT !.status = "elapsed"]
    /\ UNCHANGED <<pc, assert_failed, state, next_event, internal_event, inputs,
                   search_state, attack_state, retreat_state, move_idx, drive>>

Init ==
    /\ pc = "process_input"
    /\ assert_failed = "none"
    /\ state = "WAIT"
    /\ next_event = "NONE"
    /\ internal_event = "NONE"
    /\ timer = TimerCleared
    /\ enemy = EnemyNone
    /\ line = "NONE"
    /\ cmd = "NONE"
    /\ input_history = << >>
    /\ search_state = "ROTATE"
    /\ attack_state = "FORWARD"
    /\ retreat_state = "REVERSE"
    /\ move_idx = 0
    /\ drive = Stopped

Next == ProcessInput \/ ProcessEvent \/ TimerElapses \/ AssertHandler

(* The loop never blocks, and the millisecond counter keeps counting: a    *)
(* timer that is not started again elapses. One that every iteration starts *)
(* again need not, so time is fair only to a timer already polled.         *)
Fairness ==
    /\ WF_vars(ProcessInput)
    /\ WF_vars(ProcessEvent)
    /\ WF_vars(TimerElapses /\ timer.status = "polled")

Spec == Init /\ [][Next]_vars
FairSpec == Spec /\ Fairness

-----------------------------------------------------------------------------
(* Type invariant: every variable keeps to the type its declaration in the *)
(* code gives it, and the input history never outgrows its buffer.         *)
TypeOK ==
    /\ pc \in {"process_input", "process_event", "halted"}
    /\ assert_failed \in Asserts \cup {"none"}
    /\ state \in state_e
    /\ next_event \in state_event_e
    /\ internal_event \in {"NONE", "FINISHED"}
    /\ timer \in TimerType
    /\ enemy \in EnemyType
    /\ line \in line_e
    /\ cmd \in ir_cmd_e
    /\ input_history \in Seq(InputType)
    /\ Len(input_history) <= INPUT_HISTORY_BUFFER_SIZE
    /\ search_state \in search_state_e
    /\ attack_state \in attack_state_e
    /\ retreat_state \in retreat_state_e
    /\ move_idx \in 0..3
    /\ drive \in DriveType

(* Between two iterations of the loop. *)
Idle == pc = "process_input"

(* Of all the ASSERTs on the way of an iteration only four can fail, each  *)
(* for the one reason the code leaves open: an attack that lasts until its *)
(* timeout (with the enemy in sight or not), a line seen on a diagonal, and *)
(* a FINISHED left pending by a retreat that a command cut short. Every    *)
(* other ASSERT holds, the table misses no other pair.                     *)
OnlyKnownAsserts ==
    /\ pc = "halted" <=> assert_failed # "none"
    /\ CASE assert_failed = "none" -> TRUE
         [] assert_failed = "attack_timeout" -> state = "ATTACK" /\ next_event = "TIMEOUT"
         [] assert_failed = "next_attack_state" -> state = "ATTACK" /\ next_event = "TIMEOUT"
         [] assert_failed = "next_retreat_state" ->
                state = "RETREAT" /\ line \in {"DIAGONAL_LEFT", "DIAGONAL_RIGHT"}
         [] assert_failed = "no_transition" -> state = "MANUAL" /\ next_event = "FINISHED"
         [] OTHER -> FALSE

(* A robot that fights on its own always has something that ends what it is *)
(* doing: a timer running with the duration that belongs to the move its   *)
(* motors make, or a FINISHED pending after the last move of a retreat.    *)
(* Under a remote, or before the start, no timer may fire.                 *)
Deadline ==
    Idle => CASE state \in {"WAIT", "MANUAL"} -> timer = TimerCleared
              [] state = "SEARCH" -> timer.timeout = SearchTimeout(search_state)
              [] state = "ATTACK" -> timer.timeout = ATTACK_STATE_TIMEOUT
              [] state = "RETREAT" ->
                     IF move_idx = move_cnt(retreat_state)
                     THEN timer = TimerCleared /\ internal_event = "FINISHED"
                     ELSE timer.timeout = MoveAt(retreat_state, move_idx).duration

(* A FINISHED is pending only after the last move of a retreat, and the    *)
(* only state it can survive into is MANUAL. It is never posted twice      *)
(* (ASSERT in state_machine_post_internal_event).                          *)
FinishedOnlyAfterLastMove ==
    internal_event = "FINISHED" =>
        state \in {"RETREAT", "MANUAL"} /\ move_idx = move_cnt(retreat_state)

(* What the motors do is what the state the robot is in asks of them: the  *)
(* search pattern, the side the enemy was sampled on in THIS iteration, or *)
(* the current move of the retreat (the last one until FINISHED is taken). *)
MotorsFollowState ==
    Idle => CASE state = "SEARCH" ->
                     IF search_state = "FORWARD" THEN drive = Drive("FORWARD", "FAST")
                     ELSE drive \in {Drive("ROTATE_LEFT", "FAST"), Drive("ROTATE_RIGHT", "FAST")}
              [] state = "ATTACK" ->
                     EnemyLocated(enemy) /\ drive = AttackDrive(next_attack_state(enemy))
              [] state = "RETREAT" ->
                     \E i \in 1..move_cnt(retreat_state) :
                         /\ i = move_idx + 1 \/ (i = move_idx /\ i = move_cnt(retreat_state))
                         /\ drive.dir = retreat_states[retreat_state][i].dir
                         /\ drive.speed = retreat_states[retreat_state][i].speed
              [] OTHER -> TRUE

(* The directions that take the robot away from a line at l: backwards from *)
(* one in front, forwards or turning to the other side from one behind or  *)
(* beside it.                                                              *)
AwayFrom(l) ==
    CASE l \in {"FRONT", "FRONT_LEFT", "FRONT_RIGHT"} -> {"REVERSE"}
      [] l = "BACK" -> {"FORWARD"}
      [] l \in {"LEFT", "BACK_LEFT"} -> {"FORWARD", "ARCTURN_SHARP_RIGHT"}
      [] l \in {"RIGHT", "BACK_RIGHT"} -> {"FORWARD", "ARCTURN_SHARP_LEFT"}
      [] OTHER -> {}

(* Whatever the robot was doing and whatever the last retreat left behind, *)
(* an iteration that reacts to a line leaves it moving away from it.       *)
MovesAwayFromLine ==
    Idle /\ next_event = "LINE" /\ state = "RETREAT" => drive.dir \in AwayFrom(line)

(* Nothing but a command starts the robot: until an iteration has sampled  *)
(* one the motors stay stopped and no timer is set, whatever the sensors   *)
(* see; and the first thing it does is to rotate.                          *)
StillUntilStarted ==
    [][state = "WAIT" /\ <<state', drive', timer', internal_event'>>
                           # <<"WAIT", Stopped, TimerCleared, "NONE">> =>
        /\ next_event = "COMMAND" /\ cmd # "NONE"
        /\ state' = "SEARCH"
        /\ drive'.dir \in {"ROTATE_LEFT", "ROTATE_RIGHT"}]_vars

(* MANUAL is never left, and there the motors change only when a command is *)
(* handled (or when an ASSERT stops them). No sensor or timer moves a robot *)
(* that is under the remote.                                               *)
ManualObeysOnlyCommands ==
    [][state = "MANUAL" =>
        /\ state' = "MANUAL"
        /\ drive' # drive => next_event = "COMMAND" \/ (drive' = Stopped /\ pc' = "halted")]_vars

(* A retreat that goes back to SEARCH by itself has run its last move, and *)
(* starts the search by rotating (the comment at state_search.c:50).       *)
RetreatRunsToItsEnd ==
    [][state = "RETREAT" /\ state' = "SEARCH" =>
        /\ move_idx = move_cnt(retreat_state)
        /\ drive'.dir \in {"ROTATE_LEFT", "ROTATE_RIGHT"}]_vars

-----------------------------------------------------------------------------
(* Liveness, under FairSpec *)

(* With the line behind it and no command, the robot does not retreat for  *)
(* ever: every move times out and FINISHED is taken.                       *)
RetreatEnds ==
    <>[](line = "NONE" /\ cmd = "NONE") => []<>(state # "RETREAT" \/ pc = "halted")

(* A search that finds nothing goes on alternating between rotating and    *)
(* driving forward.                                                        *)
SearchSweeps ==
    <>[](state = "SEARCH" /\ pc # "halted") =>
        /\ []<>(drive.dir = "FORWARD")
        /\ []<>(drive.dir \in {"ROTATE_LEFT", "ROTATE_RIGHT"})

(* A push in one direction does not last for ever: the attack timer is not *)
(* restarted while the enemy stays on the same side.                       *)
AttackGivesUp ==
    \A a \in attack_state_e :
        []<>~(state = "ATTACK" /\ attack_state = a /\ pc # "halted")

-----------------------------------------------------------------------------
(* A claim of the code that the code does not live up to, refuted by a run *)
(* of its own.                                                             *)

(* ASSERT(0) at the end of process_event says that the table has a         *)
(* transition for every event in every state.                              *)
EveryEventHasTransition == assert_failed # "no_transition"

=============================================================================
