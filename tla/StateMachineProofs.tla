------------------------- MODULE StateMachineProofs -------------------------
(***************************************************************************)
(* Proofs about StateMachine for every set of inputs and every size of the *)
(* input history. The invariants are about the moment between two          *)
(* iterations, and hold there because of what process_input establishes    *)
(* for process_event: IInv says what that is, MotorsInv what the motors do *)
(* meanwhile, and with both every step is one of Strategy or a stutter.    *)
(***************************************************************************)
EXTENDS StateMachineRefinement, SequenceTheorems, TLAPS

(* The event that process_input chose and process_event has not handled.   *)
Taken(event) == pc = "process_event" /\ next_event = event

(* An event stands for what it was chosen for, and only a command leaves   *)
(* an internal event where it was.                                         *)
EventInv ==
    pc = "process_event" =>
        /\ next_event = "COMMAND" => cmd # "NONE"
        /\ next_event = "LINE" => line # "NONE"
        /\ next_event = "ENEMY" => enemy_detected(enemy)
        /\ next_event = "TIMEOUT" => timer = TimerCleared
        /\ next_event # "COMMAND" => internal_event = "NONE"

(* Deadline, from process_input to process_event as well: a timer that was *)
(* over has been cleared and its TIMEOUT is about to be handled.           *)
DeadlineInv ==
    pc # "halted" =>
        /\ state \in {"WAIT", "MANUAL"} => timer = TimerCleared /\ ~Taken("TIMEOUT")
        /\ state = "SEARCH" =>
               Taken("TIMEOUT") \/ timer.timeout = SearchTimeout(search_state)
        /\ state = "ATTACK" => Taken("TIMEOUT") \/ timer.timeout = ATTACK_STATE_TIMEOUT
        /\ state = "RETREAT" =>
               IF move_idx = move_cnt(retreat_state)
               THEN /\ timer = TimerCleared /\ ~Taken("TIMEOUT")
                    /\ internal_event = "FINISHED" \/ Taken("FINISHED")
               ELSE /\ move_idx < move_cnt(retreat_state)
                    /\ Taken("TIMEOUT") \/ timer.timeout = MoveAt(retreat_state, move_idx).duration

(* FinishedOnlyAfterLastMove, while the event is being handled as well.    *)
FinishedInv ==
    internal_event = "FINISHED" \/ Taken("FINISHED") =>
        state \in {"RETREAT", "MANUAL"} /\ move_idx = move_cnt(retreat_state)

(* A cleared timer never elapses. *)
ClearedInv == timer.timeout = 0 => timer = TimerCleared

IInv ==
    /\ TypeOK
    /\ EventInv
    /\ DeadlineInv
    /\ FinishedInv
    /\ ClearedInv
    /\ OnlyKnownAsserts

-----------------------------------------------------------------------------
(* The tables *)
MoveType == [dir : drive_dir_e, speed : {"FAST", "MAX"}, duration : MoveDurations]

(* Every retreat state has one to three moves. *)
LEMMA RetreatTable ==
    \A s \in retreat_state_e :
        /\ move_cnt(s) \in 1 .. 3
        /\ \A i \in 0 .. move_cnt(s) - 1 : MoveAt(s, i) \in MoveType
<1> SUFFICES ASSUME NEW s \in retreat_state_e
             PROVE  /\ move_cnt(s) \in 1 .. 3
                    /\ \A i \in 0 .. move_cnt(s) - 1 : MoveAt(s, i) \in MoveType
  OBVIOUS
<1>1. ASSUME NEW m \in MoveType, retreat_states[s] = << m >>
      PROVE  /\ move_cnt(s) \in 1 .. 3
             /\ \A i \in 0 .. move_cnt(s) - 1 : MoveAt(s, i) \in MoveType
  BY <1>1 DEF move_cnt, MoveAt
<1>2. ASSUME NEW m \in MoveType, NEW n \in MoveType, NEW o \in MoveType,
             retreat_states[s] = << m, n, o >>
      PROVE  /\ move_cnt(s) \in 1 .. 3
             /\ \A i \in 0 .. move_cnt(s) - 1 : MoveAt(s, i) \in MoveType
  <2>1. move_cnt(s) = 3
    BY <1>2 DEF move_cnt
  <2>2. /\ MoveAt(s, 0) = m
        /\ MoveAt(s, 1) = n
        /\ MoveAt(s, 2) = o
    BY <1>2 DEF MoveAt
  <2>3. QED
    BY <2>1, <2>2
<1>3. CASE s \in {"REVERSE", "FORWARD", "ROTATE_LEFT", "ROTATE_RIGHT", "ARCTURN_LEFT",
                  "ARCTURN_RIGHT"}
  <2>1. CASE s = "REVERSE"
    <3>1. retreat_states[s] = << Move("REVERSE", "MAX", 300) >>
      BY <2>1 DEF retreat_states
    <3>2. QED
      BY <3>1, <1>1 DEF Move, MoveType, MoveDurations, drive_dir_e
  <2>2. CASE s = "FORWARD"
    <3>1. retreat_states[s] = << Move("FORWARD", "FAST", 300) >>
      BY <2>2 DEF retreat_states
    <3>2. QED
      BY <3>1, <1>1 DEF Move, MoveType, MoveDurations, drive_dir_e
  <2>3. CASE s = "ROTATE_LEFT"
    <3>1. retreat_states[s] = << Move("ROTATE_LEFT", "FAST", 150) >>
      BY <2>3 DEF retreat_states
    <3>2. QED
      BY <3>1, <1>1 DEF Move, MoveType, MoveDurations, drive_dir_e
  <2>4. CASE s = "ROTATE_RIGHT"
    <3>1. retreat_states[s] = << Move("ROTATE_RIGHT", "FAST", 150) >>
      BY <2>4 DEF retreat_states
    <3>2. QED
      BY <3>1, <1>1 DEF Move, MoveType, MoveDurations, drive_dir_e
  <2>5. CASE s = "ARCTURN_LEFT"
    <3>1. retreat_states[s] = << Move("ARCTURN_SHARP_LEFT", "MAX", 150) >>
      BY <2>5 DEF retreat_states
    <3>2. QED
      BY <3>1, <1>1 DEF Move, MoveType, MoveDurations, drive_dir_e
  <2>6. CASE s = "ARCTURN_RIGHT"
    <3>1. retreat_states[s] = << Move("ARCTURN_SHARP_RIGHT", "MAX", 150) >>
      BY <2>6 DEF retreat_states
    <3>2. QED
      BY <3>1, <1>1 DEF Move, MoveType, MoveDurations, drive_dir_e
  <2>7. QED
    BY <1>3, <2>1, <2>2, <2>3, <2>4, <2>5, <2>6
<1>4. CASE s = "ALIGN_LEFT"
  <2>1. retreat_states[s] = << Move("REVERSE", "MAX", 300),
                               Move("ARCTURN_SHARP_LEFT", "MAX", 250),
                               Move("ARCTURN_MID_RIGHT", "MAX", 300) >>
    BY <1>4 DEF retreat_states
  <2>2. QED
    BY <2>1, <1>2 DEF Move, MoveType, MoveDurations, drive_dir_e
<1>5. CASE s = "ALIGN_RIGHT"
  <2>1. retreat_states[s] = << Move("REVERSE", "MAX", 300),
                               Move("ARCTURN_SHARP_RIGHT", "MAX", 250),
                               Move("ARCTURN_MID_LEFT", "MAX", 300) >>
    BY <1>5 DEF retreat_states
  <2>2. QED
    BY <2>1, <1>2 DEF Move, MoveType, MoveDurations, drive_dir_e
<1>6. QED
  BY <1>3, <1>4, <1>5 DEF retreat_state_e

(* The rows of the transition table, by the state they lead to.            *)
LEMMA TransitionRows ==
    \A from, event :
        /\ Transition(from, event, "WAIT") => from = "WAIT" /\ event \in {"NONE", "LINE", "ENEMY"}
        /\ Transition(from, event, "SEARCH") => <<from, event>> \in SearchEntries
        /\ Transition(from, event, "ATTACK") =>
               \/ from \in {"SEARCH", "ATTACK"} /\ event = "ENEMY"
               \/ from = "ATTACK" /\ event = "TIMEOUT"
        /\ Transition(from, event, "RETREAT") =>
               \/ from \in {"SEARCH", "ATTACK", "RETREAT"} /\ event = "LINE"
               \/ from = "RETREAT" /\ event \in {"TIMEOUT", "ENEMY", "NONE"}
        /\ Transition(from, event, "MANUAL") =>
               \/ from \in {"SEARCH", "ATTACK", "RETREAT", "MANUAL"} /\ event = "COMMAND"
               \/ from = "MANUAL" /\ event \in {"NONE", "LINE", "ENEMY"}
BY DEF Transition, state_transitions, SearchEntries

(* The only event without a row, of those a state can meet. *)
LEMMA MissingRows ==
    \A from \in state_e, event \in state_event_e :
        (\A to \in state_e : ~Transition(from, event, to)) =>
            \/ from \in {"WAIT", "MANUAL"} /\ event = "TIMEOUT"
            \/ from # "RETREAT" /\ event = "FINISHED"
BY DEF Transition, state_transitions, state_e, state_event_e

(* A save keeps the history a sequence of inputs within its bound. *)
LEMMA SaveKeepsHistory ==
    ASSUME NEW history \in Seq(InputType), Len(history) <= INPUT_HISTORY_BUFFER_SIZE,
           NEW input \in InputType
    PROVE  LET saved == input_history_save(history, input, INPUT_HISTORY_BUFFER_SIZE)
           IN  saved \in Seq(InputType) /\ Len(saved) <= INPUT_HISTORY_BUFFER_SIZE
BY SizeAssumption DEF input_history_save, PutDropOldest

(* The commands of the handlers are commands of the motors. *)
LEMMA HandlerDrives ==
    /\ \A s, h : SearchDrive(s, h) \in DriveType
    /\ \A h : SearchDrive("ROTATE", h).dir \in {"ROTATE_LEFT", "ROTATE_RIGHT"}
    /\ \A a \in attack_state_e : AttackDrive(a) \in DriveType
    /\ \A m \in MoveType : Drive(m.dir, m.speed) \in DriveType
    /\ \A c : ManualDrive(c) \in DriveType \cup {drive}
BY DEF SearchDrive, AttackDrive, attack_state_e, MoveType, ManualDrive, Drive, DriveType,
       Stopped, drive_dir_e

(* A detected enemy is always on a side the attack knows.                  *)
LEMMA DetectedIsLocated ==
    \A e \in EnemyType : enemy_detected(e) => EnemyLocated(e)
BY DEF EnemyType, enemy_pos_e, enemy_detected, EnemyLocated, enemy_at_front, enemy_at_left,
       enemy_at_right

-----------------------------------------------------------------------------
(* The inductive invariant: the initial state, and one lemma per action.   *)
LEMMA InitInv == Init => IInv
BY SizeAssumption
DEF Init, IInv, TypeOK, EventInv, DeadlineInv, FinishedInv, ClearedInv, OnlyKnownAsserts,
    Taken, Asserts, state_e, state_event_e, TimerCleared, timer_start, TimerType, MoveDurations,
    EnemyNone, EnemyType, enemy_pos_e, enemy_range_e, line_e, ir_cmd_e, search_state_e,
    attack_state_e, retreat_state_e, DriveType, Stopped, Drive

LEMMA ProcessInputInv == IInv /\ ProcessInput => IInv'
<1> SUFFICES ASSUME IInv, ProcessInput
             PROVE  IInv'
  OBVIOUS
<1>1. /\ pc = "process_input" /\ pc' = "process_event"
      /\ enemy' \in EnemyType /\ line' \in line_e /\ cmd' \in ir_cmd_e
      /\ next_event' = InputEvent(enemy', line', cmd')
      /\ internal_event' = IF next_event' = internal_event THEN "NONE" ELSE internal_event
      /\ timer' = IF next_event' = "TIMEOUT" THEN TimerCleared ELSE TimerPolled
      /\ UNCHANGED <<assert_failed, state, search_state, attack_state, retreat_state,
                     move_idx, drive>>
  BY EnemiesAssumption, LinesAssumption, CmdsAssumption DEF ProcessInput
<1>2. /\ next_event' = "COMMAND" => cmd' # "NONE"
      /\ next_event' = "LINE" => line' # "NONE"
      /\ next_event' = "ENEMY" => enemy_detected(enemy')
      /\ next_event' = "TIMEOUT" => timer.status = "elapsed"
      /\ next_event' # "COMMAND" /\ internal_event = "FINISHED" => next_event' = "FINISHED"
      /\ next_event' = "FINISHED" => internal_event = "FINISHED"
      /\ next_event' \in state_event_e
  BY <1>1 DEF InputEvent, timer_timeout, IInv, TypeOK, state_event_e
<1>3. internal_event' = IF next_event' = "COMMAND" THEN internal_event ELSE "NONE"
  BY <1>1, <1>2 DEF IInv, TypeOK
<1>4. /\ timer' \in TimerType
      /\ next_event' = "TIMEOUT" => timer' = TimerCleared /\ timer.timeout # 0
      /\ next_event' # "TIMEOUT" => timer'.timeout = timer.timeout
      /\ timer = TimerCleared => timer' = TimerCleared
      /\ timer'.timeout = 0 => timer' = TimerCleared
  BY <1>1, <1>2 DEF IInv, TypeOK, ClearedInv, TimerType, TimerCleared, timer_start, TimerPolled,
                    TimerRunning
<1>5. TypeOK'
  <2>1. input_history' \in Seq(InputType) /\ Len(input_history') <= INPUT_HISTORY_BUFFER_SIZE
    BY <1>1, SaveKeepsHistory DEF ProcessInput, IInv, TypeOK, InputType
  <2>2. QED
    BY <1>1, <1>2, <1>3, <1>4, <2>1 DEF IInv, TypeOK
<1>6. EventInv'
  BY <1>1, <1>2, <1>3, <1>4 DEF EventInv, IInv, TypeOK
<1>7. FinishedInv'
  BY <1>1, <1>2, <1>3 DEF FinishedInv, Taken, IInv
<1>8. DeadlineInv'
  BY <1>1, <1>2, <1>3, <1>4 DEF DeadlineInv, Taken, IInv, TypeOK, TimerCleared, timer_start
<1>9. ClearedInv' /\ OnlyKnownAsserts'
  <2>1. assert_failed = "none"
    BY <1>1 DEF OnlyKnownAsserts, IInv
  <2>2. QED
    BY <1>1, <1>4, <2>1 DEF ClearedInv, OnlyKnownAsserts
<1>10. QED
  BY <1>5, <1>6, <1>7, <1>8, <1>9 DEF IInv

(* Where the program goes on to after a handler; a failed ASSERT must be   *)
(* one of those of OnlyKnownAsserts.                                       *)
LEMMA FinishOk ==
    ASSUME NEW d, Finish("none", d)
    PROVE  pc' = "process_input" /\ assert_failed' = "none" /\ drive' = d
BY DEF Finish

LEMMA FinishFailed ==
    ASSUME NEW failed, failed # "none", NEW d, Finish(failed, d)
    PROVE  pc' = "halted" /\ assert_failed' = failed /\ drive' = Stopped
BY DEF Finish

LEMMA EnterWaitInv == IInv /\ EnterWait => IInv'
<1> SUFFICES ASSUME IInv, EnterWait
             PROVE  IInv'
  OBVIOUS
<1>1. /\ pc = "process_event" /\ state = "WAIT" /\ state' = "WAIT"
      /\ next_event \in {"NONE", "LINE", "ENEMY"}
      /\ UNCHANGED <<next_event, inputs, timer, internal_event, search_state, attack_state,
                     retreat_state, move_idx>>
  BY TransitionRows DEF EnterWait, Dispatch, TimerEntering
<1>2. pc' = "process_input" /\ assert_failed' = "none" /\ drive' = drive
  BY <1>1, FinishOk DEF EnterWait
<1>3. QED
  BY <1>1, <1>2 DEF IInv, TypeOK, EventInv, DeadlineInv, FinishedInv, ClearedInv,
                    OnlyKnownAsserts, Taken, inputs

LEMMA EnterSearchInv == IInv /\ EnterSearch => IInv'
<1> SUFFICES ASSUME IInv, EnterSearch
             PROVE  IInv'
  OBVIOUS
<1>1. /\ pc = "process_event" /\ <<state, next_event>> \in SearchEntries /\ state' = "SEARCH"
      /\ UNCHANGED <<next_event, inputs, internal_event, attack_state, retreat_state, move_idx>>
  BY TransitionRows DEF EnterSearch, Dispatch
<1>2. search_state' \in search_state_e
  BY <1>1 DEF EnterSearch, next_search_state, search_state_e, IInv, TypeOK
<1>3. PICK d \in DriveType : Finish("none", d)
  BY <1>1, HandlerDrives DEF EnterSearch, IInv, TypeOK
<1>4. pc' = "process_input" /\ assert_failed' = "none" /\ drive' \in DriveType
  BY <1>3, FinishOk
<1>5. /\ timer' \in TimerType
      /\ timer'.timeout = SearchTimeout(search_state')
      /\ timer'.timeout # 0
  <2>1. CASE <<state, next_event>> = <<"SEARCH", "NONE">>
    BY <1>1, <2>1 DEF EnterSearch, next_search_state, IInv, TypeOK, DeadlineInv, Taken,
                      SearchTimeout, SEARCH_STATE_ROTATE_TIMEOUT, SEARCH_STATE_FORWARD_TIMEOUT
  <2>2. CASE <<state, next_event>> # <<"SEARCH", "NONE">>
    BY <2>2 DEF EnterSearch, timer_start, TimerType, SearchTimeout,
                SEARCH_STATE_ROTATE_TIMEOUT, SEARCH_STATE_FORWARD_TIMEOUT
  <2>3. QED
    BY <2>1, <2>2
<1>6. internal_event = "NONE"
  BY <1>1 DEF SearchEntries, IInv, TypeOK, EventInv, FinishedInv
<1>7. TypeOK'
  BY <1>1, <1>2, <1>4, <1>5 DEF IInv, TypeOK, inputs, state_e
<1>8. QED
  BY <1>1, <1>4, <1>5, <1>6, <1>7 DEF IInv, EventInv, DeadlineInv, FinishedInv, ClearedInv,
                                      OnlyKnownAsserts, Taken

LEMMA EnterAttackInv == IInv /\ EnterAttack => IInv'
<1> SUFFICES ASSUME IInv, EnterAttack
             PROVE  IInv'
  OBVIOUS
<1>1. /\ pc = "process_event" /\ state' = "ATTACK"
      /\ \/ state \in {"SEARCH", "ATTACK"} /\ next_event = "ENEMY"
         \/ state = "ATTACK" /\ next_event = "TIMEOUT"
      /\ UNCHANGED <<next_event, inputs, internal_event, search_state, retreat_state, move_idx>>
  BY TransitionRows DEF EnterAttack, Dispatch
<1>2. attack_state' \in attack_state_e
  BY DEF EnterAttack, next_attack_state, attack_state_e, IInv, TypeOK
<1>3. internal_event = "NONE"
  BY <1>1 DEF IInv, EventInv
<1>4. CASE next_event = "ENEMY"
  <2>1. AttackAssert = "none"
    BY <1>1, <1>4, DetectedIsLocated DEF AttackAssert, IInv, TypeOK, EventInv
  <2>2. PICK d \in DriveType : Finish("none", d)
    BY <1>2, <2>1, HandlerDrives DEF EnterAttack, IInv, TypeOK
  <2>3. pc' = "process_input" /\ assert_failed' = "none" /\ drive' \in DriveType
    BY <2>2, FinishOk
  <2>4. /\ timer' \in TimerType
        /\ timer'.timeout = ATTACK_STATE_TIMEOUT
    BY <1>1, <1>4, <2>1 DEF EnterAttack, TimerEntering, timer_start, TimerType, IInv, TypeOK,
                            DeadlineInv, Taken
  <2>5. TypeOK'
    BY <1>1, <1>2, <2>3, <2>4 DEF IInv, TypeOK, inputs, state_e
  <2>6. QED
    BY <1>1, <1>3, <2>3, <2>4, <2>5 DEF IInv, EventInv, DeadlineInv, FinishedInv, ClearedInv,
                    OnlyKnownAsserts, Taken, ATTACK_STATE_TIMEOUT
<1>5. CASE next_event = "TIMEOUT"
  <2>1. AttackAssert \in {"next_attack_state", "attack_timeout"}
    BY <1>1, <1>5 DEF AttackAssert
  <2>2. /\ pc' = "halted" /\ drive' = Stopped
        /\ assert_failed' \in {"next_attack_state", "attack_timeout"}
    BY <2>1, FinishFailed DEF EnterAttack
  <2>3. UNCHANGED timer
    BY <1>1, <1>5, <2>1 DEF EnterAttack, TimerEntering
  <2>4. TypeOK'
    BY <1>1, <1>2, <2>2, <2>3 DEF IInv, TypeOK, inputs, state_e, Asserts, DriveType
  <2>5. QED
    BY <1>1, <1>3, <1>5, <2>2, <2>3, <2>4 DEF IInv, EventInv, DeadlineInv, FinishedInv,
                    ClearedInv, OnlyKnownAsserts, Taken
<1>6. QED
  BY <1>1, <1>4, <1>5

(* What state_retreat.c answers to a line it knows is a retreat state.     *)
LEMMA RetreatStates ==
    \A l \in line_e : \A e, s, dir :
        ~Ambiguous(l) => next_retreat_state(l, e, s, dir) \in retreat_state_e
BY DEF line_e, Ambiguous, next_retreat_state, AlignOr, retreat_state_e

LEMMA RetreatRunInv == IInv /\ RetreatRun => IInv'
<1> SUFFICES ASSUME IInv, RetreatRun
             PROVE  IInv'
  OBVIOUS
<1>1. /\ pc = "process_event" /\ state' = "RETREAT" /\ next_event = "LINE" /\ line # "NONE"
      /\ state \in {"SEARCH", "ATTACK", "RETREAT"}
      /\ internal_event = "NONE" /\ move_idx' = 0
      /\ UNCHANGED <<next_event, inputs, internal_event, search_state, attack_state>>
  BY TransitionRows DEF RetreatRun, Dispatch, IInv, EventInv
<1>2. CASE Ambiguous(line)
  <2>1. /\ Finish("next_retreat_state", drive)
        /\ timer' \in {timer, TimerCleared}
        /\ UNCHANGED retreat_state
    BY <1>1, <1>2 DEF RetreatRun, TimerEntering
  <2>2. pc' = "halted" /\ assert_failed' = "next_retreat_state" /\ drive' = Stopped
    BY <2>1, FinishFailed
  <2>3. TypeOK'
    BY <1>1, <2>1, <2>2 DEF IInv, TypeOK, inputs, state_e, Asserts, DriveType, TimerType,
                            TimerCleared, timer_start
  <2>4. QED
    BY <1>1, <1>2, <2>1, <2>2, <2>3 DEF IInv, EventInv, DeadlineInv, FinishedInv, ClearedInv,
                    OnlyKnownAsserts, Taken, Ambiguous, inputs
<1>3. CASE ~Ambiguous(line)
  <2>1. retreat_state' \in retreat_state_e
    BY <1>1, <1>3, RetreatStates DEF RetreatRun, IInv, TypeOK
  <2>2. move_cnt(retreat_state') \in 1 .. 3 /\ MoveAt(retreat_state', 0) \in MoveType
    BY <2>1, RetreatTable
  <2>3. /\ timer' = timer_start(MoveAt(retreat_state', 0).duration)
        /\ Finish("none", Drive(MoveAt(retreat_state', 0).dir, MoveAt(retreat_state', 0).speed))
    BY <1>1, <1>3 DEF RetreatRun
  <2>4. pc' = "process_input" /\ assert_failed' = "none" /\ drive' \in DriveType
    BY <2>2, <2>3, FinishOk, HandlerDrives
  <2>5. /\ timer' \in TimerType
        /\ timer'.timeout = MoveAt(retreat_state', 0).duration
        /\ timer'.timeout # 0
    BY <2>2, <2>3 DEF timer_start, TimerType, MoveType, MoveDurations
  <2>6. TypeOK'
    BY <1>1, <2>1, <2>4, <2>5 DEF IInv, TypeOK, inputs, state_e
  <2>7. QED
    BY <1>1, <2>2, <2>4, <2>5, <2>6 DEF IInv, EventInv, DeadlineInv, FinishedInv, ClearedInv,
                    OnlyKnownAsserts, Taken
<1>4. QED
  BY <1>2, <1>3

LEMMA RetreatNextMoveInv == IInv /\ RetreatNextMove => IInv'
<1> SUFFICES ASSUME IInv, RetreatNextMove
             PROVE  IInv'
  OBVIOUS
<1>1. /\ pc = "process_event" /\ next_event = "TIMEOUT" /\ state = "RETREAT"
      /\ state' = "RETREAT" /\ timer = TimerCleared /\ internal_event = "NONE"
      /\ move_idx' = move_idx + 1
      /\ UNCHANGED <<next_event, inputs, search_state, attack_state, retreat_state>>
  BY TransitionRows DEF RetreatNextMove, Dispatch, IInv, EventInv
<1>2. /\ move_cnt(retreat_state) \in 1 .. 3
      /\ \A i \in 0 .. move_cnt(retreat_state) - 1 : MoveAt(retreat_state, i) \in MoveType
  BY RetreatTable DEF IInv, TypeOK
<1>3. move_idx \in Nat /\ move_idx < move_cnt(retreat_state)
  BY <1>1, <1>2 DEF IInv, TypeOK, DeadlineInv, Taken
<1>4. CASE move_idx' = move_cnt(retreat_state)
  <2>1. internal_event' = "FINISHED" /\ timer' = TimerCleared /\ Finish("none", drive)
    BY <1>1, <1>4 DEF RetreatNextMove, TimerEntering
  <2>2. pc' = "process_input" /\ assert_failed' = "none" /\ drive' = drive
    BY <2>1, FinishOk
  <2>3. TypeOK'
    BY <1>1, <1>2, <1>4, <2>1, <2>2 DEF IInv, TypeOK, inputs, state_e
  <2>4. QED
    BY <1>1, <1>4, <2>1, <2>2, <2>3 DEF IInv, EventInv, DeadlineInv, FinishedInv, ClearedInv,
                    OnlyKnownAsserts, Taken
<1>5. CASE move_idx' # move_cnt(retreat_state)
  <2>1. move_idx' \in 0 .. move_cnt(retreat_state) - 1
    BY <1>1, <1>2, <1>3, <1>5
  <2>2. MoveAt(retreat_state, move_idx') \in MoveType
    BY <1>2, <2>1
  <2>3. /\ timer' = timer_start(MoveAt(retreat_state, move_idx').duration)
        /\ Finish("none", Drive(MoveAt(retreat_state, move_idx').dir,
                                MoveAt(retreat_state, move_idx').speed))
        /\ UNCHANGED internal_event
    BY <1>1, <1>2, <1>5, <2>1 DEF RetreatNextMove
  <2>4. pc' = "process_input" /\ assert_failed' = "none" /\ drive' \in DriveType
    BY <2>2, <2>3, FinishOk, HandlerDrives
  <2>5. /\ timer' \in TimerType
        /\ timer'.timeout = MoveAt(retreat_state, move_idx').duration
        /\ timer'.timeout # 0
    BY <2>2, <2>3 DEF timer_start, TimerType, MoveType, MoveDurations
  <2>6. TypeOK'
    BY <1>1, <1>2, <2>1, <2>3, <2>4, <2>5 DEF IInv, TypeOK, inputs, state_e
  <2>7. QED
    BY <1>1, <1>2, <2>1, <2>3, <2>4, <2>5, <2>6 DEF IInv, EventInv, DeadlineInv, FinishedInv,
                    ClearedInv, OnlyKnownAsserts, Taken
<1>6. QED
  BY <1>4, <1>5

LEMMA RetreatIgnoreInv == IInv /\ RetreatIgnore => IInv'
<1> SUFFICES ASSUME IInv, RetreatIgnore
             PROVE  IInv'
  OBVIOUS
<1>1. /\ pc = "process_event" /\ state = "RETREAT" /\ state' = "RETREAT"
      /\ next_event \in {"ENEMY", "NONE"}
      /\ UNCHANGED <<next_event, inputs, timer, internal_event, search_state, attack_state,
                     retreat_state, move_idx>>
  BY TransitionRows DEF RetreatIgnore, Dispatch, TimerEntering
<1>2. pc' = "process_input" /\ assert_failed' = "none" /\ drive' = drive
  BY <1>1, FinishOk DEF RetreatIgnore
<1>3. QED
  BY <1>1, <1>2 DEF IInv, TypeOK, EventInv, DeadlineInv, FinishedInv, ClearedInv,
                    OnlyKnownAsserts, Taken, inputs

LEMMA EnterManualInv == IInv /\ EnterManual => IInv'
<1> SUFFICES ASSUME IInv, EnterManual
             PROVE  IInv'
  OBVIOUS
<1>1. /\ pc = "process_event" /\ state' = "MANUAL"
      /\ \/ state \in {"SEARCH", "ATTACK", "RETREAT", "MANUAL"} /\ next_event = "COMMAND"
         \/ state = "MANUAL" /\ next_event \in {"NONE", "LINE", "ENEMY"}
      /\ UNCHANGED <<next_event, inputs, internal_event, search_state, attack_state,
                     retreat_state, move_idx>>
  BY TransitionRows DEF EnterManual, Dispatch
<1>2. timer' = TimerCleared
  BY <1>1 DEF EnterManual, TimerEntering, IInv, DeadlineInv
<1>3. PICK d \in DriveType : Finish("none", d)
  BY HandlerDrives DEF EnterManual, IInv, TypeOK
<1>4. pc' = "process_input" /\ assert_failed' = "none" /\ drive' \in DriveType
  BY <1>3, FinishOk
<1>5. TypeOK'
  BY <1>1, <1>2, <1>4 DEF IInv, TypeOK, inputs, state_e, TimerType, TimerCleared, timer_start
<1>6. FinishedInv'
  BY <1>1, <1>4 DEF IInv, FinishedInv, Taken
<1>7. QED
  BY <1>1, <1>2, <1>4, <1>5, <1>6 DEF IInv, EventInv, DeadlineInv, ClearedInv, OnlyKnownAsserts,
                    Taken

LEMMA NoTransitionInv == IInv /\ NoTransition => IInv'
<1> SUFFICES ASSUME IInv, NoTransition
             PROVE  IInv'
  OBVIOUS
<1>1. /\ pc = "process_event" /\ state = "MANUAL" /\ next_event = "FINISHED"
      /\ UNCHANGED <<state, next_event, internal_event, timer, inputs, search_state,
                     attack_state, retreat_state, move_idx>>
  <2>1. \/ state \in {"WAIT", "MANUAL"} /\ next_event = "TIMEOUT"
        \/ state # "RETREAT" /\ next_event = "FINISHED"
    BY MissingRows DEF NoTransition, IInv, TypeOK
  <2>2. QED
    BY <2>1 DEF NoTransition, IInv, DeadlineInv, FinishedInv, Taken
<1>2. pc' = "halted" /\ assert_failed' = "no_transition" /\ drive' = Stopped
  BY FinishFailed DEF NoTransition
<1>3. QED
  BY <1>1, <1>2 DEF IInv, TypeOK, EventInv, DeadlineInv, FinishedInv, ClearedInv,
                    OnlyKnownAsserts, Taken, inputs, Asserts, DriveType

LEMMA TimerElapsesInv == IInv /\ TimerElapses => IInv'
<1> SUFFICES ASSUME IInv, TimerElapses
             PROVE  IInv'
  OBVIOUS
<1>1. /\ pc # "halted" /\ timer.timeout # 0
      /\ timer' = [timer EXCEPT !.status = "elapsed"]
      /\ UNCHANGED <<pc, assert_failed, state, next_event, internal_event, inputs, search_state,
                     attack_state, retreat_state, move_idx, drive>>
  BY DEF TimerElapses, TimerRunning
<1>2. timer' \in TimerType /\ timer'.timeout = timer.timeout
  BY <1>1 DEF IInv, TypeOK, TimerType
<1>3. timer # TimerCleared
  BY <1>1 DEF TimerCleared, timer_start
<1>4. TypeOK'
  BY <1>1, <1>2 DEF IInv, TypeOK, inputs
<1>5. EventInv' /\ FinishedInv' /\ ClearedInv' /\ OnlyKnownAsserts'
  BY <1>1, <1>2, <1>3 DEF IInv, EventInv, FinishedInv, ClearedInv, OnlyKnownAsserts, Taken, inputs
<1>6. DeadlineInv'
  BY <1>1, <1>2, <1>3 DEF IInv, DeadlineInv, Taken
<1>7. QED
  BY <1>4, <1>5, <1>6 DEF IInv

LEMMA StepInv == IInv /\ [Next]_vars => IInv'
<1> SUFFICES ASSUME IInv, [Next]_vars
             PROVE  IInv'
  OBVIOUS
<1>1. CASE ProcessInput
  BY <1>1, ProcessInputInv
<1>2. CASE ProcessEvent
  BY <1>2, EnterWaitInv, EnterSearchInv, EnterAttackInv, RetreatRunInv, RetreatNextMoveInv,
     RetreatIgnoreInv, EnterManualInv, NoTransitionInv DEF ProcessEvent
<1>3. CASE TimerElapses
  BY <1>3, TimerElapsesInv
<1>4. CASE AssertHandler \/ UNCHANGED vars
  BY <1>4 DEF AssertHandler, vars, inputs, IInv, TypeOK, EventInv, DeadlineInv, FinishedInv,
              ClearedInv, OnlyKnownAsserts, Taken
<1>5. QED
  BY <1>1, <1>2, <1>3, <1>4 DEF Next

(* IInv is an invariant.                                                   *)
THEOREM Invariance == Spec => []IInv
BY InitInv, StepInv, PTL DEF Spec

-----------------------------------------------------------------------------
(* The invariants it implies *)

(* Every variable keeps to its type: move_idx stays within the table, and  *)
(* the input history within its buffer.                                    *)
THEOREM TypeCorrectness == Spec => []TypeOK
<1>1. IInv => TypeOK
  BY DEF IInv
<1>2. QED
  BY <1>1, Invariance, PTL

(* The four ASSERTs of OnlyKnownAsserts are the only ones that can fail,   *)
(* each only in the situation it names.                                    *)
THEOREM AssertsKnown == Spec => []OnlyKnownAsserts
<1>1. IInv => OnlyKnownAsserts
  BY DEF IInv
<1>2. QED
  BY <1>1, Invariance, PTL

(* Whatever was sampled, the timer that ends what the robot is doing is    *)
(* running with the duration that belongs to it, or FINISHED is pending.   *)
THEOREM DeadlineAlways == Spec => []Deadline
<1>1. IInv => Deadline
  BY DEF IInv, TypeOK, DeadlineInv, Deadline, Idle, Taken, state_e
<1>2. QED
  BY <1>1, Invariance, PTL

(* FINISHED is pending only after the last move of a retreat.              *)
THEOREM FinishedAfterLastMove == Spec => []FinishedOnlyAfterLastMove
<1>1. IInv => FinishedOnlyAfterLastMove
  BY DEF IInv, FinishedInv, FinishedOnlyAfterLastMove
<1>2. QED
  BY <1>1, Invariance, PTL

-----------------------------------------------------------------------------
(* Action properties *)

(* Nothing but a command starts the robot. Here the motors of a robot that *)
(* waits have to be known as well.                                         *)
StoppedInv ==
    state = "WAIT" => drive = Stopped /\ internal_event = "NONE" /\ search_state = "ROTATE"

LEMMA StoppedStep == IInv /\ StoppedInv /\ [Next]_vars => StoppedInv'
<1> SUFFICES ASSUME IInv, StoppedInv, [Next]_vars, state' = "WAIT"
             PROVE  drive' = Stopped /\ internal_event' = "NONE" /\ search_state' = "ROTATE"
  BY DEF StoppedInv
<1>1. CASE ProcessInput
  BY <1>1 DEF ProcessInput, StoppedInv
<1>2. CASE EnterWait
  BY <1>2, TransitionRows DEF EnterWait, Dispatch, Finish, StoppedInv
<1>3. CASE NoTransition
  BY <1>3 DEF NoTransition, Finish, StoppedInv
<1>4. CASE TimerElapses \/ AssertHandler \/ UNCHANGED vars
  BY <1>4 DEF TimerElapses, AssertHandler, vars, StoppedInv
<1>5. CASE EnterSearch \/ EnterAttack \/ RetreatRun \/ RetreatNextMove \/ RetreatIgnore
             \/ EnterManual
  BY <1>5 DEF EnterSearch, EnterAttack, RetreatRun, RetreatNextMove, RetreatIgnore, EnterManual,
              Dispatch
<1>6. QED
  BY <1>1, <1>2, <1>3, <1>4, <1>5 DEF Next, ProcessEvent

(* A waiting robot is started by a sampled command only, and begins by     *)
(* rotating.                                                               *)
THEOREM StartedByCommand == Spec => StillUntilStarted
<1> DEFINE Started == /\ next_event = "COMMAND" /\ cmd # "NONE"
                      /\ state' = "SEARCH"
                      /\ drive'.dir \in {"ROTATE_LEFT", "ROTATE_RIGHT"}
           Moved == <<state', drive', timer', internal_event'>>
                        # <<"WAIT", Stopped, TimerCleared, "NONE">>
<1>1. Init => StoppedInv
  BY DEF Init, StoppedInv
<1>2. ASSUME IInv, StoppedInv, [Next]_vars, state = "WAIT"
      PROVE  Moved => Started
  <2>1. /\ drive = Stopped /\ internal_event = "NONE" /\ search_state = "ROTATE"
        /\ timer = TimerCleared /\ ~Taken("TIMEOUT") /\ ~Taken("FINISHED")
    <3>1. assert_failed = "none" /\ pc # "halted"
      BY <1>2 DEF IInv, OnlyKnownAsserts
    <3>2. QED
      BY <1>2, <3>1 DEF StoppedInv, IInv, DeadlineInv, FinishedInv
  <2>2. CASE ProcessInput
    BY <1>2, <2>1, <2>2 DEF ProcessInput, TimerPolled, TimerRunning, TimerCleared, timer_start
  <2>3. CASE EnterWait
    BY <1>2, <2>1, <2>3, TransitionRows DEF EnterWait, Dispatch, Finish, TimerEntering
  <2>4. CASE EnterSearch
    <3>1. next_event = "COMMAND" /\ state' = "SEARCH" /\ search_state' = "ROTATE"
      BY <1>2, <2>1, <2>4, TransitionRows DEF EnterSearch, Dispatch, SearchEntries,
                                              next_search_state
    <3>2. cmd # "NONE"
      BY <1>2, <2>4, <3>1 DEF EnterSearch, Dispatch, IInv, EventInv
    <3>3. Finish("none", SearchDrive("ROTATE", input_history))
      BY <1>2, <2>4, <3>1 DEF EnterSearch, SearchEntries
    <3>4. drive'.dir \in {"ROTATE_LEFT", "ROTATE_RIGHT"}
      BY <3>3, FinishOk, HandlerDrives
    <3>5. QED
      BY <3>1, <3>2, <3>4
  <2>5. CASE EnterAttack \/ RetreatRun \/ RetreatNextMove \/ RetreatIgnore \/ EnterManual
    BY <1>2, <2>5, TransitionRows DEF EnterAttack, RetreatRun, RetreatNextMove, RetreatIgnore,
                                      EnterManual, Dispatch
  <2>6. CASE NoTransition
    BY <1>2, <2>1, <2>6, MissingRows DEF NoTransition, Taken, IInv, TypeOK
  <2>7. CASE TimerElapses \/ AssertHandler \/ UNCHANGED vars
    BY <1>2, <2>1, <2>7 DEF TimerElapses, TimerRunning, TimerCleared, timer_start, AssertHandler,
                            vars
  <2>8. QED
    BY <1>2, <2>2, <2>3, <2>4, <2>5, <2>6, <2>7 DEF Next, ProcessEvent
<1>3. IInv /\ StoppedInv /\ [Next]_vars => (state = "WAIT" /\ Moved => Started)
  BY <1>2
<1>4. QED
  BY <1>1, <1>3, StoppedStep, Invariance, PTL DEF Spec, StillUntilStarted

(* MANUAL is never left, and only commands move a robot that is there.     *)
THEOREM ManualIsFinal == Spec => ManualObeysOnlyCommands
<1> DEFINE Obeys == /\ state' = "MANUAL"
                    /\ drive' # drive =>
                           next_event = "COMMAND" \/ (drive' = Stopped /\ pc' = "halted")
<1>1. ASSUME IInv, [Next]_vars, state = "MANUAL"
      PROVE  Obeys
  <2>1. CASE ProcessInput
    BY <1>1, <2>1 DEF ProcessInput
  <2>2. CASE EnterManual
    <3>1. state' = "MANUAL"
      BY <2>2 DEF EnterManual, Dispatch
    <3>2. CASE next_event = "COMMAND"
      BY <3>1, <3>2
    <3>3. CASE next_event # "COMMAND"
      BY <2>2, <3>1, <3>3, FinishOk DEF EnterManual
    <3>4. QED
      BY <3>2, <3>3
  <2>3. CASE EnterWait \/ EnterSearch \/ EnterAttack \/ RetreatRun \/ RetreatNextMove
               \/ RetreatIgnore
    BY <1>1, <2>3, TransitionRows DEF EnterWait, EnterSearch, EnterAttack, RetreatRun,
                       RetreatNextMove, RetreatIgnore, Dispatch, SearchEntries
  <2>4. CASE NoTransition
    BY <1>1, <2>4, FinishFailed DEF NoTransition
  <2>5. CASE TimerElapses \/ AssertHandler \/ UNCHANGED vars
    BY <1>1, <2>5 DEF TimerElapses, AssertHandler, vars
  <2>6. QED
    BY <1>1, <2>1, <2>2, <2>3, <2>4, <2>5 DEF Next, ProcessEvent
<1>2. IInv /\ [Next]_vars => (state = "MANUAL" => Obeys)
  BY <1>1
<1>3. QED
  BY <1>2, Invariance, PTL DEF Spec, ManualObeysOnlyCommands

(* A retreat that is not replaced or interrupted makes all of its moves.   *)
THEOREM RetreatsComplete == Spec => RetreatRunsToItsEnd
<1> DEFINE Complete == /\ move_idx = move_cnt(retreat_state)
                       /\ drive'.dir \in {"ROTATE_LEFT", "ROTATE_RIGHT"}
<1>1. ASSUME IInv, [Next]_vars, state = "RETREAT", state' = "SEARCH"
      PROVE  Complete
  <2>1. EnterSearch
    BY <1>1 DEF Next, ProcessEvent, ProcessInput, EnterWait, EnterAttack, RetreatRun,
                RetreatNextMove, RetreatIgnore, EnterManual, NoTransition, TimerElapses,
                AssertHandler, vars, Dispatch
  <2>2. Taken("FINISHED")
    BY <1>1, <2>1, TransitionRows DEF EnterSearch, Dispatch, SearchEntries, Taken
  <2>3. move_idx = move_cnt(retreat_state)
    BY <1>1, <2>2 DEF IInv, FinishedInv
  <2>4. Finish("none", SearchDrive("ROTATE", input_history))
    BY <1>1, <2>1, <2>2 DEF EnterSearch, SearchEntries, next_search_state, Taken
  <2>5. QED
    BY <2>3, <2>4, FinishOk, HandlerDrives
<1>2. IInv /\ [Next]_vars => (state = "RETREAT" /\ state' = "SEARCH" => Complete)
  BY <1>1
<1>3. QED
  BY <1>2, Invariance, PTL DEF Spec, RetreatRunsToItsEnd

-----------------------------------------------------------------------------
(* The motors *)

(* The move of the retreat the motors make: the current one, or the last   *)
(* one until FINISHED is handled.                                          *)
CurrentMove ==
    MoveAt(retreat_state, IF move_idx = move_cnt(retreat_state) THEN move_idx - 1 ELSE move_idx)

(* MotorsFollowState while an event is about to be handled as well: the    *)
(* enemy sampled is that of the attack only between two iterations.        *)
MotorsInv ==
    /\ pc # "halted" =>
          /\ state = "SEARCH" =>
                 IF search_state = "FORWARD" THEN drive = Drive("FORWARD", "FAST")
                 ELSE drive \in {Drive("ROTATE_LEFT", "FAST"), Drive("ROTATE_RIGHT", "FAST")}
          /\ state = "ATTACK" => drive = AttackDrive(attack_state)
          /\ state = "RETREAT" => drive = Drive(CurrentMove.dir, CurrentMove.speed)
    /\ Idle /\ state = "ATTACK" => EnemyLocated(enemy) /\ attack_state = next_attack_state(enemy)
    /\ Idle /\ next_event = "LINE" /\ state = "RETREAT" => drive.dir \in AwayFrom(line)

(* The first move of a retreat from a line the code knows leads away from it. *)
LEMMA FirstMoveLeadsAway ==
    \A l \in line_e : \A e, s, dir :
        ~Ambiguous(l) => MoveAt(next_retreat_state(l, e, s, dir), 0).dir \in AwayFrom(l)
<1>1. /\ MoveAt("REVERSE", 0).dir = "REVERSE"
      /\ MoveAt("FORWARD", 0).dir = "FORWARD"
      /\ MoveAt("ARCTURN_LEFT", 0).dir = "ARCTURN_SHARP_LEFT"
      /\ MoveAt("ARCTURN_RIGHT", 0).dir = "ARCTURN_SHARP_RIGHT"
      /\ MoveAt("ALIGN_LEFT", 0).dir = "REVERSE"
      /\ MoveAt("ALIGN_RIGHT", 0).dir = "REVERSE"
  BY DEF MoveAt, retreat_states, Move
<1>2. \A rights, lefts : AlignOr(rights, lefts) \in {"ALIGN_RIGHT", "ALIGN_LEFT", "REVERSE"}
  BY DEF AlignOr
<1>3. ASSUME NEW l \in line_e, NEW e, NEW s, NEW dir, ~Ambiguous(l)
      PROVE  /\ l \in {"FRONT", "FRONT_LEFT", "FRONT_RIGHT"} =>
                    next_retreat_state(l, e, s, dir) \in {"ALIGN_RIGHT", "ALIGN_LEFT", "REVERSE"}
             /\ l = "BACK" => next_retreat_state(l, e, s, dir) = "FORWARD"
             /\ l \in {"LEFT", "BACK_LEFT"} =>
                    next_retreat_state(l, e, s, dir) \in {"FORWARD", "ARCTURN_RIGHT"}
             /\ l \in {"RIGHT", "BACK_RIGHT"} =>
                    next_retreat_state(l, e, s, dir) \in {"FORWARD", "ARCTURN_LEFT"}
  BY <1>2 DEF next_retreat_state
<1>4. ASSUME NEW l \in line_e, ~Ambiguous(l)
      PROVE  \/ l \in {"FRONT", "FRONT_LEFT", "FRONT_RIGHT"} \/ l = "BACK"
             \/ l \in {"LEFT", "BACK_LEFT"} \/ l \in {"RIGHT", "BACK_RIGHT"}
  BY <1>4 DEF line_e, Ambiguous
<1>5. QED
  BY <1>1, <1>3, <1>4 DEF AwayFrom

LEMMA SearchMotors ==
    \A h : /\ SearchDrive("FORWARD", h) = Drive("FORWARD", "FAST")
           /\ SearchDrive("ROTATE", h) \in {Drive("ROTATE_LEFT", "FAST"),
                                            Drive("ROTATE_RIGHT", "FAST")}
BY DEF SearchDrive

LEMMA MotorsStep == IInv /\ MotorsInv /\ [Next]_vars => MotorsInv'
<1> SUFFICES ASSUME IInv, MotorsInv, [Next]_vars
             PROVE  MotorsInv'
  OBVIOUS
<1>1. CASE ProcessInput
  BY <1>1 DEF ProcessInput, MotorsInv, Idle, CurrentMove
<1>2. CASE EnterWait
  BY <1>2 DEF EnterWait, Dispatch, MotorsInv, Idle
<1>3. CASE EnterSearch
  <2>1. /\ pc = "process_event" /\ <<state, next_event>> \in SearchEntries /\ state' = "SEARCH"
        /\ search_state' = next_search_state(state, next_event, search_state)
    BY <1>3, TransitionRows DEF EnterSearch, Dispatch
  <2>2. CASE <<state, next_event>> = <<"SEARCH", "NONE">>
    <3>1. search_state' = search_state /\ Finish("none", drive) /\ state = "SEARCH"
      BY <1>3, <2>1, <2>2 DEF EnterSearch, next_search_state
    <3>2. QED
      BY <2>1, <3>1, FinishOk DEF MotorsInv
  <2>3. CASE <<state, next_event>> # <<"SEARCH", "NONE">>
    <3>1. Finish("none", SearchDrive(search_state', input_history))
      BY <1>3, <2>1, <2>3 DEF EnterSearch
    <3>2. search_state' \in {"ROTATE", "FORWARD"}
      BY <2>1 DEF next_search_state, IInv, TypeOK, search_state_e
    <3>3. QED
      BY <2>1, <3>1, <3>2, FinishOk, SearchMotors DEF MotorsInv
  <2>4. QED
    BY <2>2, <2>3
<1>4. CASE EnterAttack
  <2>1. /\ pc = "process_event" /\ state' = "ATTACK"
        /\ \/ state \in {"SEARCH", "ATTACK"} /\ next_event = "ENEMY"
           \/ state = "ATTACK" /\ next_event = "TIMEOUT"
        /\ UNCHANGED <<next_event, inputs>>
    BY <1>4, TransitionRows DEF EnterAttack, Dispatch
  <2>2. CASE next_event = "ENEMY"
    <3>1. EnemyLocated(enemy) /\ AttackAssert = "none"
      BY <2>1, <2>2, DetectedIsLocated DEF AttackAssert, IInv, TypeOK, EventInv
    <3>2. attack_state' = next_attack_state(enemy) /\ enemy' = enemy
      BY <1>4, <2>1, <3>1 DEF EnterAttack, inputs
    <3>3. drive' = AttackDrive(attack_state')
      BY <1>4, <2>1, <3>1, FinishOk DEF EnterAttack, AttackReruns, MotorsInv
    <3>4. QED
      BY <2>1, <3>1, <3>2, <3>3 DEF MotorsInv
  <2>3. CASE next_event = "TIMEOUT"
    <3>1. AttackAssert # "none"
      BY <2>1, <2>3 DEF AttackAssert
    <3>2. pc' = "halted"
      BY <1>4, <3>1 DEF EnterAttack, Finish
    <3>3. QED
      BY <3>2 DEF MotorsInv, Idle
  <2>4. QED
    BY <2>1, <2>2, <2>3
<1>5. CASE RetreatRun
  <2>1. /\ state' = "RETREAT" /\ next_event = "LINE" /\ state \in {"SEARCH", "ATTACK", "RETREAT"}
        /\ move_idx' = 0 /\ UNCHANGED <<next_event, inputs>>
    BY <1>5, TransitionRows DEF RetreatRun, Dispatch
  <2>2. CASE Ambiguous(line)
    <3>1. pc' = "halted"
      BY <1>5, <2>1, <2>2 DEF RetreatRun, Finish
    <3>2. QED
      BY <3>1 DEF MotorsInv, Idle
  <2>3. CASE ~Ambiguous(line)
    <3>1. /\ retreat_state' = next_retreat_state(line, enemy, retreat_state,
                                                 MoveAt(retreat_state, 0).dir)
          /\ Finish("none", Drive(MoveAt(retreat_state', 0).dir, MoveAt(retreat_state', 0).speed))
      BY <1>5, <2>1, <2>3 DEF RetreatRun
    <3>2. retreat_state' \in retreat_state_e
      BY <2>3, <3>1, RetreatStates DEF IInv, TypeOK
    <3>3. move_cnt(retreat_state') # 0
      BY <3>2, RetreatTable
    <3>4. drive' = Drive(MoveAt(retreat_state', 0).dir, MoveAt(retreat_state', 0).speed)
      BY <3>1, FinishOk
    <3>5. CurrentMove' = MoveAt(retreat_state', 0)
      BY <2>1, <3>3 DEF CurrentMove
    <3>6. drive'.dir \in AwayFrom(line')
      BY <2>1, <2>3, <3>1, <3>4, FirstMoveLeadsAway DEF IInv, TypeOK, Drive, inputs
    <3>7. QED
      BY <2>1, <3>4, <3>5, <3>6 DEF MotorsInv
  <2>4. QED
    BY <2>2, <2>3
<1>6. CASE RetreatNextMove
  <2>1. /\ pc = "process_event" /\ next_event = "TIMEOUT" /\ state = "RETREAT"
        /\ state' = "RETREAT" /\ next_event' = "TIMEOUT" /\ internal_event = "NONE"
        /\ move_idx' = move_idx + 1 /\ UNCHANGED retreat_state
    BY <1>6, TransitionRows DEF RetreatNextMove, Dispatch, IInv, EventInv
  <2>2. /\ move_cnt(retreat_state) \in 1 .. 3
        /\ move_idx \in Nat /\ move_idx < move_cnt(retreat_state)
    BY <2>1, RetreatTable DEF IInv, TypeOK, DeadlineInv, Taken
  <2>3. CASE move_idx' = move_cnt(retreat_state)
    <3>1. Finish("none", drive)
      BY <1>6, <2>1, <2>3 DEF RetreatNextMove
    <3>2. drive' = drive
      BY <3>1, FinishOk
    <3>3. CurrentMove' = CurrentMove
      BY <2>1, <2>2, <2>3 DEF CurrentMove
    <3>4. QED
      BY <2>1, <3>2, <3>3 DEF MotorsInv
  <2>4. CASE move_idx' # move_cnt(retreat_state)
    <3>1. Finish("none", Drive(MoveAt(retreat_state, move_idx').dir,
                               MoveAt(retreat_state, move_idx').speed))
      BY <1>6, <2>1, <2>2, <2>4 DEF RetreatNextMove
    <3>2. CurrentMove' = MoveAt(retreat_state, move_idx')
      BY <2>1, <2>4 DEF CurrentMove
    <3>3. QED
      BY <2>1, <3>1, <3>2, FinishOk DEF MotorsInv
  <2>5. QED
    BY <2>3, <2>4
<1>7. CASE RetreatIgnore
  <2>1. /\ pc = "process_event" /\ state = "RETREAT" /\ state' = "RETREAT"
        /\ next_event' # "LINE" /\ UNCHANGED <<retreat_state, move_idx>>
    BY <1>7, TransitionRows DEF RetreatIgnore, Dispatch
  <2>2. pc' # "halted" => drive' = drive
    BY <1>7 DEF RetreatIgnore, Finish
  <2>3. QED
    BY <2>1, <2>2 DEF MotorsInv, CurrentMove
<1>8. CASE EnterManual
  BY <1>8 DEF EnterManual, Dispatch, MotorsInv, Idle
<1>9. CASE NoTransition
  BY <1>9 DEF NoTransition, Finish, MotorsInv, Idle
<1>10. CASE TimerElapses \/ AssertHandler \/ UNCHANGED vars
  BY <1>10 DEF TimerElapses, AssertHandler, vars, inputs, MotorsInv, Idle, CurrentMove
<1>11. QED
  BY <1>1, <1>2, <1>3, <1>4, <1>5, <1>6, <1>7, <1>8, <1>9, <1>10 DEF Next, ProcessEvent

LEMMA MotorsInvariance == Spec => [](IInv /\ MotorsInv)
<1>1. Init => MotorsInv
  BY DEF Init, MotorsInv
<1>2. QED
  BY <1>1, MotorsStep, Invariance, PTL DEF Spec

(* Between two iterations the motors do what the state of the robot asks   *)
(* of them.                                                                *)
THEOREM MotorsDoWhatStateAsks == Spec => []MotorsFollowState
<1>1. IInv /\ MotorsInv => MotorsFollowState
  <2> SUFFICES ASSUME IInv, MotorsInv, Idle
               PROVE  MotorsFollowState
    BY DEF MotorsFollowState
  <2>1. CASE state = "RETREAT"
    <3> DEFINE last == IF move_idx = move_cnt(retreat_state) THEN move_idx - 1 ELSE move_idx
               i == last + 1
    <3>1. /\ move_cnt(retreat_state) \in 1 .. 3
          /\ move_idx \in Nat /\ move_idx <= move_cnt(retreat_state)
      BY <2>1, RetreatTable DEF IInv, TypeOK, DeadlineInv, Idle
    <3>2. /\ i \in 1 .. move_cnt(retreat_state)
          /\ i = move_idx + 1 \/ (i = move_idx /\ i = move_cnt(retreat_state))
      BY <3>1
    <3>3. CurrentMove = retreat_states[retreat_state][i]
      BY DEF CurrentMove, MoveAt
    <3>4. drive = Drive(CurrentMove.dir, CurrentMove.speed)
      BY <2>1 DEF MotorsInv, Idle
    <3>5. /\ drive.dir = retreat_states[retreat_state][i].dir
          /\ drive.speed = retreat_states[retreat_state][i].speed
      BY <3>3, <3>4 DEF Drive
    <3>6. QED
      BY <2>1, <3>2, <3>5 DEF MotorsFollowState
  <2>2. CASE state # "RETREAT"
    BY <2>2 DEF MotorsFollowState, MotorsInv, Idle
  <2>3. QED
    BY <2>1, <2>2
<1>2. QED
  BY <1>1, MotorsInvariance, PTL

(* An iteration that reacts to a line leaves the robot moving away from it. *)
THEOREM LeavesLine == Spec => []MovesAwayFromLine
<1>1. MotorsInv => MovesAwayFromLine
  BY DEF MotorsInv, MovesAwayFromLine
<1>2. QED
  BY <1>1, MotorsInvariance, PTL

-----------------------------------------------------------------------------
(* The refinement of Strategy *)

(* The rest of a row of the retreat table: nothing after its last move,    *)
(* otherwise the next move and what is left after it.                      *)
LEMMA RestOfRetreat ==
    ASSUME NEW s \in retreat_state_e, NEW i \in 0 .. move_cnt(s)
    PROVE  LET Rest(j) == SubSeq(MovesOf(s), j + 1, move_cnt(s))
           IN  /\ Rest(0) = MovesOf(s)
               /\ i = move_cnt(s) => Rest(i) = << >>
               /\ i # move_cnt(s) => /\ Rest(i) # << >>
                                     /\ Head(Rest(i)) = Drive(MoveAt(s, i).dir, MoveAt(s, i).speed)
                                     /\ Tail(Rest(i)) = Rest(i + 1)
<1> DEFINE cnt == move_cnt(s)
           Rest(j) == SubSeq(MovesOf(s), j + 1, cnt)
<1>1. cnt \in 1 .. 3 /\ \A j \in 0 .. cnt - 1 : MoveAt(s, j) \in MoveType
  BY RetreatTable
<1>2. \A j \in 1 .. cnt : /\ MovesOf(s)[j] = Drive(MoveAt(s, j - 1).dir, MoveAt(s, j - 1).speed)
                          /\ MovesOf(s)[j] \in DriveType
  <2> SUFFICES ASSUME NEW j \in 1 .. cnt
               PROVE  /\ MovesOf(s)[j] = Drive(MoveAt(s, j - 1).dir, MoveAt(s, j - 1).speed)
                      /\ MovesOf(s)[j] \in DriveType
    OBVIOUS
  <2>1. j - 1 \in 0 .. cnt - 1 /\ (j - 1) + 1 = j
    BY <1>1
  <2>2. MovesOf(s)[j] = Drive(MoveAt(s, j - 1).dir, MoveAt(s, j - 1).speed)
    BY <2>1 DEF MovesOf, MoveAt
  <2>3. QED
    BY <1>1, <2>1, <2>2, HandlerDrives
<1>3. MovesOf(s) \in Seq(DriveType) /\ Len(MovesOf(s)) = cnt
  BY <1>1, <1>2 DEF MovesOf
<1>4. Rest(0) = MovesOf(s)
  BY <1>3, SubSeqFull
<1>5. i = cnt => Rest(i) = << >>
  BY <1>1, SubSeqEmpty
<1>6. ASSUME i # cnt
      PROVE  /\ Rest(i) # << >>
             /\ Head(Rest(i)) = Drive(MoveAt(s, i).dir, MoveAt(s, i).speed)
             /\ Tail(Rest(i)) = Rest(i + 1)
  <2>1. i + 1 \in 1 .. cnt /\ cnt \in i + 1 .. cnt /\ (i + 1) - 1 = i
    BY <1>1, <1>6
  <2>2. Head(Rest(i)) = MovesOf(s)[i + 1] /\ Tail(Rest(i)) = Rest(i + 1)
    BY <1>3, <2>1, HeadTailOfSubSeq
  <2>3. \A j \in i + 1 .. cnt : MovesOf(s)[j] \in DriveType
    BY <1>2, <2>1
  <2>4. Len(Rest(i)) = cnt - (i + 1) + 1
    BY <2>1, <2>3, SubSeqProperties
  <2>5. Rest(i) # << >>
    <3>1. cnt - (i + 1) + 1 # 0
      BY <1>1, <2>1
    <3>2. Len(Rest(i)) # 0
      BY <2>4, <3>1
    <3>3. QED
      BY <3>2, EmptySeq
  <2>6. QED
    BY <1>2, <2>1, <2>2, <2>5
<1>7. QED
  BY <1>4, <1>5, <1>6

LEMMA InitRefines == Init => S!Init
BY DEF Init, S!Init, AbstractMode, AbstractPlan, ModeOf

(* Every iteration is a step of the strategy, or changes nothing of it.    *)
LEMMA StepRefines ==
    ASSUME IInv, MotorsInv, StoppedInv, MotorsInv', [Next]_vars
    PROVE  [S!Next]_<<AbstractMode, drive, AbstractPlan>>
<1> USE DEF ModeOf
<1> DEFINE Same == UNCHANGED <<AbstractMode, drive, AbstractPlan>>
           Rotations == {Drive("ROTATE_LEFT", "FAST"), Drive("ROTATE_RIGHT", "FAST")}
<1>1. CASE ProcessInput \/ TimerElapses \/ AssertHandler \/ UNCHANGED vars
  <2>1. Same
    BY <1>1 DEF ProcessInput, TimerElapses, AssertHandler, vars, AbstractMode, AbstractPlan
  <2>2. QED
    BY <2>1
<1>2. CASE EnterWait
  <2>1. /\ pc = "process_event" /\ pc' = "process_input" /\ state = "WAIT" /\ state' = "WAIT"
        /\ drive' = drive
    BY <1>2, TransitionRows, FinishOk DEF EnterWait, Dispatch
  <2>2. Same
    BY <2>1 DEF AbstractMode, AbstractPlan
  <2>3. QED
    BY <2>2
<1>3. CASE EnterSearch
  <2>1. /\ pc = "process_event" /\ <<state, next_event>> \in SearchEntries /\ state' = "SEARCH"
        /\ search_state' = next_search_state(state, next_event, search_state)
        /\ UNCHANGED <<retreat_state, move_idx>>
    BY <1>3, TransitionRows DEF EnterSearch, Dispatch
  <2>2. /\ pc' = "process_input"
        /\ IF <<state, next_event>> = <<"SEARCH", "NONE">> THEN drive' = drive
           ELSE drive' = SearchDrive(search_state', input_history)
    BY <1>3, <2>1, FinishOk DEF EnterSearch
  <2>3. /\ AbstractMode = ModeOf[state] /\ AbstractMode' = "searching"
        /\ AbstractPlan' = << >>
        /\ state # "RETREAT" => AbstractPlan = << >>
    BY <2>1, <2>2 DEF AbstractMode, AbstractPlan, SearchEntries
  <2>4. IF search_state' = "FORWARD" THEN drive' = Drive("FORWARD", "FAST")
                                     ELSE drive' \in Rotations
    BY <2>1, <2>2 DEF MotorsInv
  <2>5. CASE <<state, next_event>> = <<"SEARCH", "NONE">>
    BY <2>1, <2>2, <2>3, <2>5
  <2>6. CASE <<state, next_event>> = <<"SEARCH", "TIMEOUT">>
    <3>1. IF search_state = "FORWARD" THEN drive = Drive("FORWARD", "FAST")
                                      ELSE drive \in Rotations
      BY <2>1, <2>6 DEF MotorsInv
    <3>2. search_state' = IF search_state = "ROTATE" THEN "FORWARD" ELSE "ROTATE"
      BY <2>1, <2>6 DEF next_search_state
    <3>3. search_state \in {"ROTATE", "FORWARD"}
      BY DEF IInv, TypeOK, search_state_e
    <3>4. IF drive = Drive("FORWARD", "FAST") THEN drive' \in Rotations
                                              ELSE drive' = Drive("FORWARD", "FAST")
      BY <2>4, <3>1, <3>2, <3>3 DEF Drive
    <3>5. S!Sweep
      BY <2>3, <2>6, <3>4 DEF S!Sweep
    <3>6. QED
      BY <3>5 DEF S!Next
  <2>7. CASE <<state, next_event>> = <<"WAIT", "COMMAND">>
    <3>1. search_state' = "ROTATE"
      BY <2>1, <2>7 DEF next_search_state, StoppedInv
    <3>2. S!Start
      BY <2>3, <2>4, <2>7, <3>1 DEF S!Start
    <3>3. QED
      BY <3>2 DEF S!Next
  <2>8. CASE <<state, next_event>> = <<"ATTACK", "NONE">>
    <3>1. S!LoseEnemy
      BY <2>3, <2>4, <2>8 DEF S!LoseEnemy
    <3>2. QED
      BY <3>1 DEF S!Next
  <2>9. CASE <<state, next_event>> = <<"RETREAT", "FINISHED">>
    <3>1. search_state' = "ROTATE"
      BY <2>1, <2>9 DEF next_search_state
    <3>2. retreat_state \in retreat_state_e /\ move_cnt(retreat_state) \in 1 .. 3
      BY RetreatTable DEF IInv, TypeOK
    <3>3. move_idx = move_cnt(retreat_state)
      BY <2>1, <2>9 DEF IInv, FinishedInv, Taken
    <3>4. AbstractPlan = << >>
      BY <2>3, <2>9, <3>2, <3>3, RestOfRetreat DEF AbstractPlan
    <3>5. S!Escaped
      BY <2>3, <2>4, <2>9, <3>1, <3>4 DEF S!Escaped
    <3>6. QED
      BY <3>5 DEF S!Next
  <2>10. QED
    BY <2>1, <2>5, <2>6, <2>7, <2>8, <2>9 DEF SearchEntries
<1>4. CASE EnterAttack
  <2>1. /\ pc = "process_event" /\ state' = "ATTACK"
        /\ \/ state \in {"SEARCH", "ATTACK"} /\ next_event = "ENEMY"
           \/ state = "ATTACK" /\ next_event = "TIMEOUT"
    BY <1>4, TransitionRows DEF EnterAttack, Dispatch
  <2>2. /\ AbstractMode \in {"searching", "attacking"}
        /\ AbstractPlan = << >> /\ AbstractPlan' = << >>
    BY <2>1 DEF AbstractMode, AbstractPlan
  <2>3. CASE next_event = "ENEMY"
    <3>1. AttackAssert = "none" /\ EnemyLocated(enemy)
      BY <2>1, <2>3, DetectedIsLocated DEF AttackAssert, IInv, TypeOK, EventInv
    <3>2. pc' = "process_input"
      BY <1>4, <3>1 DEF EnterAttack, Finish
    <3>3. drive' = AttackDrive(attack_state') /\ AbstractMode' = "attacking"
      BY <2>1, <3>2 DEF MotorsInv, AbstractMode
    <3>4. attack_state' \in attack_state_e
      BY <1>4, <3>1 DEF EnterAttack, next_attack_state, attack_state_e
    <3>5. S!Attack
      BY <2>2, <3>3, <3>4 DEF S!Attack
    <3>6. QED
      BY <3>5 DEF S!Next
  <2>4. CASE next_event = "TIMEOUT"
    <3>1. AttackAssert # "none"
      BY <2>1, <2>4 DEF AttackAssert
    <3>2. pc' = "halted" /\ drive' = Stopped
      BY <1>4, <3>1 DEF EnterAttack, Finish
    <3>3. S!Die
      BY <2>2, <3>2 DEF S!Die, AbstractMode, AbstractPlan
    <3>4. QED
      BY <3>3 DEF S!Next
  <2>5. QED
    BY <2>1, <2>3, <2>4
<1>5. CASE RetreatRun
  <2>1. /\ pc = "process_event" /\ state' = "RETREAT" /\ next_event = "LINE"
        /\ state \in {"SEARCH", "ATTACK", "RETREAT"} /\ move_idx' = 0
    BY <1>5, TransitionRows DEF RetreatRun, Dispatch
  <2>2. AbstractMode \in {"searching", "attacking", "escaping"}
    BY <2>1 DEF AbstractMode
  <2>3. CASE Ambiguous(line)
    <3>1. pc' = "halted" /\ drive' = Stopped
      BY <1>5, <2>1, <2>3 DEF RetreatRun, Finish
    <3>2. S!Die
      BY <2>2, <3>1 DEF S!Die, AbstractMode, AbstractPlan
    <3>3. QED
      BY <3>2 DEF S!Next
  <2>4. CASE ~Ambiguous(line)
    <3>1. /\ retreat_state' = next_retreat_state(line, enemy, retreat_state,
                                                 MoveAt(retreat_state, 0).dir)
          /\ Finish("none", Drive(MoveAt(retreat_state', 0).dir, MoveAt(retreat_state', 0).speed))
      BY <1>5, <2>1, <2>4 DEF RetreatRun
    <3>2. retreat_state' \in retreat_state_e
      BY <2>4, <3>1, RetreatStates DEF IInv, TypeOK
    <3>3. /\ pc' = "process_input"
          /\ drive' = Drive(MoveAt(retreat_state', 0).dir, MoveAt(retreat_state', 0).speed)
      BY <3>1, FinishOk
    <3>4. AbstractMode' = "escaping"
      BY <2>1, <3>3 DEF AbstractMode
    <3>5. AbstractPlan' = SubSeq(MovesOf(retreat_state'), 0 + 1, move_cnt(retreat_state'))
      BY <2>1, <3>4 DEF AbstractPlan
    <3>6. 0 \in 0 .. move_cnt(retreat_state') /\ move_cnt(retreat_state') # 0
      BY <3>2, RetreatTable
    <3>7. /\ AbstractPlan' = MovesOf(retreat_state')
          /\ Head(AbstractPlan') = drive'
      BY <3>2, <3>3, <3>5, <3>6, RestOfRetreat
    <3>8. S!Escape
      BY <2>2, <3>2, <3>4, <3>7 DEF S!Escape
    <3>9. QED
      BY <3>8 DEF S!Next
  <2>5. QED
    BY <2>3, <2>4
<1>6. CASE RetreatNextMove
  <2> DEFINE Rest(j) == SubSeq(MovesOf(retreat_state), j + 1, move_cnt(retreat_state))
  <2>1. /\ pc = "process_event" /\ next_event = "TIMEOUT" /\ state = "RETREAT"
        /\ state' = "RETREAT" /\ internal_event = "NONE"
        /\ move_idx' = move_idx + 1 /\ retreat_state' = retreat_state
    BY <1>6, TransitionRows DEF RetreatNextMove, Dispatch, IInv, EventInv
  <2>2. /\ retreat_state \in retreat_state_e /\ move_cnt(retreat_state) \in 1 .. 3
        /\ move_idx \in 0 .. move_cnt(retreat_state) /\ move_idx # move_cnt(retreat_state)
        /\ move_idx + 1 \in 0 .. move_cnt(retreat_state)
    BY <2>1, RetreatTable DEF IInv, TypeOK, DeadlineInv, Taken
  <2>3. pc' = "process_input"
    BY <1>6, <2>1, <2>2 DEF RetreatNextMove, Finish
  <2>4. /\ AbstractMode = "escaping" /\ AbstractMode' = "escaping"
        /\ AbstractPlan = Rest(move_idx) /\ AbstractPlan' = Rest(move_idx + 1)
    BY <2>1, <2>3 DEF AbstractMode, AbstractPlan
  <2>5. AbstractPlan # << >> /\ AbstractPlan' = Tail(AbstractPlan)
    BY <2>2, <2>4, RestOfRetreat
  <2>6. drive' = IF AbstractPlan' = << >> THEN drive ELSE Head(AbstractPlan')
    <3>1. CASE move_idx + 1 = move_cnt(retreat_state)
      <4>1. drive' = drive
        BY <1>6, <2>1, <3>1 DEF RetreatNextMove, Finish
      <4>2. AbstractPlan' = << >>
        BY <2>2, <2>4, <3>1, RestOfRetreat
      <4>3. QED
        BY <4>1, <4>2
    <3>2. CASE move_idx + 1 # move_cnt(retreat_state)
      <4>1. drive' = Drive(MoveAt(retreat_state, move_idx + 1).dir,
                           MoveAt(retreat_state, move_idx + 1).speed)
        BY <1>6, <2>1, <2>2, <3>2 DEF RetreatNextMove, Finish
      <4>2. AbstractPlan' # << >> /\ Head(AbstractPlan') = drive'
        BY <2>2, <2>4, <3>2, <4>1, RestOfRetreat
      <4>3. QED
        BY <4>2
    <3>3. QED
      BY <3>1, <3>2
  <2>7. S!NextMove
    BY <2>4, <2>5, <2>6 DEF S!NextMove
  <2>8. QED
    BY <2>7 DEF S!Next
<1>7. CASE RetreatIgnore
  <2>1. /\ pc = "process_event" /\ state = "RETREAT" /\ state' = "RETREAT"
        /\ next_event \in {"ENEMY", "NONE"} /\ UNCHANGED <<retreat_state, move_idx>>
    BY <1>7, TransitionRows DEF RetreatIgnore, Dispatch
  <2>2. pc' = "process_input" /\ drive' = drive
    BY <1>7, <2>1 DEF RetreatIgnore, Finish
  <2>3. Same
    BY <2>1, <2>2 DEF AbstractMode, AbstractPlan
  <2>4. QED
    BY <2>3
<1>8. CASE EnterManual
  <2>1. /\ pc = "process_event" /\ state' = "MANUAL" /\ state \in state_e /\ state # "WAIT"
    BY <1>8, TransitionRows DEF EnterManual, Dispatch, IInv, TypeOK
  <2>2. pc' = "process_input" /\ drive' \in {ManualDrive(cmd), drive}
    BY <1>8 DEF EnterManual, Finish
  <2>3. /\ AbstractMode \notin {"waiting", "dead"} /\ AbstractMode' = "remote"
        /\ AbstractPlan' = << >>
    BY <2>1, <2>2 DEF AbstractMode, AbstractPlan, state_e
  <2>4. ManualDrive(cmd) \in {Stopped, drive} \cup
            [dir : {"FORWARD", "REVERSE", "ROTATE_LEFT", "ROTATE_RIGHT"}, speed : {"MAX"}]
    BY DEF ManualDrive, Drive
  <2>5. S!TakeOver
    BY <2>2, <2>3, <2>4 DEF S!TakeOver
  <2>6. QED
    BY <2>5 DEF S!Next
<1>9. CASE NoTransition
  <2>1. pc = "process_event" /\ state = "MANUAL"
    <3>1. \/ state \in {"WAIT", "MANUAL"} /\ next_event = "TIMEOUT"
          \/ state # "RETREAT" /\ next_event = "FINISHED"
      BY <1>9, MissingRows DEF NoTransition, IInv, TypeOK
    <3>2. QED
      BY <1>9, <3>1 DEF NoTransition, IInv, DeadlineInv, FinishedInv, Taken
  <2>2. pc' = "halted" /\ drive' = Stopped
    BY <1>9 DEF NoTransition, Finish
  <2>3. S!Die
    BY <2>1, <2>2 DEF S!Die, AbstractMode, AbstractPlan
  <2>4. QED
    BY <2>3 DEF S!Next
<1>10. QED
  BY <1>1, <1>2, <1>3, <1>4, <1>5, <1>6, <1>7, <1>8, <1>9 DEF Next, ProcessEvent

(* With its events, timer, history and tables hidden, the state machine is *)
(* an implementation of the strategy.                                      *)
THEOREM Refinement == Spec => ImplementsStrategy
<1>1. Init => StoppedInv
  BY DEF Init, StoppedInv
<1>2. IInv /\ MotorsInv /\ StoppedInv /\ MotorsInv' /\ [Next]_vars
          => [S!Next]_<<AbstractMode, drive, AbstractPlan>>
  BY StepRefines
<1>3. QED
  BY <1>1, <1>2, InitRefines, StoppedStep, MotorsInvariance, PTL
  DEF Spec, ImplementsStrategy, S!Spec, S!strategyVars

=============================================================================
