----------------------------- MODULE Perception -----------------------------
(***************************************************************************)
(* From measurements to the input history: what every iteration does with  *)
(* its inputs in process_input, sampling the sensors, deciding where the   *)
(* enemy and the line are, and saving both in the history.                 *)
(***************************************************************************)
EXTENDS HistoryBuffer, Sensing

CONSTANTS Surroundings,       \* measurements <<ranges, voltages>> to begin with
          LaterSurroundings   \* and in the iterations that follow

ASSUME SurroundingsAssumption ==
    Surroundings \cup LaterSurroundings \subseteq RangesType \X VoltagesType

perceptionVars == <<historyVars, ranges, voltages>>

PerceptionInit ==
    /\ HistoryInit
    /\ \E s \in Surroundings : ranges = s[1] /\ voltages = s[2]

Iteration ==
    /\ Save(Sampled)
    /\ \E s \in LaterSurroundings : ranges' = s[1] /\ voltages' = s[2]

PerceptionSpec == PerceptionInit /\ [][Iteration]_perceptionVars

-----------------------------------------------------------------------------
(* On this client the ring buffer is the sequence InputHistory.tla works   *)
(* on, and which StateMachine uses: every iteration's save is              *)
(* input_history_save of that module.                                      *)
SavesAsSequence ==
    [][Contents' = input_history_save(Contents, Sampled, buffer_size)]_perceptionVars

=============================================================================
