---------------------------- MODULE InputHistory ----------------------------
(***************************************************************************)
(* app/input_history.c over the ring buffer of common/ring_buffer.c, seen  *)
(* as the bounded sequence it holds (oldest element first). RingBuffer.tla *)
(* is the buffer itself, and HistoryBuffer.tla shows (SavesAsSequence)     *)
(* that this client of it sees exactly this sequence.                      *)
(***************************************************************************)
EXTENDS Naturals, Sequences, Enemy, Line
LOCAL INSTANCE SequencesExt

InputType == [enemy : EnemyType, line : line_e]

NothingDetected(input) == input.enemy.position = "NONE" /\ input.line = "NONE"

(* Mutant: the oldest element is not dropped. *)
PutUnbounded(history, input, size) == Append(history, input)

(* ring_buffer_put on a buffer of the given size: a full buffer loses its  *)
(* oldest element.                                                         *)
PutDropOldest(history, input, size) ==
    Append(IF Len(history) = size THEN Tail(history) ELSE history, input)

(* Nothing detected and a repetition of the newest entry are not saved.    *)
input_history_save(history, input, size) ==
    IF NothingDetected(input) \/ (history # << >> /\ history[Len(history)] = input)
    THEN history
    ELSE PutDropOldest(history, input, size)

Directed(input) == enemy_at_left(input.enemy) \/ enemy_at_right(input.enemy)

(* The enemy of the newest entry that has one at the left or at the right. *)
input_history_last_directed_enemy(history) ==
    LET newest == SelectLastInSeq(history, Directed)
    IN  IF newest = 0 THEN EnemyNone ELSE history[newest].enemy

=============================================================================
