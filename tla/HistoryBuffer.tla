--------------------------- MODULE HistoryBuffer ---------------------------
(***************************************************************************)
(* app/input_history.c on top of the ring buffer of RingBuffer.tla:        *)
(* input_history_save, the only operation of the state machine on its      *)
(* input history, and the search for the last directed enemy as the loop   *)
(* over offsets that the code runs. last_seen and undirected record what   *)
(* was sampled, whether or not it is still in the buffer.                  *)
(***************************************************************************)
EXTENDS RingBuffer, InputHistory

VARIABLES last_seen,   \* the last directed enemy sampled, EnemyNone before any
          undirected   \* entries saved since, up to buffer_size

historyVars == <<rbVars, last_seen, undirected>>

ASSUME HistoryDataAssumption == Data = InputType

HistoryInit == RBInit /\ last_seen = EnemyNone /\ undirected = 0

(* Mutant: the comparison with the newest entry is left out. *)
Skipped_only_nothing(input) == NothingDetected(input)

Skipped(input) ==
    \/ NothingDetected(input)
    \/ ring_buffer_count # 0 /\ ring_buffer_peek_head(0) = input

Save(input) ==
    /\ IF Skipped(input) THEN UNCHANGED rbVars ELSE ring_buffer_put(input)
    /\ last_seen' = IF Directed(input) THEN input.enemy ELSE last_seen
    /\ undirected' = IF Directed(input) THEN 0
                     ELSE IF Skipped(input) \/ undirected = buffer_size THEN undirected
                     ELSE undirected + 1

(* Mutant: the search starts at the oldest entry. *)
Nearest_oldest(offsets) == CHOOSE k \in offsets : \A j \in offsets : j <= k

(* The first offset of a set, from the newest entry on. *)
Nearest(offsets) == CHOOSE k \in offsets : \A j \in offsets : k <= j

(* The loop of input_history_last_directed_enemy. *)
last_directed_enemy ==
    LET offsets == {k \in 0 .. buffer_size - 1 :
                        k < ring_buffer_count /\ Directed(ring_buffer_peek_head(k))}
    IN  IF offsets = {} THEN EnemyNone ELSE ring_buffer_peek_head(Nearest(offsets)).enemy

-----------------------------------------------------------------------------
(* The loop finds the enemy that was last seen on a side as long as the    *)
(* entries saved since leave room for it in the buffer.                    *)
RemembersLastSide ==
    undirected < buffer_size => last_directed_enemy = last_seen

=============================================================================
