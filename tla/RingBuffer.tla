----------------------------- MODULE RingBuffer -----------------------------
(***************************************************************************)
(* common/ring_buffer.c: the circular buffer the input history, the IR     *)
(* remote and the UART are built on. Slots and indices are those of the C  *)
(* code, counted from 0. Every operation runs without interruption here;   *)
(* IrPort2.tla is about an interrupt between its statements.               *)
(***************************************************************************)
EXTENDS Naturals, Sequences

CONSTANTS Data,        \* elements
          Zero,        \* what an unwritten slot holds
          buffer_size  \* less than UINT8_MAX, by the static_assert of RING_BUFFER

ASSUME BufferSizeAssumption == buffer_size \in Nat \ {0} /\ buffer_size < 255

VARIABLES buffer, head_idx, tail_idx, full

rbVars == <<buffer, head_idx, tail_idx, full>>

Slots == 0 .. buffer_size - 1

RBInit ==
    /\ buffer = [i \in Slots |-> Zero]
    /\ head_idx = 0
    /\ tail_idx = 0
    /\ full = FALSE

(* The increment without modulo of put and get. *)
Incremented(idx) == IF idx + 1 = buffer_size THEN 0 ELSE idx + 1

ring_buffer_empty == ~full /\ head_idx = tail_idx

(* A put on a full buffer first gets (and drops) the oldest element. *)
TailAfterPut == IF full THEN Incremented(tail_idx) ELSE tail_idx

(* Mutant: a buffer that fills up is not marked as full. *)
ring_buffer_put_full_never(d) ==
    /\ buffer' = [buffer EXCEPT ![head_idx] = d]
    /\ tail_idx' = TailAfterPut
    /\ head_idx' = Incremented(head_idx)
    /\ full' = FALSE

ring_buffer_put(d) ==
    /\ buffer' = [buffer EXCEPT ![head_idx] = d]
    /\ tail_idx' = TailAfterPut
    /\ head_idx' = Incremented(head_idx)
    /\ full' = (head_idx' = tail_idx')

(* Every caller checks that there is something to get; the ASSERT on an    *)
(* empty buffer is this guard.                                             *)
ring_buffer_get ==
    /\ ~ring_buffer_empty
    /\ tail_idx' = Incremented(tail_idx)
    /\ full' = FALSE
    /\ UNCHANGED <<buffer, head_idx>>

ring_buffer_peek_tail == buffer[tail_idx]

(* The slot of the newest element but offset; the code adds buffer_size to *)
(* a negative index.                                                       *)
PeekIndex(offset) ==
    IF head_idx >= offset + 1 THEN head_idx - 1 - offset
    ELSE buffer_size + head_idx - 1 - offset

ring_buffer_peek_head(offset) == buffer[PeekIndex(offset)]

(* As coded: the last branch counts one element too many. *)
ring_buffer_count ==
    IF full THEN buffer_size
    ELSE IF tail_idx <= head_idx THEN head_idx - tail_idx
    ELSE (buffer_size - tail_idx) + head_idx + 1

-----------------------------------------------------------------------------
(* The elements between tail and head. *)
Occupied ==
    IF full THEN buffer_size
    ELSE IF tail_idx <= head_idx THEN head_idx - tail_idx
    ELSE buffer_size - tail_idx + head_idx

SlotAt(i) == IF tail_idx + i < buffer_size THEN tail_idx + i ELSE tail_idx + i - buffer_size

Contents == [i \in 1 .. Occupied |-> buffer[SlotAt(i - 1)]]

F == INSTANCE Fifo WITH queue <- Contents, Capacity <- buffer_size

(* The buffer is a FIFO that drops its oldest element when full            *)
(* (ring_buffer.h:8).                                                      *)
ImplementsFifo == F!FifoSpec

=============================================================================
