-------------------------------- MODULE Fifo --------------------------------
(***************************************************************************)
(* What common/ring_buffer.h promises: a FIFO of at most Capacity          *)
(* elements, in which a put on a full buffer pushes the oldest one out.    *)
(***************************************************************************)
EXTENDS Naturals, Sequences

CONSTANTS Data, Capacity

VARIABLE queue   \* oldest element first

FifoInit == queue = << >>

FifoPut(d) == queue' = Append(IF Len(queue) = Capacity THEN Tail(queue) ELSE queue, d)

FifoGet == queue # << >> /\ queue' = Tail(queue)

FifoNext == FifoGet \/ \E d \in Data : FifoPut(d)

FifoSpec == FifoInit /\ [][FifoNext]_queue

=============================================================================
