---------------------------- MODULE MCRingBuffer ----------------------------
(* Model checking RingBuffer: four slots, so that the indices run modulo 8; *)
(* requests of up to five elements, one more than the buffer holds.         *)
EXTENDS RingBuffer, PowerOfTwo

\* The queue a ring buffer stands for: the slots between the two indices.
Fifo == INSTANCE BoundedFifo WITH
  Capacity <- bufferSize,
  queue <- [k \in 1 .. get_ring_buffer_read_available |-> buffer[SmallMask(readIndex + k - 1)]],
  nextNo <- nPut

\* The ring buffer implements an atomic bounded FIFO: a put takes effect when
\* advance_ring_buffer_write_index stores the index, a get or skip when
\* advance_ring_buffer_read_index does; every other step leaves the queue alone.
RefinesBoundedFifo == Fifo!Spec

RoundedUp == [n \in Words |-> RoundUp(n)]

\* The constructor's size is the smallest power of two that holds the elementCount it is
\* asked for, and 0 beyond half of the word's range, where the increment overflows.  So a
\* buffer made for n elements can hold them, and never holds twice as many.
SmallestPowerOfTwo ==
  \A n \in Words :
    IF n > 2 ^ (Width - 1)
      THEN RoundedUp[n] = 0
      ELSE /\ \E e \in 0 .. Width - 1 : RoundedUp[n] = 2 ^ e
           /\ n <= RoundedUp[n]
           /\ n > 0 /\ RoundedUp[n] = bufferSize => get_ring_buffer_read_available < 2 * n
           /\ n > 1 => RoundedUp[n] < 2 * n
=============================================================================
