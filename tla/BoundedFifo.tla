---------------------------- MODULE BoundedFifo ----------------------------
(***************************************************************************)
(* What a ring buffer promises to its two threads: a queue of at most      *)
(* `Capacity' elements, to which a put appends a run of elements in one    *)
(* atomic step and from which a get or skip removes a run from the front.  *)
(* Elements are numbered in the order of the puts.                         *)
(***************************************************************************)
EXTENDS Integers, Sequences

CONSTANT Capacity

VARIABLES
  queue,   \* the elements put and not yet taken
  nextNo   \* number of the next element to be put

Init == queue = <<>> /\ nextNo = 0

\* The elements first, first + 1, ..., first + n - 1
Run(first, n) == [i \in 1 .. n |-> first + i - 1]

Put(n) ==
  /\ Len(queue) + n <= Capacity
  /\ queue' = queue \o Run(nextNo, n)
  /\ nextNo' = nextNo + n

Take(n) ==
  /\ n <= Len(queue)
  /\ queue' = SubSeq(queue, n + 1, Len(queue))
  /\ UNCHANGED nextNo

Next == \E n \in 1 .. Capacity : Put(n) \/ Take(n)

Spec == Init /\ [][Next]_<<queue, nextNo>>
=============================================================================
