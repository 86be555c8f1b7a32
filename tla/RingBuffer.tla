----------------------------- MODULE RingBuffer -----------------------------
(***************************************************************************)
(* RingBuffer<TElem> of src/src/common/ringbuffer.h: the lock-free queue   *)
(* between one producer thread and one consumer thread (device -> DAB      *)
(* processor, decoder -> audio thread, audio thread -> sound card, ...).   *)
(*                                                                         *)
(* The two indices run modulo twice the buffer size, so that "full" and    *)
(* "empty" differ.  Each call of the two threads is split at every point   *)
(* where the other thread can see a difference: computing the regions,     *)
(* each element of the memcpy, the load and the store of the index.        *)
(* Elements are numbered in the order in which they are put: the element   *)
(* value is its number, which is all that the FIFO properties need.  The   *)
(* locals of a call are dead once it has returned and go back to their     *)
(* initial values.                                                         *)
(***************************************************************************)
EXTENDS Integers

CONSTANTS
  bufferSize,   \* number of slots, a power of two in the code
  MaxCount,     \* largest elementCount of one call
  MaxElems,     \* bound: no put starts once this many elements were put
  Word          \* number of values of a u32, 2^32 in the code

ASSUME SizeAssumption == bufferSize \in Nat \ {0}
ASSUME CountAssumption == MaxCount \in Nat
ASSUME ElemsAssumption == MaxElems \in Nat
ASSUME WordAssumption == Word \in Nat /\ 4 * bufferSize <= Word

VARIABLES
  writeIndex, readIndex,   \* the two atomics
  buffer,                  \* slot -> number of the element, NoElem if never written
  wpc, wIdx, wSize1, wSize2, wDone, wLoad,   \* producer: pc and locals of its call
  rpc, rIdx, rSize1, rSize2, rDone, rLoad,   \* consumer: pc and locals of its call
  rSkip,                   \* consumer: elements to advance by without a copy
  out,                     \* consumer: the caller's destination array
  nPut, nGot               \* history: elements put / taken out so far

writerVars == <<wpc, wIdx, wSize1, wSize2, wDone, wLoad>>
readerVars == <<rpc, rIdx, rSize1, rSize2, rDone, rLoad, rSkip, out>>
vars == <<writeIndex, readIndex, buffer, writerVars, readerVars, nPut, nGot>>

NoElem == -1
Slots == 0 .. bufferSize - 1
Indices == 0 .. 2 * bufferSize - 1   \* values of writeIndex and readIndex

\* i & smallMask and i & bigMask, the masks being bufferSize - 1 and 2 * bufferSize - 1
SmallMask(i) == i % bufferSize
BigMask(i) == i % (2 * bufferSize)

Minimum(a, b) == IF a <= b THEN a ELSE b

\* mutant: the fill level masked like a slot, so that a full buffer looks empty
get_ring_buffer_read_available_smallMask == SmallMask(writeIndex - readIndex)

get_ring_buffer_read_available == BigMask(writeIndex - readIndex)

\* mutant: one slot too many
get_ring_buffer_write_available_plusOne == bufferSize - get_ring_buffer_read_available + 1

get_ring_buffer_write_available == bufferSize - get_ring_buffer_read_available

\* The i32 fill level, assigned to the u32 `available' of the region functions
AsUnsigned(i) == IF i < 0 THEN i + Word ELSE i

\* What _get_ring_buffer_write_regions and _get_ring_buffer_read_regions return
WriteCount(elementCount) == Minimum(elementCount, AsUnsigned(get_ring_buffer_write_available))
ReadCount(elementCount) == Minimum(elementCount, AsUnsigned(get_ring_buffer_read_available))

\* The one or two regions of `count' elements that start at slot `idx'.
Region1(idx, count) == IF idx + count > bufferSize THEN bufferSize - idx ELSE count
Region2(idx, count) == IF idx + count > bufferSize THEN idx + count - bufferSize ELSE 0

\* Slot of the k-th element of a call whose first region is (idx, size1).
SlotOf(idx, size1, k) == IF k < size1 THEN idx + k ELSE k - size1

Init ==
  /\ writeIndex = 0 /\ readIndex = 0
  /\ buffer = [s \in Slots |-> NoElem]
  /\ wpc = "idle" /\ wIdx = 0 /\ wSize1 = 0 /\ wSize2 = 0 /\ wDone = 0 /\ wLoad = 0
  /\ rpc = "idle" /\ rIdx = 0 /\ rSize1 = 0 /\ rSize2 = 0 /\ rDone = 0 /\ rLoad = 0
  /\ rSkip = 0
  /\ out = [k \in Slots |-> NoElem]
  /\ nPut = 0 /\ nGot = 0

-----------------------------------------------------------------------------
(* Producer *)

\* put_data_into_ring_buffer, up to the return of _get_ring_buffer_write_regions
PutBegin(elementCount) ==
  LET count == WriteCount(elementCount)
      idx   == SmallMask(writeIndex)
  IN /\ wpc = "idle"
     /\ nPut < MaxElems
     /\ wpc' = "copy"
     /\ wIdx' = idx
     /\ wSize1' = Region1(idx, count)
     /\ wSize2' = Region2(idx, count)
     /\ wDone' = 0
     /\ UNCHANGED <<writeIndex, readIndex, buffer, wLoad, readerVars, nPut, nGot>>

\* get_writable_ring_buffer_segment: the caller gets the first region only, fills
\* `filled' of its elements itself and then advances by that number.
SegmentBegin(elementCount) ==
  LET count == WriteCount(elementCount)
      idx   == SmallMask(writeIndex)
  IN /\ wpc = "idle"
     /\ nPut < MaxElems
     /\ wpc' = "copy"
     /\ wIdx' = idx
     /\ \E filled \in 0 .. Region1(idx, count) : wSize1' = filled
     /\ wSize2' = 0
     /\ wDone' = 0
     /\ UNCHANGED <<writeIndex, readIndex, buffer, wLoad, readerVars, nPut, nGot>>

\* mutant: the second memcpy does not move on in the caller's data
PutCopy_sameSource ==
  /\ wpc = "copy"
  /\ wDone < wSize1 + wSize2
  /\ buffer' = [buffer EXCEPT ![SlotOf(wIdx, wSize1, wDone)] =
                  nPut + (IF wDone < wSize1 THEN wDone ELSE wDone - wSize1)]
  /\ wDone' = wDone + 1
  /\ UNCHANGED <<writeIndex, readIndex, wpc, wIdx, wSize1, wSize2, wLoad, readerVars, nPut, nGot>>

\* One element of the memcpy into the regions
PutCopy ==
  /\ wpc = "copy"
  /\ wDone < wSize1 + wSize2
  /\ buffer' = [buffer EXCEPT ![SlotOf(wIdx, wSize1, wDone)] = nPut + wDone]
  /\ wDone' = wDone + 1
  /\ UNCHANGED <<writeIndex, readIndex, wpc, wIdx, wSize1, wSize2, wLoad, readerVars, nPut, nGot>>

\* mutant: the index may be advanced before the memcpy is done
PutLoad_early ==
  /\ wpc = "copy"
  /\ wpc' = "store"
  /\ wLoad' = writeIndex
  /\ UNCHANGED <<writeIndex, readIndex, buffer, wIdx, wSize1, wSize2, wDone, readerVars, nPut, nGot>>

\* advance_ring_buffer_write_index: the load of writeIndex ...
PutLoad ==
  /\ wpc = "copy"
  /\ wDone = wSize1 + wSize2
  /\ wpc' = "store"
  /\ wLoad' = writeIndex
  /\ UNCHANGED <<writeIndex, readIndex, buffer, wIdx, wSize1, wSize2, wDone, readerVars, nPut, nGot>>

\* mutant: the index is stored without the mask
PutStore_noMask ==
  /\ wpc = "store"
  /\ wpc' = "idle"
  /\ writeIndex' = wLoad + wSize1 + wSize2
  /\ nPut' = nPut + wSize1 + wSize2
  /\ wIdx' = 0 /\ wSize1' = 0 /\ wSize2' = 0 /\ wDone' = 0 /\ wLoad' = 0
  /\ UNCHANGED <<readIndex, buffer, readerVars, nGot>>

\* ... and the store, which publishes the elements
PutStore ==
  /\ wpc = "store"
  /\ wpc' = "idle"
  /\ writeIndex' = BigMask(wLoad + wSize1 + wSize2)
  /\ nPut' = nPut + wSize1 + wSize2
  /\ wIdx' = 0 /\ wSize1' = 0 /\ wSize2' = 0 /\ wDone' = 0 /\ wLoad' = 0
  /\ UNCHANGED <<readIndex, buffer, readerVars, nGot>>

-----------------------------------------------------------------------------
(* Consumer *)

\* get_data_from_ring_buffer, up to the return of _get_ring_buffer_read_regions
GetBegin(elementCount) ==
  LET count == ReadCount(elementCount)
      idx   == SmallMask(readIndex)
  IN /\ rpc = "idle"
     /\ rpc' = "copy"
     /\ rIdx' = idx
     /\ rSize1' = Region1(idx, count)
     /\ rSize2' = Region2(idx, count)
     /\ rDone' = 0
     /\ UNCHANGED <<writeIndex, readIndex, buffer, writerVars, rLoad, rSkip, out, nPut, nGot>>

\* mutant: the second memcpy does not move on in the caller's array
GetCopy_sameTarget ==
  /\ rpc = "copy"
  /\ rDone < rSize1 + rSize2
  /\ out' = [out EXCEPT ![IF rDone < rSize1 THEN rDone ELSE rDone - rSize1] =
               buffer[SlotOf(rIdx, rSize1, rDone)]]
  /\ rDone' = rDone + 1
  /\ UNCHANGED <<writeIndex, readIndex, buffer, writerVars, rpc, rIdx, rSize1, rSize2, rLoad, rSkip, nPut, nGot>>

\* One element of the memcpy out of the regions
GetCopy ==
  /\ rpc = "copy"
  /\ rDone < rSize1 + rSize2
  /\ out' = [out EXCEPT ![rDone] = buffer[SlotOf(rIdx, rSize1, rDone)]]
  /\ rDone' = rDone + 1
  /\ UNCHANGED <<writeIndex, readIndex, buffer, writerVars, rpc, rIdx, rSize1, rSize2, rLoad, rSkip, nPut, nGot>>

\* advance_ring_buffer_read_index after a copy: the load of readIndex ...
GetLoad ==
  /\ rpc = "copy"
  /\ rDone = rSize1 + rSize2
  /\ rpc' = "store"
  /\ rLoad' = readIndex
  /\ UNCHANGED <<writeIndex, readIndex, buffer, writerVars, rIdx, rSize1, rSize2, rDone, rSkip, out, nPut, nGot>>

\* ... and the store, which frees the slots
GetStore ==
  /\ rpc = "store"
  /\ rpc' = "idle"
  /\ readIndex' = BigMask(rLoad + rSize1 + rSize2)
  /\ nGot' = nGot + rSize1 + rSize2
  /\ rIdx' = 0 /\ rSize1' = 0 /\ rSize2' = 0 /\ rDone' = 0 /\ rLoad' = 0
  /\ out' = [k \in Slots |-> NoElem]
  /\ UNCHANGED <<writeIndex, buffer, writerVars, rSkip, nPut>>

\* skip_data_in_ring_buffer: the comparison.  A request that exceeds the fill level
\* is replaced by the fill level, which is read a second time.
SkipBegin(n_values) ==
  /\ rpc = "idle"
  /\ rpc' = IF n_values > get_ring_buffer_read_available THEN "skipReread" ELSE "skip"
  /\ rSkip' = n_values
  /\ UNCHANGED <<writeIndex, readIndex, buffer, writerVars, rIdx, rSize1, rSize2, rDone, rLoad, out, nPut, nGot>>

SkipReread ==
  /\ rpc = "skipReread"
  /\ rpc' = "skip"
  /\ rSkip' = get_ring_buffer_read_available
  /\ UNCHANGED <<writeIndex, readIndex, buffer, writerVars, rIdx, rSize1, rSize2, rDone, rLoad, out, nPut, nGot>>

\* advance_ring_buffer_read_index of a skip
SkipAdvance ==
  /\ rpc = "skip"
  /\ rpc' = "idle"
  /\ readIndex' = BigMask(readIndex + rSkip)
  /\ nGot' = nGot + rSkip
  /\ rSkip' = 0
  /\ UNCHANGED <<writeIndex, buffer, writerVars, rIdx, rSize1, rSize2, rDone, rLoad, out, nPut>>

-----------------------------------------------------------------------------
Producer ==
  \/ \E n \in 0 .. MaxCount : PutBegin(n) \/ SegmentBegin(n)
  \/ PutCopy \/ PutLoad \/ PutStore

Consumer ==
  \/ \E n \in 0 .. MaxCount : GetBegin(n) \/ SkipBegin(n)
  \/ GetCopy \/ GetLoad \/ GetStore \/ SkipReread \/ SkipAdvance

Next == Producer \/ Consumer

Spec == Init /\ [][Next]_vars

-----------------------------------------------------------------------------
(* Properties *)

\* The indices, the local copies of both threads and the cells have their types.
TypeOK ==
  /\ writeIndex \in Indices
  /\ readIndex \in Indices
  /\ buffer \in [Slots -> Nat \cup {NoElem}]
  /\ wpc \in {"idle", "copy", "store"}
  /\ wIdx \in Slots
  /\ wSize1 \in 0 .. bufferSize
  /\ wSize2 \in 0 .. bufferSize
  /\ wDone \in 0 .. bufferSize
  /\ wLoad \in Indices
  /\ rpc \in {"idle", "copy", "store", "skip", "skipReread"}
  /\ rIdx \in Slots
  /\ rSize1 \in 0 .. bufferSize
  /\ rSize2 \in 0 .. bufferSize
  /\ rDone \in 0 .. bufferSize
  /\ rLoad \in Indices
  /\ rSkip \in Nat
  /\ out \in [Slots -> Nat \cup {NoElem}]
  /\ nPut \in Nat
  /\ nGot \in Nat

\* The fill level the indices encode is the number of elements put and not yet
\* taken, and it never exceeds the buffer (get_ring_buffer_read_available).
FillLevelExact ==
  /\ get_ring_buffer_read_available = nPut - nGot
  /\ nPut - nGot <= bufferSize

\* While the producer copies, its regions lie inside the buffer and hold no element
\* that the consumer has not taken yet, wherever the consumer is in its own call
\* (put_data_into_ring_buffer never overwrites unread data).
WriteWithinRoom ==
  wpc # "idle" =>
    /\ wSize1 + wSize2 <= bufferSize - (nPut - nGot)
    /\ wIdx + wSize1 <= bufferSize
    /\ wSize2 <= wIdx

\* First in, first out: every element the consumer has copied so far is the next
\* one in the order of the puts, even when the producer writes during the copy
\* (get_data_from_ring_buffer).
FifoOrder ==
  rpc \in {"copy", "store"} => \A k \in 0 .. rDone - 1 : out[k] = nGot + k

\* Element number `nGot + k' is in the slot in which the consumer will look for it
UnreadInPlace ==
  \A k \in 0 .. nPut - nGot - 1 : buffer[SmallMask(readIndex + k)] = nGot + k
=============================================================================
