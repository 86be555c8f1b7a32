-------------------------- MODULE RingBufferProofs --------------------------
(***************************************************************************)
(* Proofs that RingBuffer is a FIFO for every buffer size and every        *)
(* interleaving of one producer and one consumer.                          *)
(***************************************************************************)
EXTENDS RingBuffer, TLAPS

-----------------------------------------------------------------------------
(* Arithmetic of the masks.  All arguments lie between -2 * bufferSize and *)
(* 4 * bufferSize, so that a mask subtracts a known multiple.              *)

\* x & smallMask for the arguments that occur
LEMMA SmallMaskValue ==
  ASSUME NEW x \in 0 .. 4 * bufferSize - 1
  PROVE  /\ SmallMask(x) \in Slots
         /\ x < bufferSize => SmallMask(x) = x
         /\ bufferSize <= x /\ x < 2 * bufferSize => SmallMask(x) = x - bufferSize
         /\ 2 * bufferSize <= x /\ x < 3 * bufferSize => SmallMask(x) = x - 2 * bufferSize
         /\ 3 * bufferSize <= x => SmallMask(x) = x - 3 * bufferSize
  BY SizeAssumption DEF SmallMask, Slots

\* x & bigMask for the arguments that occur
LEMMA BigMaskValue ==
  ASSUME NEW x \in 1 - 2 * bufferSize .. 4 * bufferSize - 1
  PROVE  /\ BigMask(x) \in 0 .. 2 * bufferSize - 1
         /\ x < 0 => BigMask(x) = x + 2 * bufferSize
         /\ 0 <= x /\ x < 2 * bufferSize => BigMask(x) = x
         /\ 2 * bufferSize <= x => BigMask(x) = x - 2 * bufferSize
  BY SizeAssumption DEF BigMask

\* Elements less than bufferSize apart never share a slot.
LEMMA SlotsDistinct ==
  ASSUME NEW i \in Indices, NEW j \in Slots, NEW k \in Slots, j # k
  PROVE  SmallMask(i + j) # SmallMask(i + k)
<1> USE SizeAssumption DEF Indices, Slots
<1>1. i + j \in 0 .. 4 * bufferSize - 1 /\ i + k \in 0 .. 4 * bufferSize - 1
  OBVIOUS
<1>2. QED
  BY <1>1, SmallMaskValue

\* Every slot that is less than bufferSize away from an index lies in the buffer.
LEMMA SlotInRange ==
  ASSUME NEW i \in Indices, NEW k \in Slots
  PROVE  SmallMask(i) \in Slots /\ SmallMask(i + k) \in Slots
<1>1. i \in 0 .. 4 * bufferSize - 1 /\ i + k \in 0 .. 4 * bufferSize - 1
  BY SizeAssumption DEF Indices, Slots
<1>2. QED
  BY <1>1, SmallMaskValue

\* Counting slots from writeIndex is counting them from readIndex, displaced by
\* the fill level.
LEMMA SlotFromReader ==
  ASSUME NEW w \in Indices, NEW r \in Indices, NEW k \in Slots,
         BigMask(w - r) <= bufferSize
  PROVE  SmallMask(w + k) = SmallMask(r + (BigMask(w - r) + k))
<1> USE SizeAssumption DEF Indices, Slots
<1>1. w - r \in 1 - 2 * bufferSize .. 4 * bufferSize - 1
  OBVIOUS
<1>2. /\ BigMask(w - r) \in 0 .. bufferSize
      /\ BigMask(w - r) = w - r \/ BigMask(w - r) = w - r + 2 * bufferSize
  BY <1>1, BigMaskValue
<1>3. /\ w + k \in 0 .. 4 * bufferSize - 1
      /\ r + (BigMask(w - r) + k) \in 0 .. 4 * bufferSize - 1
  BY <1>2
<1>4. QED
  BY <1>2, <1>3, SmallMaskValue

\* The k-th element of a call goes to the k-th slot after the index.
LEMMA RegionSlot ==
  ASSUME NEW i \in Indices, NEW k \in Slots,
         NEW s1 \in 0 .. bufferSize, NEW s2 \in 0 .. bufferSize,
         SmallMask(i) + s1 <= bufferSize,
         s2 > 0 => SmallMask(i) + s1 = bufferSize,
         s1 + s2 <= bufferSize,
         k < s1 + s2
  PROVE  SlotOf(SmallMask(i), s1, k) = SmallMask(i + k)
<1> USE SizeAssumption DEF Indices, Slots
<1>1. i \in 0 .. 4 * bufferSize - 1 /\ i + k \in 0 .. 4 * bufferSize - 1
  OBVIOUS
<1>2. QED
  BY <1>1, SmallMaskValue DEF SlotOf

\* advance_ring_buffer_write_index(n) raises the fill level by n.
LEMMA AdvanceWrite ==
  ASSUME NEW w \in Indices, NEW r \in Indices,
         NEW n \in Nat, BigMask(w - r) + n <= bufferSize
  PROVE  /\ BigMask(w + n) \in Indices
         /\ BigMask(BigMask(w + n) - r) = BigMask(w - r) + n
<1> USE SizeAssumption DEF Indices
<1>1. w - r \in 1 - 2 * bufferSize .. 4 * bufferSize - 1
  OBVIOUS
<1>2. BigMask(w - r) \in 0 .. 2 * bufferSize - 1
  BY <1>1, BigMaskValue
<1>3. w + n \in 1 - 2 * bufferSize .. 4 * bufferSize - 1
  BY <1>2
<1>4. BigMask(w + n) \in 0 .. 2 * bufferSize - 1
  BY <1>3, BigMaskValue
<1>5. BigMask(w + n) - r \in 1 - 2 * bufferSize .. 4 * bufferSize - 1
  BY <1>4
<1>6. BigMask(w + n) = w + n \/ BigMask(w + n) = w + n - 2 * bufferSize
  BY <1>3, BigMaskValue
<1>7. QED
  BY <1>1, <1>2, <1>3, <1>4, <1>5, <1>6, BigMaskValue

\* advance_ring_buffer_read_index(n) lowers the fill level by n, and the slots
\* counted from the new index are those n further from the old one.
LEMMA AdvanceRead ==
  ASSUME NEW w \in Indices, NEW r \in Indices,
         NEW n \in Nat, n <= BigMask(w - r), BigMask(w - r) <= bufferSize
  PROVE  /\ BigMask(r + n) \in Indices
         /\ BigMask(w - BigMask(r + n)) = BigMask(w - r) - n
         /\ \A k \in Slots : SmallMask(BigMask(r + n) + k) = SmallMask(r + (n + k))
<1> USE SizeAssumption DEF Indices, Slots
<1>1. w - r \in 1 - 2 * bufferSize .. 4 * bufferSize - 1
  OBVIOUS
<1>2. BigMask(w - r) \in 0 .. 2 * bufferSize - 1
  BY <1>1, BigMaskValue
<1>3. n <= bufferSize /\ r + n \in 1 - 2 * bufferSize .. 4 * bufferSize - 1
  BY <1>2
<1>4. /\ BigMask(r + n) \in 0 .. 2 * bufferSize - 1
      /\ BigMask(r + n) = r + n \/ BigMask(r + n) = r + n - 2 * bufferSize
  BY <1>3, BigMaskValue
<1>5. w - BigMask(r + n) \in 1 - 2 * bufferSize .. 4 * bufferSize - 1
  BY <1>4
<1>6. BigMask(w - BigMask(r + n)) = BigMask(w - r) - n
  BY <1>1, <1>2, <1>3, <1>4, <1>5, BigMaskValue
<1>7. ASSUME NEW k \in Slots
      PROVE  SmallMask(BigMask(r + n) + k) = SmallMask(r + (n + k))
  <2>1. /\ BigMask(r + n) + k \in 0 .. 4 * bufferSize - 1
        /\ r + (n + k) \in 0 .. 4 * bufferSize - 1
    BY <1>3, <1>4
  <2>2. QED
    BY <1>3, <1>4, <2>1, SmallMaskValue
<1>8. QED
  BY <1>4, <1>6, <1>7

-----------------------------------------------------------------------------
(* The inductive invariant *)

\* What the producer relies on in the middle of a call: its regions are the free
\* slots after writeIndex, and the elements copied so far are already in place.
ProducerInv ==
  wpc # "idle" =>
    /\ wIdx = SmallMask(writeIndex)
    /\ wSize1 + wSize2 <= bufferSize - (nPut - nGot)
    /\ wIdx + wSize1 <= bufferSize
    /\ wSize2 > 0 => wIdx + wSize1 = bufferSize
    /\ wDone <= wSize1 + wSize2
    /\ wpc = "store" => wDone = wSize1 + wSize2 /\ wLoad = writeIndex
    /\ \A k \in 0 .. wDone - 1 : buffer[SmallMask(writeIndex + k)] = nPut + k

\* What the consumer relies on: its regions are unread slots after readIndex.
ConsumerInv ==
  /\ rpc \in {"copy", "store"} =>
       /\ rIdx = SmallMask(readIndex)
       /\ rSize1 + rSize2 <= nPut - nGot
       /\ rIdx + rSize1 <= bufferSize
       /\ rSize2 > 0 => rIdx + rSize1 = bufferSize
       /\ rDone <= rSize1 + rSize2
       /\ rpc = "store" => rLoad = readIndex
  /\ rpc = "skip" => rSkip <= nPut - nGot

IInv ==
  /\ TypeOK
  /\ FillLevelExact
  /\ UnreadInPlace
  /\ ProducerInv
  /\ ConsumerInv
  /\ FifoOrder

\* The initial state satisfies the inductive invariant.
LEMMA InitIInv == Init => IInv
<1>1. SUFFICES ASSUME Init PROVE IInv
  OBVIOUS
<1>2. get_ring_buffer_read_available = 0
  <2>1. 0 \in 1 - 2 * bufferSize .. 4 * bufferSize - 1 /\ 0 < 2 * bufferSize
    BY SizeAssumption
  <2>2. BigMask(0) = 0
    BY <2>1, BigMaskValue
  <2>3. QED
    BY <1>1, <2>2 DEF Init, get_ring_buffer_read_available
<1>3. TypeOK
  BY <1>1, SizeAssumption DEF Init, TypeOK, Slots, Indices, NoElem
<1>4. QED
  BY <1>1, <1>2, <1>3, SizeAssumption DEF Init, IInv, FillLevelExact, UnreadInPlace,
     ProducerInv, ConsumerInv, FifoOrder

\* The regions of a call: they start at the masked index, hold `count' elements in
\* all, and wrap only at the end of the buffer.
LEMMA Regions ==
  ASSUME NEW i \in Indices, NEW c \in 0 .. bufferSize
  PROVE  /\ SmallMask(i) \in Slots
         /\ Region1(SmallMask(i), c) \in 0 .. bufferSize
         /\ Region2(SmallMask(i), c) \in 0 .. bufferSize
         /\ Region1(SmallMask(i), c) + Region2(SmallMask(i), c) = c
         /\ SmallMask(i) + Region1(SmallMask(i), c) <= bufferSize
         /\ Region2(SmallMask(i), c) > 0 =>
              SmallMask(i) + Region1(SmallMask(i), c) = bufferSize
<1>1. SmallMask(i) \in Slots
  BY SmallMaskValue, SizeAssumption DEF Indices
<1>2. QED
  BY <1>1, SizeAssumption DEF Region1, Region2, Slots

\* The fill level is a number between 0 and bufferSize.
LEMMA FillRange ==
  ASSUME TypeOK, FillLevelExact
  PROVE  /\ nPut - nGot \in 0 .. bufferSize
         /\ BigMask(writeIndex - readIndex) = nPut - nGot
<1>1. writeIndex - readIndex \in 1 - 2 * bufferSize .. 4 * bufferSize - 1
  BY SizeAssumption DEF TypeOK, Indices
<1>2. BigMask(writeIndex - readIndex) \in 0 .. 2 * bufferSize - 1
  BY <1>1, BigMaskValue
<1>3. QED
  BY <1>2, SizeAssumption DEF TypeOK, FillLevelExact, get_ring_buffer_read_available

\* Every step of the producer preserves the inductive invariant.
LEMMA ProducerIInv == IInv /\ Producer => IInv'
<1> SUFFICES ASSUME IInv, Producer PROVE IInv'
  OBVIOUS
<1> USE SizeAssumption
<1> DEFINE d == nPut - nGot
<1>0. TypeOK /\ FillLevelExact /\ UnreadInPlace /\ ProducerInv /\ ConsumerInv /\ FifoOrder
  BY DEF IInv
<1>d. d \in 0 .. bufferSize /\ BigMask(writeIndex - readIndex) = d
  BY <1>0, FillRange
<1>t. /\ writeIndex \in Indices /\ readIndex \in Indices
      /\ nPut \in Nat /\ nGot \in Nat
      /\ wSize1 \in 0 .. bufferSize /\ wSize2 \in 0 .. bufferSize /\ wDone \in 0 .. bufferSize
  BY <1>0 DEF TypeOK
<1>1. ASSUME NEW n \in 0 .. MaxCount, PutBegin(n) \/ SegmentBegin(n) PROVE IInv'
  <2> DEFINE c == WriteCount(n)
             i == SmallMask(writeIndex)
  <2>1. c \in 0 .. bufferSize /\ c <= bufferSize - d
    <3>1. get_ring_buffer_write_available = bufferSize - d
      BY <1>d DEF get_ring_buffer_write_available, get_ring_buffer_read_available
    <3>2. QED
      BY <1>d, <3>1, CountAssumption DEF WriteCount, Minimum, AsUnsigned
  <2>2. /\ i \in 0 .. bufferSize - 1
        /\ Region1(i, c) \in 0 .. bufferSize
        /\ Region2(i, c) \in 0 .. bufferSize
        /\ Region1(i, c) + Region2(i, c) = c
        /\ i + Region1(i, c) <= bufferSize
        /\ Region2(i, c) > 0 => i + Region1(i, c) = bufferSize
    BY <1>t, <2>1, Regions DEF Slots
  <2>3. /\ wIdx' = i
        /\ \/ wSize1' = Region1(i, c) /\ wSize2' = Region2(i, c)
           \/ wSize1' \in 0 .. Region1(i, c) /\ wSize2' = 0
    BY <1>1 DEF PutBegin, SegmentBegin
  <2>4. /\ wpc' = "copy" /\ wDone' = 0 /\ wLoad' = wLoad
        /\ UNCHANGED <<writeIndex, readIndex, buffer, readerVars, nPut, nGot>>
    BY <1>1 DEF PutBegin, SegmentBegin
  <2> HIDE DEF c, i
  <2>5. /\ wSize1' \in 0 .. bufferSize /\ wSize2' \in 0 .. bufferSize
        /\ wSize1' + wSize2' <= bufferSize - d
        /\ wIdx' + wSize1' <= bufferSize
        /\ wSize2' > 0 => wIdx' + wSize1' = bufferSize
    BY <1>d, <2>1, <2>2, <2>3
  <2>6. TypeOK'
    BY <1>0, <2>2, <2>3, <2>4, <2>5 DEF TypeOK, readerVars, Slots
  <2>7. ProducerInv'
    <3>1. wIdx' = SmallMask(writeIndex')
      BY <2>3, <2>4 DEF i
    <3>2. QED
      BY <2>4, <2>5, <3>1 DEF ProducerInv
  <2>8. FillLevelExact' /\ UnreadInPlace' /\ ConsumerInv' /\ FifoOrder'
    BY <1>0, <2>4 DEF FillLevelExact, UnreadInPlace, ConsumerInv, FifoOrder, readerVars,
       get_ring_buffer_read_available
  <2>9. QED
    BY <2>6, <2>7, <2>8 DEF IInv
<1>2. ASSUME PutCopy PROVE IInv'
  <2> DEFINE slot == SlotOf(wIdx, wSize1, wDone)
  <2>1. /\ wpc = "copy"
        /\ buffer' = [buffer EXCEPT ![slot] = nPut + wDone]
        /\ wDone' = wDone + 1
        /\ UNCHANGED <<writeIndex, readIndex, wpc, wIdx, wSize1, wSize2, wLoad, readerVars, nPut, nGot>>
    BY <1>2 DEF PutCopy
  <2>2. /\ wIdx = SmallMask(writeIndex)
        /\ wSize1 + wSize2 <= bufferSize - d
        /\ wIdx + wSize1 <= bufferSize
        /\ wSize2 > 0 => wIdx + wSize1 = bufferSize
        /\ wDone < wSize1 + wSize2
        /\ \A k \in 0 .. wDone - 1 : buffer[SmallMask(writeIndex + k)] = nPut + k
    BY <1>0, <1>2 DEF ProducerInv, PutCopy
  <2>3. wDone \in Slots /\ d + wDone \in Slots
    BY <1>d, <1>t, <2>2 DEF Slots
  <2>4. slot = SmallMask(writeIndex + wDone)
    BY <1>d, <1>t, <2>2, <2>3, RegionSlot
  <2>5. slot = SmallMask(readIndex + (d + wDone))
    BY <1>d, <1>t, <2>3, <2>4, SlotFromReader
  <2>6. slot \in Slots
    BY <1>t, <2>3, <2>4, SlotInRange
  <2> HIDE DEF slot
  <2>7. TypeOK'
    BY <1>0, <1>t, <1>d, <2>1, <2>2, <2>6 DEF TypeOK, readerVars
  <2>8. ASSUME NEW k \in 0 .. d - 1
        PROVE  buffer'[SmallMask(readIndex + k)] = buffer[SmallMask(readIndex + k)]
    <3>1. k \in Slots /\ k # d + wDone
      BY <1>d, <1>t DEF Slots
    <3>2. SmallMask(readIndex + k) # slot /\ SmallMask(readIndex + k) \in Slots
      BY <1>t, <2>3, <2>5, <3>1, SlotsDistinct, SlotInRange
    <3>3. QED
      BY <1>0, <2>1, <2>6, <3>2 DEF TypeOK
  <2>9. UnreadInPlace'
    BY <1>0, <2>1, <2>8 DEF UnreadInPlace
  <2>10. ASSUME NEW k \in 0 .. wDone PROVE buffer'[SmallMask(writeIndex + k)] = nPut + k
    <3>1. CASE k = wDone
      BY <1>0, <2>1, <2>4, <2>6, <3>1 DEF TypeOK
    <3>2. CASE k # wDone
      <4>1. k \in Slots /\ k \in 0 .. wDone - 1
        BY <1>d, <1>t, <2>2, <3>2 DEF Slots
      <4>2. SmallMask(writeIndex + k) # slot /\ SmallMask(writeIndex + k) \in Slots
        BY <1>t, <2>3, <2>4, <3>2, <4>1, SlotsDistinct, SlotInRange
      <4>3. QED
        BY <1>0, <2>1, <2>2, <2>6, <4>1, <4>2 DEF TypeOK
    <3>3. QED
      BY <3>1, <3>2
  <2>11. ProducerInv'
    <3>1. \A k \in 0 .. wDone' - 1 : buffer'[SmallMask(writeIndex' + k)] = nPut' + k
      BY <1>t, <2>1, <2>10
    <3>2. QED
      BY <1>t, <2>1, <2>2, <3>1 DEF ProducerInv
  <2>12. FillLevelExact' /\ ConsumerInv' /\ FifoOrder'
    BY <1>0, <2>1 DEF FillLevelExact, ConsumerInv, FifoOrder, readerVars,
       get_ring_buffer_read_available
  <2>13. QED
    BY <2>7, <2>9, <2>11, <2>12 DEF IInv
<1>3. ASSUME PutLoad PROVE IInv'
  BY <1>0, <1>3 DEF IInv, PutLoad, TypeOK, FillLevelExact, UnreadInPlace, ProducerInv,
     ConsumerInv, FifoOrder, readerVars, get_ring_buffer_read_available
<1>4. ASSUME PutStore PROVE IInv'
  <2> DEFINE n == wSize1 + wSize2
  <2>1. /\ n \in Nat /\ d + n <= bufferSize
        /\ wDone = n
        /\ wLoad = writeIndex
        /\ \A k \in 0 .. wDone - 1 : buffer[SmallMask(writeIndex + k)] = nPut + k
    BY <1>0, <1>d, <1>t, <1>4 DEF PutStore, ProducerInv
  <2>2. /\ writeIndex' = BigMask(writeIndex + n)
        /\ nPut' = nPut + n
        /\ wpc' = "idle" /\ wIdx' = 0 /\ wSize1' = 0 /\ wSize2' = 0 /\ wDone' = 0 /\ wLoad' = 0
        /\ UNCHANGED <<readIndex, buffer, readerVars, nGot>>
    <3>1. writeIndex + wSize1 + wSize2 = writeIndex + n /\ nPut + wSize1 + wSize2 = nPut + n
      BY <1>t DEF Indices
    <3>2. QED
      BY <1>4, <2>1, <3>1 DEF PutStore
  <2> HIDE DEF n
  <2>3. /\ writeIndex' \in Indices
        /\ get_ring_buffer_read_available' = d + n
    BY <1>d, <1>t, <2>1, <2>2, AdvanceWrite DEF get_ring_buffer_read_available
  <2>4. TypeOK'
    BY <1>0, <2>1, <2>2, <2>3 DEF TypeOK, readerVars, Slots, Indices
  <2>5. FillLevelExact'
    BY <1>t, <2>1, <2>2, <2>3 DEF FillLevelExact
  <2>6. ASSUME NEW k \in 0 .. d + n - 1 PROVE buffer[SmallMask(readIndex + k)] = nGot + k
    <3>1. CASE k < d
      <4>1. k \in 0 .. nPut - nGot - 1
        BY <1>t, <2>1, <3>1
      <4>2. QED
        BY <1>0, <4>1 DEF UnreadInPlace
    <3>2. CASE k >= d
      <4> DEFINE j == k - d
      <4>1. j \in 0 .. wDone - 1 /\ j \in Slots /\ d + j = k
        BY <1>d, <2>1, <3>2 DEF Slots
      <4> HIDE DEF j
      <4>2. SmallMask(writeIndex + j) = SmallMask(readIndex + (d + j))
        BY <1>d, <1>t, <4>1, SlotFromReader
      <4>3. buffer[SmallMask(writeIndex + j)] = nPut + j
        BY <2>1, <4>1
      <4>4. nPut + j = nGot + k
        BY <1>t, <4>1 DEF Slots
      <4>5. QED
        BY <4>1, <4>2, <4>3, <4>4
    <3>3. QED
      BY <1>d, <3>1, <3>2
  <2>7. UnreadInPlace'
    <3>1. nPut' - nGot' = d + n
      BY <1>t, <2>1, <2>2
    <3>2. QED
      BY <1>t, <1>d, <2>1, <2>2, <2>6, <3>1 DEF UnreadInPlace
  <2>8. ProducerInv' /\ ConsumerInv' /\ FifoOrder'
    BY <1>0, <1>t, <2>1, <2>2 DEF ProducerInv, ConsumerInv, FifoOrder, readerVars, TypeOK
  <2>9. QED
    BY <2>4, <2>5, <2>7, <2>8 DEF IInv
<1>5. QED
  BY <1>1, <1>2, <1>3, <1>4 DEF Producer

\* Every step of the consumer preserves the inductive invariant.
LEMMA ConsumerIInv == IInv /\ Consumer => IInv'
<1> SUFFICES ASSUME IInv, Consumer PROVE IInv'
  OBVIOUS
<1> USE SizeAssumption
<1> DEFINE d == nPut - nGot
<1>0. TypeOK /\ FillLevelExact /\ UnreadInPlace /\ ProducerInv /\ ConsumerInv /\ FifoOrder
  BY DEF IInv
<1>d. d \in 0 .. bufferSize /\ BigMask(writeIndex - readIndex) = d
  BY <1>0, FillRange
<1>t. /\ writeIndex \in Indices /\ readIndex \in Indices
      /\ nPut \in Nat /\ nGot \in Nat
      /\ rSize1 \in 0 .. bufferSize /\ rSize2 \in 0 .. bufferSize /\ rDone \in 0 .. bufferSize
      /\ rSkip \in Nat
      /\ wSize1 \in 0 .. bufferSize /\ wSize2 \in 0 .. bufferSize
  BY <1>0 DEF TypeOK
<1>a. get_ring_buffer_read_available = d
  BY <1>d DEF get_ring_buffer_read_available
<1>1. ASSUME NEW e \in 0 .. MaxCount, GetBegin(e) PROVE IInv'
  <2> DEFINE c == ReadCount(e)
             i == SmallMask(readIndex)
  <2>1. c \in 0 .. bufferSize /\ c <= d
    BY <1>d, <1>a, CountAssumption DEF ReadCount, Minimum, AsUnsigned
  <2>2. /\ i \in 0 .. bufferSize - 1
        /\ Region1(i, c) \in 0 .. bufferSize
        /\ Region2(i, c) \in 0 .. bufferSize
        /\ Region1(i, c) + Region2(i, c) = c
        /\ i + Region1(i, c) <= bufferSize
        /\ Region2(i, c) > 0 => i + Region1(i, c) = bufferSize
    BY <1>t, <2>1, Regions DEF Slots
  <2>3. /\ rIdx' = i /\ rSize1' = Region1(i, c) /\ rSize2' = Region2(i, c)
        /\ rpc' = "copy" /\ rDone' = 0
        /\ UNCHANGED <<writeIndex, readIndex, buffer, writerVars, rLoad, rSkip, out, nPut, nGot>>
    BY <1>1 DEF GetBegin
  <2> HIDE DEF c, i
  <2>4. TypeOK'
    BY <1>0, <2>2, <2>3 DEF TypeOK, writerVars, Slots
  <2>5. ConsumerInv'
    <3>1. rIdx' = SmallMask(readIndex')
      BY <2>3 DEF i
    <3>2. QED
      BY <2>1, <2>2, <2>3, <3>1 DEF ConsumerInv
  <2>6. FillLevelExact' /\ UnreadInPlace' /\ ProducerInv' /\ FifoOrder'
    BY <1>0, <2>3 DEF FillLevelExact, UnreadInPlace, ProducerInv, FifoOrder, writerVars,
       get_ring_buffer_read_available
  <2>7. QED
    BY <2>4, <2>5, <2>6 DEF IInv
<1>2. ASSUME GetCopy PROVE IInv'
  <2> DEFINE slot == SlotOf(rIdx, rSize1, rDone)
  <2>1. /\ rpc = "copy"
        /\ out' = [out EXCEPT ![rDone] = buffer[slot]]
        /\ rDone' = rDone + 1
        /\ UNCHANGED <<writeIndex, readIndex, buffer, writerVars, rpc, rIdx, rSize1, rSize2, rLoad, rSkip, nPut, nGot>>
    BY <1>2 DEF GetCopy
  <2>2. /\ rIdx = SmallMask(readIndex)
        /\ rSize1 + rSize2 <= d
        /\ rIdx + rSize1 <= bufferSize
        /\ rSize2 > 0 => rIdx + rSize1 = bufferSize
        /\ rDone < rSize1 + rSize2
        /\ \A k \in 0 .. rDone - 1 : out[k] = nGot + k
    BY <1>0, <1>2 DEF ConsumerInv, FifoOrder, GetCopy
  <2>3. rDone \in Slots /\ rDone \in 0 .. nPut - nGot - 1 /\ rSize1 + rSize2 <= bufferSize
    BY <1>d, <1>t, <2>2 DEF Slots
  <2>4. slot = SmallMask(readIndex + rDone)
    BY <1>t, <2>2, <2>3, RegionSlot
  <2>5. slot \in Slots /\ buffer[slot] = nGot + rDone
    BY <1>0, <1>t, <2>3, <2>4, SlotInRange DEF UnreadInPlace
  <2> HIDE DEF slot
  <2>6. TypeOK'
    BY <1>0, <1>t, <1>d, <2>1, <2>2, <2>3, <2>5 DEF TypeOK, writerVars
  <2>7. FifoOrder'
    <3>1. ASSUME NEW k \in 0 .. rDone PROVE out'[k] = nGot + k
      <4>1. k \in Slots
        BY <2>3 DEF Slots
      <4>2. k = rDone \/ k \in 0 .. rDone - 1
        BY <1>t
      <4>3. QED
        BY <1>0, <2>1, <2>2, <2>3, <2>5, <4>1, <4>2 DEF TypeOK
    <3>2. QED
      BY <1>t, <2>1, <3>1 DEF FifoOrder
  <2>8. ConsumerInv'
    BY <1>t, <2>1, <2>2 DEF ConsumerInv
  <2>9. FillLevelExact' /\ UnreadInPlace' /\ ProducerInv'
    BY <1>0, <2>1 DEF FillLevelExact, UnreadInPlace, ProducerInv, writerVars,
       get_ring_buffer_read_available
  <2>10. QED
    BY <2>6, <2>7, <2>8, <2>9 DEF IInv
<1>3. ASSUME GetLoad PROVE IInv'
  BY <1>0, <1>3 DEF IInv, GetLoad, TypeOK, FillLevelExact, UnreadInPlace, ProducerInv,
     ConsumerInv, FifoOrder, writerVars, get_ring_buffer_read_available
<1>4. ASSUME NEW n \in Nat, n <= d,
             readIndex' = BigMask(readIndex + n), nGot' = nGot + n,
             UNCHANGED <<writeIndex, buffer, writerVars, nPut>>,
             rpc' = "idle", TypeOK'
      PROVE  IInv'
  <2>1. /\ get_ring_buffer_read_available' = d - n
        /\ \A k \in Slots : SmallMask(readIndex' + k) = SmallMask(readIndex + (n + k))
    BY <1>d, <1>t, <1>4, AdvanceRead DEF get_ring_buffer_read_available
  <2>2. nPut' - nGot' = d - n
    BY <1>t, <1>4
  <2>3. FillLevelExact'
    BY <1>d, <1>4, <2>1, <2>2 DEF FillLevelExact
  <2>4. UnreadInPlace'
    <3>1. ASSUME NEW k \in 0 .. d - n - 1 PROVE buffer[SmallMask(readIndex' + k)] = nGot' + k
      <4>1. k \in Slots /\ n + k \in 0 .. nPut - nGot - 1
        BY <1>d, <1>4 DEF Slots
      <4>2. buffer[SmallMask(readIndex + (n + k))] = nGot + (n + k)
        BY <1>0, <4>1 DEF UnreadInPlace
      <4>3. nGot + (n + k) = nGot' + k
        BY <1>t, <1>4
      <4>4. QED
        BY <2>1, <4>1, <4>2, <4>3
    <3>2. QED
      BY <1>4, <2>2, <3>1 DEF UnreadInPlace
  <2>5. ProducerInv'
    BY <1>0, <1>d, <1>t, <1>4, <2>2 DEF ProducerInv, writerVars
  <2>6. ConsumerInv' /\ FifoOrder'
    BY <1>4 DEF ConsumerInv, FifoOrder
  <2>7. QED
    BY <1>4, <2>3, <2>4, <2>5, <2>6 DEF IInv
<1>5. ASSUME GetStore PROVE IInv'
  <2> DEFINE n == rSize1 + rSize2
  <2>1. n \in Nat /\ n <= d /\ rLoad = readIndex
    BY <1>0, <1>t, <1>5 DEF GetStore, ConsumerInv
  <2>2. readIndex + rSize1 + rSize2 = readIndex + n /\ nGot + rSize1 + rSize2 = nGot + n
    BY <1>t DEF Indices
  <2>3. readIndex' = BigMask(readIndex + n) /\ nGot' = nGot + n
    BY <1>5, <2>1, <2>2 DEF GetStore
  <2> HIDE DEF n
  <2>4. readIndex' \in Indices
    BY <1>d, <1>t, <2>1, <2>3, AdvanceRead
  <2>5. TypeOK'
    BY <1>0, <1>5, <2>1, <2>3, <2>4 DEF GetStore, TypeOK, writerVars, Slots, Indices, NoElem
  <2>6. QED
    BY <1>4, <1>5, <2>1, <2>3, <2>5 DEF GetStore
<1>6. ASSUME NEW e \in 0 .. MaxCount, SkipBegin(e) PROVE IInv'
  <2>1. e \in Nat
    BY CountAssumption
  <2>2. QED
    BY <1>0, <1>a, <1>d, <1>6, <2>1 DEF IInv, SkipBegin, TypeOK, FillLevelExact, UnreadInPlace,
       ProducerInv, ConsumerInv, FifoOrder, writerVars, get_ring_buffer_read_available
<1>7. ASSUME SkipReread PROVE IInv'
  BY <1>0, <1>a, <1>d, <1>7 DEF IInv, SkipReread, TypeOK, FillLevelExact, UnreadInPlace,
     ProducerInv, ConsumerInv, FifoOrder, writerVars, get_ring_buffer_read_available
<1>8. ASSUME SkipAdvance PROVE IInv'
  <2>1. rSkip <= d
    BY <1>0, <1>8 DEF SkipAdvance, ConsumerInv
  <2>2. readIndex' \in Indices
    BY <1>d, <1>t, <1>8, <2>1, AdvanceRead DEF SkipAdvance
  <2>3. TypeOK'
    BY <1>0, <1>8, <2>2 DEF SkipAdvance, TypeOK, writerVars
  <2>4. QED
    BY <1>4, <1>t, <1>8, <2>1, <2>3 DEF SkipAdvance
<1>9. QED
  BY <1>1, <1>2, <1>3, <1>5, <1>6, <1>7, <1>8 DEF Consumer

-----------------------------------------------------------------------------
(* The theorems *)

\* The inductive invariant holds in every reachable state.
THEOREM Invariance == Spec => []IInv
<1>1. IInv /\ UNCHANGED vars => IInv'
  BY DEF IInv, vars, writerVars, readerVars, TypeOK, FillLevelExact, UnreadInPlace,
     ProducerInv, ConsumerInv, FifoOrder, get_ring_buffer_read_available
<1>2. IInv /\ [Next]_vars => IInv'
  BY <1>1, ProducerIInv, ConsumerIInv DEF Next
<1>3. QED
  BY InitIInv, <1>2, PTL DEF Spec

\* Type correctness of the ring buffer.
THEOREM TypeCorrect == Spec => []TypeOK
<1>1. IInv => TypeOK
  BY DEF IInv
<1>2. QED
  BY Invariance, <1>1, PTL

\* For every buffer size and every interleaving of a producer and a consumer, the
\* elements arrive in the order in which they were put, none lost or repeated: what
\* get_data_from_ring_buffer has copied are the next elements in that order, and the
\* fill level both threads compute from the indices is the true one.
THEOREM FifoCorrect == Spec => [](FifoOrder /\ FillLevelExact)
<1>1. IInv => FifoOrder /\ FillLevelExact
  BY DEF IInv
<1>2. QED
  BY Invariance, <1>1, PTL

\* put_data_into_ring_buffer stays inside the buffer and off the unread elements,
\* for every buffer size.
THEOREM RoomCorrect == Spec => []WriteWithinRoom
<1>1. IInv => WriteWithinRoom
  <2> SUFFICES ASSUME IInv PROVE WriteWithinRoom
    OBVIOUS
  <2>0. TypeOK /\ FillLevelExact /\ ProducerInv
    BY DEF IInv
  <2>1. nPut - nGot \in 0 .. bufferSize /\ BigMask(writeIndex - readIndex) = nPut - nGot
    BY <2>0, FillRange
  <2>2. QED
    BY <2>0, <2>1, SizeAssumption DEF WriteWithinRoom, ProducerInv, TypeOK, Slots
<1>2. QED
  BY Invariance, <1>1, PTL
=============================================================================
