-------------------------- MODULE RingBufferFlush --------------------------
(***************************************************************************)
(* RingBuffer with flush_ring_buffer called by the consumer thread while   *)
(* the producer keeps writing.  DabProcessor::run does this: it calls      *)
(* SampleReader::set_running(true), which calls IDeviceHandler::           *)
(* resetBuffer, which flushes the ring buffer, after DabRadio has already  *)
(* restarted the device.  The flush is two separate stores.                *)
(***************************************************************************)
EXTENDS RingBuffer

\* flush_ring_buffer: writeIndex = 0 ...
FlushWriteIndex ==
  /\ rpc = "idle"
  /\ rpc' = "flush"
  /\ writeIndex' = 0
  /\ UNCHANGED <<readIndex, buffer, writerVars, rIdx, rSize1, rSize2, rDone, rLoad, rSkip, out, nPut, nGot>>

\* ... and readIndex = 0: what was unread is given up
FlushReadIndex ==
  /\ rpc = "flush"
  /\ rpc' = "idle"
  /\ readIndex' = 0
  /\ nGot' = nPut
  /\ UNCHANGED <<writeIndex, buffer, writerVars, rIdx, rSize1, rSize2, rDone, rLoad, rSkip, out, nPut>>

FlushNext == Next \/ FlushWriteIndex \/ FlushReadIndex

FlushSpec == Init /\ [][FlushNext]_vars

\* "Returns room available to be written or elementCount, whichever is smaller."
\* (comment of _get_ring_buffer_write_regions): outside a flush, a put is never given
\* more elements to write than there is room.
CountWithinRoom ==
  rpc # "flush" =>
    \A elementCount \in 1 .. MaxCount :
      WriteCount(elementCount) <= get_ring_buffer_write_available
=============================================================================
