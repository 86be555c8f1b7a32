----------------------------- MODULE MscHandler -----------------------------
(***************************************************************************)
(* MscHandler (src/src/base/backend/msc_handler.cpp) and its Backends      *)
(* (backend.cpp).  The processor thread collects OFDM symbols to CIFs      *)
(* (Common Interleaved Frames) and hands each CIF to every backend in the  *)
(* list while it holds mMutex; the GUI thread adds and removes backends.   *)
(* With __THREADED_BACKEND__ each backend has a thread of its own behind a *)
(* ring of NUMBER_SLOTS buffers counted by two semaphores; otherwise the   *)
(* processor thread does the backend's work itself.                        *)
(*                                                                         *)
(* A CIF is represented by its number.  The bits of a CIF fall into Depth  *)
(* classes (16 in the code, i & 0x0F); a class is named by the delay that  *)
(* interleaveMap gives it.                                                 *)
(***************************************************************************)
EXTENDS Integers, Sequences, FiniteSets

CONSTANTS
  Backends,        \* Backend objects that can exist at a time
  Keys,            \* (subChId, processFlag) pairs
  NUMBER_SLOTS,    \* 25 in the code
  Depth,           \* interleaving depth, 16 in the code
  BlocksPerCif,    \* cNumberOfBlocksPerCif, 18 in the code
  MaxCif           \* bound: number of CIFs received

ASSUME SlotAssumption == NUMBER_SLOTS \in Nat \ {0}
ASSUME DepthAssumption == Depth \in Nat \ {0}
ASSUME BlockAssumption == BlocksPerCif \in Nat \ {0}
ASSUME CifAssumption == MaxCif \in Nat

VARIABLES
  THREADED_BACKEND, \* how the program was built; never changes
  mBackendList,    \* sequence of listed backends
  key,             \* backend -> its (subChId, processFlag)
  dsp,             \* processor thread: "block", or "backends", "copy" with mMutex held
  block, cif,      \* next block of the CIF; number of the CIF
  todo,            \* backends that still have to get the CIF
  toStop,          \* GUI thread: backendsToStop of the running call
  running,         \* backend -> running flag
  thread,          \* backend -> its thread: "none", "loop", "wait", "segment", "free"
  theData, nextIn, nextOut, freeSlots, usedSlots,
  interleaveData, interleaverIndex, countforInterleaver,
  tempX,           \* class -> CIF the bits of this class were taken from
  lastFrame        \* backend -> CIFs the last frame given to add_to_frame is made of

slotVars == <<theData, nextIn, nextOut, freeSlots, usedSlots>>
leaveVars == <<interleaveData, interleaverIndex, countforInterleaver, tempX, lastFrame>>
vars == <<THREADED_BACKEND, mBackendList, key, dsp, block, cif, todo, toStop, running, thread, slotVars, leaveVars>>

NoCif == -1
Classes == 0 .. Depth - 1
Empty == [c \in Classes |-> NoCif]
EmptySlots == [s \in 0 .. NUMBER_SLOTS - 1 |-> NoCif]
NoKey == "none"
Listed == {mBackendList[i] : i \in DOMAIN mBackendList}
Stopping == {toStop[i] : i \in DOMAIN toStop}
Unused == Backends \ (Listed \cup Stopping)
mMutexFree == dsp = "block"

Init ==
  /\ THREADED_BACKEND \in BOOLEAN
  /\ mBackendList = <<>> /\ toStop = <<>>
  /\ key = [b \in Backends |-> NoKey]
  /\ dsp = "block" /\ block = 0 /\ cif = 0 /\ todo = <<>>
  /\ running = [b \in Backends |-> FALSE]
  /\ thread = [b \in Backends |-> "none"]
  /\ theData = [b \in Backends |-> EmptySlots]
  /\ nextIn = [b \in Backends |-> 0] /\ nextOut = [b \in Backends |-> 0]
  /\ freeSlots = [b \in Backends |-> 0] /\ usedSlots = [b \in Backends |-> 0]
  /\ interleaveData = [b \in Backends |-> Empty]
  /\ interleaverIndex = [b \in Backends |-> 0]
  /\ countforInterleaver = [b \in Backends |-> 0]
  /\ tempX = [b \in Backends |-> Empty]
  /\ lastFrame = [b \in Backends |-> Empty]

-----------------------------------------------------------------------------
(* The de-interleaver: the first half of _process_segment *)

\* mutant: the index of the de-interleaver is not masked
Interleave_noMask(b, data) ==
  /\ tempX' = [tempX EXCEPT ![b] =
                [c \in Classes |-> interleaveData[b][(interleaverIndex[b] + c) % Depth]]]
  /\ interleaveData' = [interleaveData EXCEPT ![b][interleaverIndex[b]] = data]
  /\ interleaverIndex' = [interleaverIndex EXCEPT ![b] = @ + 1]

Interleave(b, data) ==
  /\ tempX' = [tempX EXCEPT ![b] =
                [c \in Classes |-> interleaveData[b][(interleaverIndex[b] + c) % Depth]]]
  /\ interleaveData' = [interleaveData EXCEPT ![b][interleaverIndex[b]] = data]
  /\ interleaverIndex' = [interleaverIndex EXCEPT ![b] = (@ + 1) % Depth]

\* mutant: the frame is passed on one CIF too early
PassOn_early(b, bits) ==
  IF countforInterleaver[b] < Depth - 1
    THEN /\ countforInterleaver' = [countforInterleaver EXCEPT ![b] = @ + 1]
         /\ UNCHANGED lastFrame
    ELSE /\ lastFrame' = [lastFrame EXCEPT ![b] = bits]
         /\ UNCHANGED countforInterleaver

\* mutant: a frame that is passed on takes a CIF out of the count
PassOn_uncount(b, bits) ==
  IF countforInterleaver[b] <= Depth - 1
    THEN /\ countforInterleaver' = [countforInterleaver EXCEPT ![b] = @ + 1]
         /\ UNCHANGED lastFrame
    ELSE /\ lastFrame' = [lastFrame EXCEPT ![b] = bits]
         /\ countforInterleaver' = [countforInterleaver EXCEPT ![b] = @ - 1]

\* The second half: "only continue when de-interleaver is filled", then deconvolve,
\* reverse the energy dispersal and driver.add_to_frame
PassOn(b, bits) ==
  IF countforInterleaver[b] <= Depth - 1
    THEN /\ countforInterleaver' = [countforInterleaver EXCEPT ![b] = @ + 1]
         /\ UNCHANGED lastFrame
    ELSE /\ lastFrame' = [lastFrame EXCEPT ![b] = bits]
         /\ UNCHANGED countforInterleaver

-----------------------------------------------------------------------------
(* Processor thread: process_block *)

\* A block of the CIF is copied; all but the last return at once
AddBlock ==
  /\ dsp = "block"
  /\ block < BlocksPerCif - 1
  /\ cif < MaxCif
  /\ block' = block + 1
  /\ UNCHANGED <<THREADED_BACKEND, mBackendList, key, dsp, cif, todo, toStop, running, thread,
                 slotVars, leaveVars>>

\* The last block: lock mMutex and go through the list
CifComplete ==
  /\ dsp = "block"
  /\ block = BlocksPerCif - 1
  /\ cif < MaxCif
  /\ dsp' = "backends"
  /\ todo' = mBackendList
  /\ UNCHANGED <<THREADED_BACKEND, mBackendList, key, block, cif, toStop, running, thread,
                 slotVars, leaveVars>>

\* Backend::process without threads: the whole of _process_segment
ProcessInline ==
  /\ ~THREADED_BACKEND
  /\ dsp = "backends" /\ todo # <<>>
  /\ LET b == Head(todo)
     IN Interleave(b, cif) /\ PassOn(b, tempX'[b])
  /\ todo' = Tail(todo)
  /\ UNCHANGED <<THREADED_BACKEND, mBackendList, key, dsp, block, cif, toStop, running, thread,
                 slotVars>>

\* Backend::process with threads: freeSlots.tryAcquire, repeated until it succeeds or the
\* backend is no longer to run
AcquireSlot ==
  /\ THREADED_BACKEND
  /\ dsp = "backends" /\ todo # <<>>
  /\ LET b == Head(todo)
     IN IF freeSlots[b] > 0
          THEN /\ freeSlots' = [freeSlots EXCEPT ![b] = @ - 1]
               /\ dsp' = "copy" /\ todo' = todo
          ELSE /\ ~running[b]
               /\ todo' = Tail(todo) /\ UNCHANGED <<freeSlots, dsp>>
  /\ UNCHANGED <<THREADED_BACKEND, mBackendList, key, block, cif, toStop, running, thread, theData,
                 nextIn, nextOut, usedSlots, leaveVars>>

\* ... memcpy to theData[nextIn], nextIn++, usedSlots.release
FillSlot ==
  /\ dsp = "copy"
  /\ LET b == Head(todo)
     IN /\ theData' = [theData EXCEPT ![b][nextIn[b]] = cif]
        /\ nextIn' = [nextIn EXCEPT ![b] = (@ + 1) % NUMBER_SLOTS]
        /\ usedSlots' = [usedSlots EXCEPT ![b] = @ + 1]
  /\ todo' = Tail(todo)
  /\ dsp' = "backends"
  /\ UNCHANGED <<THREADED_BACKEND, mBackendList, key, block, cif, toStop, running, thread,
                 nextOut, freeSlots, leaveVars>>

\* All backends have the CIF: mMutex is unlocked
CifDone ==
  /\ dsp = "backends" /\ todo = <<>>
  /\ dsp' = "block"
  /\ block' = 0
  /\ cif' = cif + 1
  /\ UNCHANGED <<THREADED_BACKEND, mBackendList, key, todo, toStop, running, thread, slotVars,
                 leaveVars>>

-----------------------------------------------------------------------------
(* GUI thread *)

\* set_channel: a new Backend, its thread started, appended to the list under mMutex
set_channel(k) ==
  /\ mMutexFree /\ toStop = <<>>
  /\ \E b \in Unused :
        /\ mBackendList' = Append(mBackendList, b)
        /\ key' = [key EXCEPT ![b] = k]
        /\ running' = [running EXCEPT ![b] = THREADED_BACKEND]
        /\ thread' = [thread EXCEPT ![b] = IF THREADED_BACKEND THEN "loop" ELSE "none"]
        /\ freeSlots' = [freeSlots EXCEPT ![b] = NUMBER_SLOTS]
  /\ UNCHANGED <<THREADED_BACKEND, dsp, block, cif, todo, toStop, theData, nextIn, nextOut,
                 usedSlots, leaveVars>>

\* stop_service: the backends of the key leave the list under mMutex ...
stop_service(k) ==
  /\ mMutexFree /\ toStop = <<>>
  /\ toStop' = SelectSeq(mBackendList, LAMBDA b : key[b] = k)
  /\ mBackendList' = SelectSeq(mBackendList, LAMBDA b : key[b] # k)
  /\ UNCHANGED <<THREADED_BACKEND, key, dsp, block, cif, todo, running, thread, slotVars,
                 leaveVars>>

\* reset_channel, stop_all_services, ~MscHandler: the list is swapped out under mMutex ...
stop_all_services ==
  /\ mMutexFree /\ toStop = <<>>
  /\ toStop' = mBackendList
  /\ mBackendList' = <<>>
  /\ UNCHANGED <<THREADED_BACKEND, key, dsp, block, cif, todo, running, thread, slotVars,
                 leaveVars>>

\* ... then, without it, stop_running: running = false ...
StopRunning ==
  /\ toStop # <<>> /\ running[Head(toStop)]
  /\ running' = [running EXCEPT ![Head(toStop)] = FALSE]
  /\ UNCHANGED <<THREADED_BACKEND, mBackendList, key, dsp, block, cif, todo, toStop, thread,
                 slotVars, leaveVars>>

\* mutant: the object is deleted without waiting for its thread
StopDone_noWait ==
  /\ toStop # <<>>
  /\ LET b == Head(toStop) IN ~running[b]
  /\ toStop' = Tail(toStop)
  /\ UNCHANGED <<THREADED_BACKEND, mBackendList, key, dsp, block, cif, todo, running, thread,
                 slotVars, leaveVars>>

\* ... the thread has ended, b.reset() deletes the object and all its state
StopDone ==
  /\ toStop # <<>>
  /\ toStop' = Tail(toStop)
  /\ LET b == Head(toStop)
     IN /\ ~running[b] /\ thread[b] = "none"
        /\ key' = [key EXCEPT ![b] = NoKey]
        /\ theData' = [theData EXCEPT ![b] = EmptySlots]
        /\ nextIn' = [nextIn EXCEPT ![b] = 0] /\ nextOut' = [nextOut EXCEPT ![b] = 0]
        /\ freeSlots' = [freeSlots EXCEPT ![b] = 0]
        /\ usedSlots' = [usedSlots EXCEPT ![b] = 0]
        /\ interleaveData' = [interleaveData EXCEPT ![b] = Empty]
        /\ interleaverIndex' = [interleaverIndex EXCEPT ![b] = 0]
        /\ countforInterleaver' = [countforInterleaver EXCEPT ![b] = 0]
        /\ tempX' = [tempX EXCEPT ![b] = Empty]
        /\ lastFrame' = [lastFrame EXCEPT ![b] = Empty]
  /\ UNCHANGED <<THREADED_BACKEND, mBackendList, dsp, block, cif, todo, running, thread>>

-----------------------------------------------------------------------------
(* Backend thread: run *)

\* while (running.load())
RunLoop(b) ==
  /\ thread[b] = "loop"
  /\ thread' = [thread EXCEPT ![b] = IF running[b] THEN "wait" ELSE "none"]
  /\ UNCHANGED <<THREADED_BACKEND, mBackendList, key, dsp, block, cif, todo, toStop, running,
                 slotVars, leaveVars>>

\* usedSlots.tryAcquire succeeds
RunAcquire(b) ==
  /\ thread[b] = "wait" /\ usedSlots[b] > 0
  /\ usedSlots' = [usedSlots EXCEPT ![b] = @ - 1]
  /\ thread' = [thread EXCEPT ![b] = "segment"]
  /\ UNCHANGED <<THREADED_BACKEND, mBackendList, key, dsp, block, cif, todo, toStop, running,
                 theData, nextIn,
                 nextOut, freeSlots, leaveVars>>

\* mutant: the wait for a used slot is repeated without a look at running
RunTimeout_ignoreRunning(b) ==
  /\ thread[b] = "wait" /\ usedSlots[b] = 0
  /\ UNCHANGED vars

\* ... or times out, and the backend is no longer to run
RunTimeout(b) ==
  /\ thread[b] = "wait" /\ usedSlots[b] = 0 /\ ~running[b]
  /\ thread' = [thread EXCEPT ![b] = "none"]
  /\ UNCHANGED <<THREADED_BACKEND, mBackendList, key, dsp, block, cif, todo, toStop, running,
                 slotVars, leaveVars>>

\* _process_segment reads theData[nextOut] into the de-interleaver ...
RunSegment(b) ==
  /\ thread[b] = "segment"
  /\ Interleave(b, theData[b][nextOut[b]])
  /\ thread' = [thread EXCEPT ![b] = "free"]
  /\ UNCHANGED <<THREADED_BACKEND, mBackendList, key, dsp, block, cif, todo, toStop, running,
                 slotVars,
                 countforInterleaver, lastFrame>>

\* mutant: the slot is not given back
RunFree_noRelease(b) ==
  /\ thread[b] = "free"
  /\ nextOut' = [nextOut EXCEPT ![b] = (@ + 1) % NUMBER_SLOTS]
  /\ PassOn(b, tempX[b])
  /\ thread' = [thread EXCEPT ![b] = "loop"]
  /\ UNCHANGED <<THREADED_BACKEND, mBackendList, key, dsp, block, cif, todo, toStop, running,
                 theData, nextIn,
                 freeSlots, usedSlots, interleaveData, interleaverIndex, tempX>>

\* ... gives the slot back and passes the frame on
RunFree(b) ==
  /\ thread[b] = "free"
  /\ nextOut' = [nextOut EXCEPT ![b] = (@ + 1) % NUMBER_SLOTS]
  /\ freeSlots' = [freeSlots EXCEPT ![b] = @ + 1]
  /\ PassOn(b, tempX[b])
  /\ thread' = [thread EXCEPT ![b] = "loop"]
  /\ UNCHANGED <<THREADED_BACKEND, mBackendList, key, dsp, block, cif, todo, toStop, running,
                 theData, nextIn,
                 usedSlots, interleaveData, interleaverIndex, tempX>>

-----------------------------------------------------------------------------
Processor == AddBlock \/ CifComplete \/ ProcessInline \/ AcquireSlot \/ FillSlot \/ CifDone
Run(b) == RunLoop(b) \/ RunAcquire(b) \/ RunTimeout(b) \/ RunSegment(b) \/ RunFree(b)
Stop == StopRunning \/ StopDone

Next ==
  \/ AddBlock \/ CifComplete \/ ProcessInline \/ AcquireSlot \/ FillSlot \/ CifDone
  \/ \E k \in Keys : set_channel(k) \/ stop_service(k)
  \/ stop_all_services \/ StopRunning \/ StopDone
  \/ \E b \in Backends : RunLoop(b) \/ RunAcquire(b) \/ RunTimeout(b) \/ RunSegment(b) \/ RunFree(b)

\* Threads that can run do run; nobody has to request or stop a service
Spec == Init /\ [][Next]_vars
        /\ WF_vars(Processor) /\ WF_vars(Stop) /\ \A b \in Backends : WF_vars(Run(b))

-----------------------------------------------------------------------------
Cifs == 0 .. MaxCif

\* The types of the state: among others both semaphores stay within NUMBER_SLOTS, so that
\* neither side of Backend::process / Backend::run ever releases more than it acquired.
TypeOK ==
  /\ THREADED_BACKEND \in BOOLEAN
  /\ mBackendList \in Seq(Backends) /\ toStop \in Seq(Backends) /\ todo \in Seq(Backends)
  /\ key \in [Backends -> Keys \cup {NoKey}]
  /\ dsp \in {"block", "backends", "copy"}
  /\ block \in 0 .. BlocksPerCif - 1 /\ cif \in Cifs
  /\ running \in [Backends -> BOOLEAN]
  /\ thread \in [Backends -> {"none", "loop", "wait", "segment", "free"}]
  /\ theData \in [Backends -> [0 .. NUMBER_SLOTS - 1 -> Cifs \cup {NoCif}]]
  /\ nextIn \in [Backends -> 0 .. NUMBER_SLOTS - 1]
  /\ nextOut \in [Backends -> 0 .. NUMBER_SLOTS - 1]
  /\ freeSlots \in [Backends -> 0 .. NUMBER_SLOTS]
  /\ usedSlots \in [Backends -> 0 .. NUMBER_SLOTS]
  /\ interleaveData \in [Backends -> [Classes -> Cifs \cup {NoCif}]]
  /\ interleaverIndex \in [Backends -> Classes]
  /\ countforInterleaver \in [Backends -> 0 .. Depth]
  /\ tempX \in [Backends -> [Classes -> Cifs \cup {NoCif}]]
  /\ lastFrame \in [Backends -> [Classes -> Cifs \cup {NoCif}]]

\* A backend that is working - the processor thread is inside its process(), or its own
\* thread is running - still exists: it is listed or a stop_... call is waiting for it.
WorkingBackendExists ==
  /\ \A i \in DOMAIN todo : todo[i] \in Listed
  /\ \A b \in Backends : thread[b] # "none" => b \in Listed \cup Stopping

\* Whatever frame reaches add_to_frame is de-interleaved from Depth consecutive CIFs that all
\* were received: no slot was overwritten before it was read, none read twice, none skipped,
\* and the de-interleaver was filled.
FrameFromConsecutiveCifs ==
  \A b \in Backends : lastFrame[b] # Empty =>
    \A c \in Classes : lastFrame[b][0] \in Cifs /\ lastFrame[b][c] = lastFrame[b][0] + c

\* Frames of a service leave the backend in order and without a gap, however the processor
\* thread, the backend thread and the GUI thread interleave.
NoFrameLost ==
  [][\A b \in Backends : lastFrame[b] # Empty /\ lastFrame'[b] # lastFrame[b] /\ lastFrame'[b] # Empty
       => lastFrame'[b][0] = lastFrame[b][0] + 1]_vars

\* The wait for a free slot, done with mMutex held, ends: the processor thread always comes
\* back to unlock it, so that no GUI call waits for mMutex for ever.
MutexReleased == dsp # "block" ~> mMutexFree

\* stop_service, stop_all_services and reset_channel return: every backend thread they wait
\* for ends, with whatever number of slots still in use.
StopReturns == toStop # <<>> ~> toStop = <<>>
=============================================================================
