# A TLA+ model of DABstar

DABstar is a DAB/DAB+ receiver in C++ and Qt. This directory models the parts of
it whose correctness depends on the order of events: threads that share buffers
and objects, GUI slots that race with timers and queued signals, and decoders
that have to live with lost and repeated data. TLC checks the models on small
instances; TLAPS proves the ring buffer, on which every thread boundary rests,
for every size.

Paths below are relative to `src/src/` of the repository. `PROJECT.json` gives,
for each definition, the source lines it stands for.

## The system

| Thread | Code | Shares |
|---|---|---|
| device or file reader | `devices/*` | sample `RingBuffer` with the processor thread |
| `DabProcessor` | `base/main/dab_processor.cpp`, `base/ofdm/*` | `running` flag, ETI generator, scan mode with the GUI; FIB data through `FibDecoder` |
| backends (only with `__THREADED_BACKEND__`) | `base/backend/backend.cpp` | slots with the processor thread, life time with the GUI |
| audio | `base/audio/*` | audio `RingBuffer`, queued calls from the GUI |
| GUI | `base/main/dabradio*.cpp`, `base/ensemble_list`, `base/service_list` | everything above, by calls and by queued signals |

Data flow: device → sample ring buffer → OFDM frame → FIC symbols to the FIC and
FIB decoder, MSC symbols to the `MscHandler` → one `Backend` per sub-channel
(time de-interleaving, deconvolution) → MP2, AAC or packet data processor → audio
ring buffer, dynamic label, MOT objects. The ETI generator taps the MSC symbols.
Control flow: the user, the ensemble list (scan) and the timers act on `DabRadio`,
which starts and stops channels and services and is told by queued signals what
the processor thread has found.

What is hard about it:

* indices and flags that two threads read and write without a lock (ring buffer,
  `running`, `mEtiOn`, dump files);
* waiting with a mutex held (backend slots), and `wait()` for a thread that waits
  for samples;
* queued signals and timer events of a channel that has been left already;
* two objects that both keep "the current channel" of a scan;
* modular counters: ring indices, CIF counts (250 × 20), interleaver positions,
  packet continuity;
* lost, damaged and repeated packets and frames in carousels, and state that
  outlives them (type and length of the last X-PAD frame, half a series).

## Modules

| Module | Models | Kind |
|---|---|---|
| `RingBuffer` | `common/ringbuffer.h` | component, two threads |
| `BoundedFifo` | what the ring buffer promises | abstract specification |
| `PowerOfTwo` | rounding of the size | pure function |
| `RingBufferFlush` | `flush_ring_buffer` by the consumer | extension of `RingBuffer` |
| `RingBufferProofs` | | proofs |
| `DabProcessor` | `DabProcessor`, `SampleReader`, `TimeSyncer` | GUI, processor and device thread |
| `MscHandler` | `MscHandler`, `Backend` | GUI, processor and backend threads |
| `EtiGenerator` | `EtiGenerator` | processor thread, GUI calls |
| `DabRadio` | `DabRadio`, `EnsembleList`, `ServiceListHandler`, `FibDecoder` loading state | composition in the GUI event loop |
| `MotObject` | `MotObject` | functions on an object |
| `DataProcessor` | `DataProcessor`, `MotHandler`, `MotDirectory` | component with a lossy sender |
| `PadHandler` | `PadHandler` | component with a lossy sender |
| `DataServices` | `BackendDriver`'s choice between the two | composition |

`MC…` modules hold the values of constants that a `.cfg` cannot express.
Definitions whose name ends in `_…` and whose comment begins with "mutant" are
deliberately wrong variants; each shows that a property can fail.

### RingBuffer

State: the atomics `writeIndex` and `readIndex` (running modulo twice the size),
the slots, and for each thread its program counter and the local variables of its
call. `put_data_into_ring_buffer` and `get_data_from_ring_buffer` are cut at every
point the other thread can see: the load of the indices that fixes the two
regions, the copy of each element, the load and the store of the thread's own
index. The writer that works directly on the segments
(`get_writable_ring_buffer_segment`) and `skip_ring_buffer_data`, which reads the
fill level twice, are actions too. Elements are numbered in put order; `nPut` and
`nGot` count them and are the only history variables.

* `FillLevelExact`: the fill level the masks compute is the number of elements
  that have been put and not taken.
* `WriteWithinRoom`: a write never touches an unread slot or leaves the buffer.
* `FifoOrder`: what the consumer has copied are the next elements in put order,
  although the copy races with the producer.
* `SmallestPowerOfTwo`: the size is rounded as the masks need it (for words of 8
  bits, all values; the last increment wraps).
* `RefinesBoundedFifo`: every step is an atomic put or take of a bounded queue, or
  no visible step. The queue is what the slots between the two indices hold.

`RingBufferFlush` adds the two stores of `flush_ring_buffer` in the consumer
thread, as `SampleReader::set_running` does while the device is running; the
comment about the room that is returned then fails (finding 1).

### DabProcessor

`stage` says where `run()` is: settling, measuring the level, waiting for the dip,
evaluating the sync symbol, reading the symbols of a frame, the null symbol. Every
`get_samples` is two steps, since the device may deliver or fall silent and
`running` may change in between. The GUI calls `start`, `stop`, destruction, scan
mode and the ETI switch are split where the code waits or where two of its stores
can be separated. What the correlation finds is a nondeterministic choice.

* `ThreadWithinLifetime`: after `stop()` has returned, or the object is deleted,
  `run()` is not executing.
* `StopReturns`: `stop()` returns, even when the device delivers nothing.

`StopWhileStarting` says whether `stop()` may come before the new thread has
executed `set_running(true)`. It is `FALSE` in the passing run; with `TRUE` the
request is lost and `stop()` never returns (finding 2). `EtiGeneratorAlive` fails
as the generator is deleted between the test of `mEtiOn` and its use (finding 3).

### MscHandler

State: the list of backends, the processor thread's place in `process_block` and
its loop over the list (with `mMutex` held), the GUI thread's list of backends to
stop, and for each backend its thread, its slots with two semaphores, and its
de-interleaver. Whether the program was built with `__THREADED_BACKEND__` is
chosen in the initial state. A CIF is its number; the bits of a CIF fall in classes
by their delay.

* `WorkingBackendExists`: no backend is deleted while a thread is in it.
* `FrameFromConsecutiveCifs`, `NoFrameLost`: a frame that is passed on consists of
  consecutive CIFs with each bit class at its delay; frames come without a gap.
* `MutexReleased`, `StopReturns`: the processor thread never waits for ever with
  `mMutex` held, and stopping a service returns.

### EtiGenerator

`process_block` by symbol: the first symbol starts, the fourth imports the FIBs,
the last of a CIF stores it and may write a frame. Frames can be lost, FIG 0/0 can
be missing, recordings are started and stopped at any symbol. The count a frame gets
is that of its own FIG 0/0, that of an earlier one, or 0 when none was decoded since
the FIB decoder was reset. The return of `process_block` for a negative count is never
taken: a running generator has asked the FIB decoder, which counts from 0 (`TypeOK`).

* `CountAndFibsOfCif`: each frame has the FIBs and, if its FIG 0/0 was received, the
  count and the phase of its CIF. The runs start at CIF 236 and 4986, so that the low
  part passes 250 within a DAB frame (248 + 2) and the high part becomes 20 at 5000.
  The limit of the high part to 20 never changes a value, so nothing depends on it.
* `SettledFrames`: after the first `Depth` frames of a recording the bits come from
  the right CIFs whatever an earlier recording left behind.

`MatrixFilled`, which the comment about waiting for the matrix suggests, fails for
the first frames with the real depth of 16 (finding 4).

### DabRadio

A slot is one step of the GUI thread. As slots call each other, they are functions
on a record `g` of the whole state: `radio` (members of `DabRadio`), `list`
(ensemble and service list with what is stored of them), `fib` (loading state,
received FIGs, timers) and `posted` (the queue of events from the processor thread
and of queued connections). Posted events keep their order; timers and user input
may overtake them. A channel is a row of the ensemble list; a service is known by
two FIGs, basic data and label. The program begins without a device; one that is
selected may fail to open. A channel that is asked for without a device is answered
with `InvalidFileOrDevice`, which ends a scan.

* `NoServiceWhileScanning`: the assertion of `_start_primary_and_secondary_service`.
* `ServiceOfChannel`, `ListedUnderItsChannel`: the playing service and the listed
  services belong to the channel, although channel, SId and FIB data are set by
  different slots and late events arrive.
* `ScanInStep`: ensemble list, `DabRadio` and tuner agree during a scan, and every
  channel before the current one got exactly one verdict.
* `TimerWhileScanning`: one of the two timers that can end a channel is active.
* `ScanTerminates`: every scan ends.

`ResetWhileScanning` allows the reset button during a scan; the runs keep it
`FALSE`: the button ends the scan in `DabRadio` but not in the ensemble list (listed
as a hazard), so that `ScanInStep`, `TimerWhileScanning` and `ScanTerminates` are
claimed only without it. `NoRereadOfKnownChannel` is about the level that is stored at
the moment a channel is selected. `WatchedRow` names the row that is followed for it
(0: none, as in the passing run). It fails since the stored level is never read from
the database (finding 5).

### DataServices

`MotObject` is the reassembly of one object: header, map of segments, number of
segments; another transport id starts anew; a repeated segment is ignored.

`DataProcessor`: packets with continuity index and CRC become data groups, which go
to the table of objects and the directory. A damaged packet is either not
recognised (another address) or read with any continuity index and a wrong CRC. Of
the collected bytes the model keeps which group they begin with and how many of its
packets follow without a hole. The CRC of a group is right exactly for the whole
group; a group without the CRC flag is not checked and may be taken with a hole. A
directory is assumed to have a CRC (`DirectoryAssumption`), and the header of a group
to be within its first packet. The order numbers of the table are its order, oldest first.

`PadHandler`: frames of variable X-PAD with or without content indicators, for MOT
data groups and the dynamic label. A byte is a triple that says where it comes
from, and groups and texts are sequences of such bytes, so that bytes that go the
wrong way are seen. The first byte of a group stands for its header, which a field
never cuts. A frame is lost (the audio frame is not decoded), or has bit errors, as
MP2 frames have no CRC of their own over the X-PAD: a wrong CRC of the data group
length, or an indicator that reads past the frame, after which the code handles no
further field.

* `PacketBodyIntact`, `PadObjectIntact`: an emitted object has all segments of one
  object in order, and those that were sent with a CRC are as they were sent (in X-PAD
  the header, too). The bytes of a segment without a CRC are not claimed: both
  handlers accept it with a hole, and the instance reaches this. In packet mode
  the header is not claimed: an object whose body comes first gets a header core made
  of body bytes.
* `OneHandlePerObject`: the repetitions of a carousel make no second entry in the
  table. The directory may have an object with the same id.
* `EmittedOnce`: in packet mode they make no second signal while the object is held.
  In X-PAD a repeated header of a complete object does emit it again.
* `LabelIntact`: a label received without loss since its first segment is shown as
  it was sent, whatever state earlier losses left. A label that loses a frame itself
  may be shown with a hole or with bytes of a data group; this is not claimed.
* `EveryObjectEmitted`, `LabelShown`: once losses stop, everything gets through. The
  groups of an object follow each other; what happens when more objects than the table
  has entries are interleaved is not covered.

## Runs

| Run | Expected | Instance | Distinct states |
|---|---|---|---|
| `ring_buffer` | pass | 4 slots, calls of up to 5, 18 elements | 13,429 |
| `ring_buffer_flush` | violation | 4 slots, 9 elements | |
| `dab_processor` | pass | 6 symbols, 2 units of samples, 3 attempts | 5,530 |
| `dab_processor_early_stop`, `dab_processor_eti` | violation | the same | |
| `eti_generator` | pass | depth 8, 4 CIFs per frame, 6 frames, from CIF 236 and 4986 | 3,162,700 |
| `eti_generator_filled` | violation | depth 16, 4 CIFs per frame, 6 frames | |
| `msc_handler` | pass | 2 backends, 2 slots, depth 2, 5 CIFs | 148,619 |
| `msc_handler_progress` | pass | 2 backends, 1 slot, 3 CIFs, liveness | 45,974 |
| `dab_radio` | pass | 2 channels, 1 retry, 1 posted event, 1 restart | 449,093 |
| `dab_radio_reread` | violation | the same, one row followed | |
| `data_services` | pass | 9 groups in 15 packets, 17 frames, 4 losses in each | 87,596 |

Why the bounds are enough:

* Ring buffer: 18 elements are more than two rounds of the indices, which run
  modulo 8; calls may ask for more than the buffer holds, and both regions occur.
* `DabProcessor`: six symbols are more than the three that the FIC decoder gets;
  three attempts reach the limit, where the count is cleared.
* `MscHandler`: two slots are the least with a full, a partly filled and an empty
  ring; five CIFs go round the slots and the de-interleaver twice. With one slot
  the processor thread waits with every CIF. `SYMMETRY` is used in the safety run
  only.
* `EtiGenerator`: six frames of four CIFs, as in the code, allow a recording and a
  second one with settled frames, and frames that are written before and after each
  wrap of the count. The depth is 8 instead of 16; with both the filling ends at the
  third CIF of a frame, and the fourth finds `Minor` still at -1.
* `DabRadio`: two channels make a channel that is left and one that is entered;
  one has a service, the other none, so that both ways of ending a channel occur.
  The processor thread posts nothing while an event is queued (`MaxPosted`), but a slot
  may post several. The user acts with up to one event queued and so before it; timers
  fire at any time, also before all that is queued. `MaxRestarts` bounds how often the
  FIB decoder starts again within a channel.
* Data: the table holds two of three objects, so that eviction occurs when the
  directory is damaged; groups have one, two and three packets, with and without a CRC.
  15 and 4 have no common factor, so that a packet comes with all four continuity
  indices in turn. In X-PAD there are groups in one and in several frames, with and
  without indicators, CRC and segment number, labels of one and two segments and a
  label command.

`CHECK_DEADLOCK FALSE` is set for `EtiGenerator` and `MscHandler`, where the
reception ends at the bound on frames or CIFs.

## Fairness

* `DabProcessor`: weak fairness of the processor thread and of a GUI call that has
  begun. The operating system runs both. Nothing is assumed of the device or the
  user.
* `MscHandler`: weak fairness of the processor thread, of each backend thread and
  of a stop that has begun.
* `DabRadio`: a timer that stays active fires (Qt's event loop). It is written as
  "infinitely often not active, or infinitely often fired", which is weak fairness
  with the guard spelled out. Nothing is assumed about reception or the user.
* `DataServices`: the sender goes on for ever. Losses are bounded, which is what
  "once reception is good" means.

## Proofs

`RingBufferProofs` proves, for every `bufferSize` ≥ 1, any call size and any
interleaving of one producer and one consumer:

* `TypeCorrect`: `Spec => []TypeOK`;
* `FifoCorrect`: `Spec => [](FifoOrder /\ FillLevelExact)`;
* `RoomCorrect`: `Spec => []WriteWithinRoom`.

Assumptions: `SizeAssumption` (size positive; that it is a power of two is not
needed once the masks are read as remainders), `CountAssumption` and
`ElemsAssumption` (the bounds are natural numbers). `WordAssumption`, that a `u32` is
large against the size, is stated for the model; the proofs do not use it, as the
fill level is never negative without a flush. The flush is not covered by the proofs.

`FifoOrder` is not inductive: it says what has been copied, not why. The inductive
invariant `IInv` adds

* `UnreadInPlace`: the k-th unread element is in the k-th slot after `readIndex`;
* `ProducerInv`: in the middle of a put its regions are free slots after
  `writeIndex`, and what was copied so far is in place; a region that has been
  measured stays free because the consumer only adds room;
* `ConsumerInv`: in the middle of a get its regions are unread slots; they stay so
  because the producer only adds elements.

The lemmas `SmallMaskValue`, `BigMaskValue`, `SlotsDistinct`, `SlotFromReader`,
`RegionSlot`, `AdvanceWrite` and `AdvanceRead` carry the modular arithmetic; after
them the steps of each thread are checked one by one (`ProducerIInv`,
`ConsumerIInv`). Before the proof, TLC
checked `IInv` as an invariant on the instance of `ring_buffer` (13,429 states); that
check is not one of the runs.

Only model-checked: all other properties. Liveness under fairness, facts about
recursive functions for every input, and what needs `ENABLED` are outside of what
the prover does, so `StopReturns`, `MutexReleased`, `ScanTerminates`,
`EveryObjectEmitted`, `LabelShown` and `SmallestPowerOfTwo` will stay with TLC.

## Findings

1. `common/ringbuffer.h:197`: a flush during a put leaves a fill level larger than
   the buffer.
2. `base/main/dab_processor.cpp:117`: a `stop()` before `set_running(true)` is lost.
3. `base/main/dab_processor.cpp:352`: the ETI generator is used after deletion.
4. `base/eti_handler/eti_generator.cpp:164`: the first ETI frames come from an
   incomplete matrix.
5. `base/ensemble_list/ensemble_list_db.cpp:224`: the scan level is never loaded, so
   a known channel is read again at every start.

## Not modelled

* Signal processing (OFDM, Viterbi, Reed-Solomon, fire code, AAC, MP2, TII): its
  results are nondeterministic choices of the models.
* Device handlers and file readers: they appear as producer of the ring buffer.
* FIG parsing: FIGs appear as two facts about a service.
* Journaline, EPG, IP and TDC data: their state is not used by other parts.
* Short X-PAD. It shares the label text (`mDynamicLabelTextUnConverted`) and the
  character set (`mCharSet`) with variable X-PAD, so what is claimed of labels holds
  for a service that keeps to variable X-PAD.
* Displays, configuration, update check, map and TCP server, file output.
* Character sets.

### Inventory of what is left out but has state

| Part | State and operations | Hard behaviour |
|---|---|---|
| Audio output, `base/audio/` | pipeline, sink, current and restart FIFO; start, stop, restart, mute as queued calls | a stop or restart that is deferred while another one is under way; dump switched while the audio thread writes |
| FIB configuration, `base/decoder/fib_decoder_fig0.cpp` | current and next tables, change flag; FIG 0/0 swaps them | a lost FIG 0/0 at the change |
| `Mp4Processor`, `base/backend/audio/mp4processor.cpp` | ring of five frames, fill count, fire code result | resynchronisation after a bad superframe |
| File readers, `devices/filereaders/` | thread, running flag, position | stop while the reader waits for room; end of file |
| Recording of samples, FIC and audio | file pointer that two threads use | switch between the test and the write |

The hazards of these parts are in `PROJECT.json` with a note that no property covers
them yet.

## Plan

Model next, in this order:

1. Audio output: pipeline, sink and I/O device, with the deferred stop and restart
   (`base/audio/audiooutputqt.cpp:221`) and the dump state seen by the GUI.
2. Current and next FIB configuration with lost FIG 0/0
   (`base/decoder/fib_decoder_fig0.cpp:104`).
3. Superframe synchronisation of `Mp4Processor`.
4. Start and stop of the file readers; sample and FIC dumps.
5. Composition of `DabProcessor` with `MscHandler` (scan mode in mid-frame).

Prove next: that `RingBuffer` implements `BoundedFifo`; `ThreadWithinLifetime`;
`WorkingBackendExists` and the semaphore bounds of `MscHandler`;
`FrameFromConsecutiveCifs` for every depth; `TimerWhileScanning` and `ScanInStep`
for every number of channels; that a complete `MotObject` has no missing segment.
