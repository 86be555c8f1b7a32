---------------------------- MODULE DabProcessor ----------------------------
(***************************************************************************)
(* The life cycle of DabProcessor (src/src/base/main/dab_processor.cpp)    *)
(* and its SampleReader (src/src/base/ofdm/sample_reader.cpp): the GUI     *)
(* thread starts and stops the processor thread, the processor thread      *)
(* pulls samples through the receiver's three states, and the device       *)
(* thread delivers samples.                                                *)
(*                                                                         *)
(* Samples are counted in units of one get_samples call.  What the signal  *)
(* processing decides (a dip was found, the phase reference correlates) is *)
(* a nondeterministic choice.                                              *)
(***************************************************************************)
EXTENDS Integers

CONSTANTS
  cL,             \* OFDM symbols per frame (76 in the code): FIC in 1..3, MSC from 4
  SettleReads,    \* get_samples calls of discard_samples
  LevelReads,     \* get_samples calls of the signal strength loop (20 in the code)
  NoDipLimit,     \* attempts before signal_no_dip_sync_found (8 in the code)
  MaxSamples,     \* bound: units the device buffer holds
  StopWhileStarting   \* may stop() come before run() has executed set_running(true)?

ASSUME FrameAssumption == cL \in Nat /\ cL > 4
ASSUME ReadsAssumption == SettleReads \in Nat \ {0} /\ LevelReads \in Nat \ {0}
ASSUME LimitAssumption == NoDipLimit \in Nat \ {0} /\ MaxSamples \in Nat \ {0}
ASSUME StopAssumption == StopWhileStarting \in BOOLEAN

VARIABLES
  running,     \* SampleReader::running
  samples,     \* units in the device's ring buffer
  stage,       \* where run() is; "none" when the thread does not run
  reading,     \* the processor thread is inside IDeviceHandler::getSamples
  readsLeft,   \* remaining reads of a loop of run()
  symb,        \* ofdmSymbIdx, 0 outside the loop over the symbols
  mTimeSyncAttemptCount,
  gui,         \* what the GUI thread is doing: "idle" or a step of one of its calls
  exists,      \* the DabProcessor object exists
  mScanMode,
  isFileInput, \* the device is a file reader
  ficRunning,  \* FicDecoder::mIsRunning
  mEtiOn, mpEtiGenerator

threadVars == <<stage, reading, readsLeft, symb, mTimeSyncAttemptCount>>
modeVars == <<mScanMode, isFileInput>>
etiVars == <<mEtiOn, mpEtiGenerator>>
vars == <<running, samples, threadVars, gui, exists, modeVars, ficRunning, etiVars>>

ReadStages == {"discard", "level", "wait", "eval", "eval2", "frame", "null"}
Stages == {"none", "start", "flush", "etiTest", "etiCall"} \cup ReadStages

Init ==
  /\ running = TRUE /\ samples = 0     \* the constructor of SampleReader
  /\ stage = "none" /\ reading = FALSE /\ readsLeft = 0 /\ symb = 0
  /\ mTimeSyncAttemptCount = 0
  /\ gui = "idle" /\ exists = TRUE /\ mScanMode = FALSE /\ ficRunning = FALSE
  /\ isFileInput \in BOOLEAN
  /\ mEtiOn = FALSE /\ mpEtiGenerator = "null"

-----------------------------------------------------------------------------
(* Device thread *)

\* The device puts samples into its ring buffer; a full buffer drops them.
Deliver ==
  /\ samples < MaxSamples
  /\ samples' = samples + 1
  /\ UNCHANGED <<running, threadVars, gui, exists, modeVars, ficRunning, etiVars>>

-----------------------------------------------------------------------------
(* GUI thread *)

\* DabRadio switches the scan mode on with the channel stopped, off at any time.
set_scan_mode(b) ==
  /\ gui = "idle" /\ exists
  /\ b => stage = "none"
  /\ mScanMode' = b
  /\ UNCHANGED <<running, samples, threadVars, gui, exists, isFileInput, ficRunning, etiVars>>

\* start(): mFicHandler.restart, then the thread is created
Start ==
  /\ gui = "idle" /\ exists /\ stage = "none"
  /\ ficRunning' = TRUE
  /\ stage' = "start"
  /\ UNCHANGED <<running, samples, reading, readsLeft, symb, mTimeSyncAttemptCount,
                 gui, exists, modeVars, etiVars>>

\* stop() and the destructor begin with set_running(false): running.store(false) ...
StopStore(nextGui) ==
  /\ gui = "idle" /\ exists
  /\ stage = "start" => StopWhileStarting
  /\ running' = FALSE
  /\ gui' = nextGui
  /\ UNCHANGED <<samples, threadVars, exists, modeVars, ficRunning, etiVars>>

Stop == StopStore("stopDrain")

\* _stop_channel, which DabRadio calls first, has stopped the ETI generator
Destroy == ~mEtiOn /\ StopStore("destroyDrain")

\* ... and, for a device, resetBuffer and reading out what is left
StopDrain ==
  /\ gui \in {"stopDrain", "destroyDrain"}
  /\ samples' = IF isFileInput THEN samples ELSE 0
  /\ gui' = IF gui = "stopDrain" THEN "stopWait" ELSE "destroyWait"
  /\ UNCHANGED <<running, threadVars, exists, modeVars, ficRunning, etiVars>>

\* mutant: stop() does not wait for the thread
StopDone_noWait ==
  /\ gui = "stopWait"
  /\ gui' = "idle"
  /\ ficRunning' = FALSE
  /\ UNCHANGED <<running, samples, threadVars, exists, modeVars, etiVars>>

\* stop(): wait() has returned; mFicHandler.stop()
StopDone ==
  /\ gui = "stopWait"
  /\ stage = "none"
  /\ gui' = "idle"
  /\ ficRunning' = FALSE
  /\ UNCHANGED <<running, samples, threadVars, exists, modeVars, etiVars>>

\* ~DabProcessor: wait() has returned, the members go
DestroyDone ==
  /\ gui = "destroyWait"
  /\ stage = "none"
  /\ gui' = "idle"
  /\ exists' = FALSE
  /\ UNCHANGED <<running, samples, threadVars, modeVars, ficRunning, etiVars>>

\* DabRadio::_create_and_init_dab_processor, for the device now selected
Create(scanning, fileInput) ==
  /\ gui = "idle" /\ ~exists
  /\ exists' = TRUE
  /\ mScanMode' = scanning
  /\ isFileInput' = fileInput
  /\ running' = TRUE /\ ficRunning' = FALSE
  /\ UNCHANGED <<samples, threadVars, gui, etiVars>>

\* start_eti_generator: the object first (the file may fail to open) ...
EtiStart(fileOpens) ==
  /\ gui = "idle" /\ exists /\ ~mEtiOn
  /\ mpEtiGenerator' = IF fileOpens THEN "generator" ELSE "null"
  /\ gui' = IF fileOpens THEN "etiStart" ELSE "idle"
  /\ UNCHANGED <<running, samples, threadVars, exists, modeVars, ficRunning, mEtiOn>>

\* ... then the flag
EtiSetOn ==
  /\ gui = "etiStart"
  /\ mEtiOn' = TRUE
  /\ gui' = "idle"
  /\ UNCHANGED <<running, samples, threadVars, exists, modeVars, ficRunning, mpEtiGenerator>>

\* stop_eti_generator: the flag first ...
EtiSetOff ==
  /\ gui = "idle" /\ exists /\ mEtiOn
  /\ mEtiOn' = FALSE
  /\ gui' = "etiStop"
  /\ UNCHANGED <<running, samples, threadVars, exists, modeVars, ficRunning, mpEtiGenerator>>

\* ... then the object: EtiGenerator::stop_eti_generator takes the generator's mutex
\* and so waits for a process_block that has already begun, mpEtiGenerator.reset()
EtiDelete ==
  /\ gui = "etiStop"
  /\ mpEtiGenerator' = "null"
  /\ gui' = "idle"
  /\ UNCHANGED <<running, samples, threadVars, exists, modeVars, ficRunning, mEtiOn>>

-----------------------------------------------------------------------------
(* Processor thread: run() *)

\* set_running(true): running.store(true) ...
RunStart ==
  /\ stage = "start"
  /\ running' = TRUE
  /\ stage' = "flush"
  /\ UNCHANGED <<samples, reading, readsLeft, symb, mTimeSyncAttemptCount, gui, exists,
                 modeVars, ficRunning, etiVars>>

\* ... and, for a device, resetBuffer and reading out what is left; then the members of a
\* new channel.  discard_samples does nothing for a file.
RunFlush ==
  /\ stage = "flush"
  /\ samples' = IF isFileInput THEN samples ELSE 0
  /\ stage' = IF isFileInput THEN "level" ELSE "discard"
  /\ readsLeft' = IF isFileInput THEN LevelReads ELSE SettleReads
  /\ mTimeSyncAttemptCount' = 0
  /\ UNCHANGED <<running, reading, symb, gui, exists, modeVars, ficRunning, etiVars>>

\* get_samples: samples are there and the reader is still to run
ReadBegin ==
  /\ stage \in ReadStages
  /\ ~reading
  /\ running
  /\ samples > 0
  /\ reading' = TRUE
  /\ UNCHANGED <<running, samples, stage, readsLeft, symb, mTimeSyncAttemptCount, gui,
                 exists, modeVars, ficRunning, etiVars>>

\* mutant: the wait for samples does not look at running
Abort_onlyWithSamples ==
  /\ stage \in ReadStages
  /\ ~reading
  /\ ~running
  /\ samples > 0
  /\ stage' = "none"
  /\ readsLeft' = 0 /\ symb' = 0
  /\ UNCHANGED <<running, samples, reading, mTimeSyncAttemptCount, gui, exists, modeVars,
                 ficRunning, etiVars>>

\* get_samples throws 20, run() catches it and returns.  discard_samples returns
\* without an exception, and the next get_samples throws.
Abort ==
  /\ stage \in ReadStages
  /\ ~reading
  /\ ~running
  /\ stage' = "none"
  /\ readsLeft' = 0 /\ symb' = 0
  /\ UNCHANGED <<running, samples, reading, mTimeSyncAttemptCount, gui, exists, modeVars,
                 ficRunning, etiVars>>

\* getSamples returns; the buffer may have been flushed in the meantime
ReadEnd ==
  /\ reading
  /\ reading' = FALSE
  /\ samples' = IF samples > 0 THEN samples - 1 ELSE 0
  /\ UNCHANGED <<running, gui, exists, modeVars, ficRunning, etiVars>>

\* discard_samples(cSettleSampleCnt), then the loop that estimates the signal strength
Preamble ==
  /\ stage \in {"discard", "level"} /\ ReadEnd
  /\ IF readsLeft > 1
       THEN readsLeft' = readsLeft - 1 /\ UNCHANGED stage
       ELSE IF stage = "discard"
              THEN stage' = "level" /\ readsLeft' = LevelReads
              ELSE stage' = "wait" /\ readsLeft' = 0
  /\ UNCHANGED <<symb, mTimeSyncAttemptCount>>

\* _state_wait_for_time_sync_marker: TIMESYNC_ESTABLISHED, ...
TimeSyncEstablished ==
  /\ stage = "wait" /\ ReadEnd
  /\ stage' = "eval"
  /\ mTimeSyncAttemptCount' = 0
  /\ UNCHANGED <<readsLeft, symb>>

\* mutant: the count of attempts is not cleared at the limit
NoDipFound_keepCount ==
  /\ stage = "wait" /\ ReadEnd
  /\ mTimeSyncAttemptCount' = mTimeSyncAttemptCount + 1
  /\ mTimeSyncAttemptCount < NoDipLimit
  /\ UNCHANGED <<stage, readsLeft, symb>>

\* ... NO_DIP_FOUND, with signal_no_dip_sync_found at the limit, ...
NoDipFound ==
  /\ stage = "wait" /\ ReadEnd
  /\ mTimeSyncAttemptCount' = (mTimeSyncAttemptCount + 1) % NoDipLimit
  /\ UNCHANGED <<stage, readsLeft, symb>>

\* ... or NO_END_OF_DIP_FOUND
NoEndOfDipFound ==
  /\ stage = "wait" /\ ReadEnd
  /\ mTimeSyncAttemptCount' = 0
  /\ UNCHANGED <<stage, readsLeft, symb>>

\* _state_eval_sync_symbol: the first read and the correlation, ...
EvalSyncSymbol(found) ==
  /\ stage = "eval" /\ ReadEnd
  /\ stage' = IF found THEN "eval2" ELSE "wait"
  /\ UNCHANGED <<readsLeft, symb, mTimeSyncAttemptCount>>

\* ... and the read of the rest of symbol 0; _state_process_rest_of_frame begins
ReadSyncSymbol ==
  /\ stage = "eval2" /\ ReadEnd
  /\ stage' = "frame"
  /\ symb' = 1
  /\ UNCHANGED <<readsLeft, mTimeSyncAttemptCount>>

\* _process_ofdm_symbols_1_to_L: one symbol is read and decoded, the FIC decoder gets
\* it if it is one of the first three
ReadSymbol ==
  /\ stage = "frame" /\ ReadEnd
  /\ stage' = "etiTest"
  /\ UNCHANGED <<readsLeft, symb, mTimeSyncAttemptCount>>

\* The end of the loop body: the MSC handler gets the symbol (process_block is in module
\* MscHandler), on to the next symbol or to the null symbol
NextSymbol ==
  IF symb + 1 < cL THEN stage' = "frame" /\ symb' = symb + 1
                   ELSE stage' = "null" /\ symb' = 0

\* if (mEtiOn) ...
EtiTest ==
  /\ stage = "etiTest"
  /\ IF mEtiOn THEN stage' = "etiCall" /\ UNCHANGED symb ELSE NextSymbol
  /\ UNCHANGED <<running, samples, reading, readsLeft, mTimeSyncAttemptCount, gui, exists,
                 modeVars, ficRunning, etiVars>>

\* ... mpEtiGenerator->process_block()
EtiCall ==
  /\ stage = "etiCall"
  /\ NextSymbol
  /\ UNCHANGED <<running, samples, reading, readsLeft, mTimeSyncAttemptCount, gui, exists,
                 modeVars, ficRunning, etiVars>>

\* _process_null_symbol; the next state is EVAL_SYNC_SYMBOL
NullSymbol ==
  /\ stage = "null" /\ ReadEnd
  /\ stage' = "eval"
  /\ UNCHANGED <<readsLeft, symb, mTimeSyncAttemptCount>>

-----------------------------------------------------------------------------
Thread ==
  \/ RunStart \/ RunFlush \/ ReadBegin \/ Abort
  \/ Preamble \/ TimeSyncEstablished \/ NoDipFound \/ NoEndOfDipFound
  \/ \E found \in BOOLEAN : EvalSyncSymbol(found)
  \/ ReadSyncSymbol \/ ReadSymbol \/ EtiTest \/ EtiCall \/ NullSymbol

\* The rest of a GUI call that has begun
GuiContinue == StopDrain \/ StopDone \/ DestroyDone \/ EtiSetOn \/ EtiDelete

Gui ==
  \/ Start \/ Stop \/ Destroy \/ EtiSetOff
  \/ \E b \in BOOLEAN : set_scan_mode(b) \/ EtiStart(b)
  \/ \E scanning, fileInput \in BOOLEAN : Create(scanning, fileInput)
  \/ GuiContinue

Next == Deliver \/ Gui \/ Thread

\* The operating system runs both threads; a call the GUI thread has begun goes on.
\* Nothing makes the user call anything, nor the device deliver anything.
Fairness == WF_vars(Thread) /\ WF_vars(GuiContinue)

Spec == Init /\ [][Next]_vars /\ Fairness

-----------------------------------------------------------------------------
(* Properties *)

\* The types of the state; mTimeSyncAttemptCount is cleared when it gets to the limit.
TypeOK ==
  /\ running \in BOOLEAN
  /\ samples \in 0 .. MaxSamples
  /\ stage \in Stages
  /\ reading \in BOOLEAN
  /\ readsLeft \in Nat
  /\ symb \in 0 .. cL - 1
  /\ mTimeSyncAttemptCount \in 0 .. NoDipLimit - 1
  /\ gui \in {"idle", "stopDrain", "destroyDrain", "stopWait", "destroyWait", "etiStart",
              "etiStop"}
  /\ exists \in BOOLEAN /\ ficRunning \in BOOLEAN
  /\ mScanMode \in BOOLEAN /\ isFileInput \in BOOLEAN
  /\ mEtiOn \in BOOLEAN /\ mpEtiGenerator \in {"null", "generator"}

\* Once stop() has returned, or the object is gone, run() is out of the FIC and the
\* members: the GUI thread may reset them for the next channel.
ThreadWithinLifetime == stage # "none" => exists /\ ficRunning

\* stop() returns: whatever run() is doing, and even if the device is silent,
\* running = false makes get_samples throw, and wait() comes back.
StopReturns == gui = "stopWait" ~> gui = "idle"

\* "this would hang short time if process thread is still running" (comment in
\* stop_eti_generator): the processor thread never calls process_block of a generator
\* that stop_eti_generator has deleted.
EtiGeneratorAlive == stage = "etiCall" => mpEtiGenerator = "generator"
=============================================================================
