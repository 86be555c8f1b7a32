------------------------------ MODULE DabRadio ------------------------------
(***************************************************************************)
(* Channel, service and scan control of a device receiver: DabRadio        *)
(* (src/src/base/main/dabradio*.cpp), the EnsembleList that drives it      *)
(* (src/src/base/ensemble_list) and the loading state of the FibDecoder    *)
(* (src/src/base/decoder/fib_decoder.cpp) it waits for.                    *)
(*                                                                         *)
(* Everything but the reception runs in the GUI thread: a slot is one      *)
(* step.  The processor thread fills the FIB decoder and posts events to   *)
(* the GUI thread; posted events keep their order, but timers and user     *)
(* input may be served before them.  What a slot does is written as a      *)
(* function of the whole state, since slots call each other.               *)
(*                                                                         *)
(* A channel is its row in the ensemble list (all rows are shown).  The    *)
(* FIGs of an audio service are two elements: its basic data (FIG 0/1 and  *)
(* 0/2) and its label (FIG 1/1).                                           *)
(***************************************************************************)
EXTENDS Integers, Sequences, SequencesExt

CONSTANTS
  NrChannels,       \* rows of the ensemble list
  ServicesOf,       \* the audio services a channel carries; SIds are not 0
  WatchedRow,       \* the row whose stored scan level is followed, 0 for none
  RetriggerLimit,   \* retries for the deferred data (5 in the code)
  MaxPosted,        \* bound: the thread posts with fewer events queued, the user acts with no more
  MaxRestarts,      \* bound: FIBs with impossible content, per channel start
  ResetWhileScanning   \* may the reset button be used during a scan?

Channels == 1..NrChannels
SIds == UNION {ServicesOf[c] : c \in Channels}

ASSUME ChannelAssumption == NrChannels \in Nat \ {0}
ASSUME ServiceAssumption == DOMAIN ServicesOf = Channels /\ 0 \notin SIds
ASSUME WatchedAssumption == WatchedRow \in Channels \cup {0}
ASSUME LimitAssumption == RetriggerLimit \in Nat /\ MaxPosted \in Nat /\ MaxRestarts \in Nat
ASSUME ResetAssumption == ResetWhileScanning \in BOOLEAN

VARIABLES
  radio,    \* the members of DabRadio
  list,     \* the members and tables of EnsembleList and ServiceListHandler
  fib,      \* the FibDecoder, its timers and the channel the thread receives
  posted    \* events posted to the GUI thread

vars == <<radio, list, fib, posted>>

Now == [radio |-> radio, list |-> list, fib |-> fib, posted |-> posted]

Becomes(g) ==
  /\ radio' = g.radio
  /\ list' = g.list
  /\ fib' = g.fib
  /\ posted' = g.posted

\* EFibLoadingState
S0_Init == 0
S1_FastAudioDataLoaded == 1
S2_PrimaryBaseDataLoaded == 2
S3_FullyAudioDataLoaded == 3
S4_FullyPacketDataLoaded == 4
S5_DeferredDataLoaded == 5

\* EScanLevel; list.fibDataStored: WatchedRow is stored with SL2_FibData or more
SL0_Init == 0
SL2_FibData == 2

\* events: a state of the FIB decoder, or one without an argument
Loaded(state) == <<"fibLoaded", state>>
Signal(name) == <<name, 0>>
Events == {Loaded(n) : n \in S1_FastAudioDataLoaded..S5_DeferredDataLoaded}
            \cup {Signal(x) : x \in {"arm", "disarm", "noDip", "dip"}}

FreshFib == [tuned |-> 0, mFibLoadingState |-> S0_Init, figs |-> {},
             mSIdForFastAudioSelection |-> 0,
             consistencyTimer |-> FALSE, checkTimer |-> FALSE, restarts |-> 0]

\* a posted start or stop of the timers directly after the same call does nothing
PostTimers(q, call) ==
  IF q # << >> /\ Last(q) = Signal(call) THEN q ELSE Append(q, Signal(call))

Init ==
  /\ radio = [mpInputDevice |-> FALSE,              \* none is selected yet
              mIsChannelRunning |-> FALSE, mIsScanning |-> FALSE, fIdOrCh |-> 0,
              sIdToPlay |-> 0, knownRow |-> FALSE, mDipSyncState |-> "NotSetYet",
              mScanSecurityTimer |-> FALSE, mEnsListRetriggerTimer |-> FALSE,
              mEnsListRetriggerCnt |-> 0, fibDataSentToEL |-> FALSE,
              mCurPrimaryAudioService |-> 0]
  /\ list = [mIsScanning |-> FALSE, mCurrScanIdx |-> 0, verdicts |-> 0,
             mRowIdxClickOnList |-> 0,
             fibDataStored |-> FALSE,
             lastPlayedSId |-> [c \in Channels |-> 0],
             services |-> [c \in Channels |-> {}]]
  /\ fib = FreshFib
  /\ posted = << >>

-----------------------------------------------------------------------------
(* FibDecoder *)

BasicData(s) == <<"basic", s>>
Label(s) == <<"label", s>>
FigsOf(c) == {BasicData(s) : s \in ServicesOf[c]} \cup {Label(s) : s \in ServicesOf[c]}

\* the audio services get_service_list returns: labelled, with basic data
ServiceList(f) == {s \in SIds : Label(s) \in f.figs /\ BasicData(s) \in f.figs}

AudioServiceDefined(f, s) ==
  f.mFibLoadingState >= S1_FastAudioDataLoaded /\ BasicData(s) \in f.figs

AudioDataComplete(f) ==
  LET known == {s \in SIds : BasicData(s) \in f.figs}
  IN known # {} /\ \A s \in known : Label(s) \in f.figs

\* mutant: the services stay in the database
ResetConfig_keepFigs(f) == [f EXCEPT !.restarts = 0]

\* the databases FibConfigFig0 and FibConfigFig1 are emptied
ResetConfig(f) == [f EXCEPT !.figs = {}, !.restarts = 0]

\* connect_channel: the databases and the state are reset at once, the timers
\* are stopped by posted calls
ConnectChannel(g) ==
  LET reset == [g EXCEPT !.fib = ResetConfig(g.fib)]
  IN [reset EXCEPT !.fib.mFibLoadingState = S0_Init,
                   !.posted = PostTimers(@, "disarm")]

\* disconnect_channel: neither the state nor the timers
DisconnectChannel(g) == [g EXCEPT !.fib = ResetConfig(g.fib)]

-----------------------------------------------------------------------------
(* DabRadio: services and channels *)

\* mutant: the current service survives
StopServices_keepPrimary(g) ==
  [g EXCEPT !.radio.mEnsListRetriggerTimer = FALSE,
            !.radio.mScanSecurityTimer = FALSE]

StopServices(g) ==
  [g EXCEPT !.radio.mEnsListRetriggerTimer = FALSE,
            !.radio.mScanSecurityTimer = FALSE,
            !.radio.mCurPrimaryAudioService = 0]

\* _start_primary_and_secondary_service for an audio service
StartService(g, s) ==
  IF s # 0 /\ AudioServiceDefined(g.fib, s)
  THEN [g EXCEPT !.radio.mCurPrimaryAudioService = s]
  ELSE g

StopChannel(g) ==
  LET stopped == DisconnectChannel(StopServices(g))
  IN [stopped EXCEPT !.radio.mIsChannelRunning = FALSE,
                     !.radio.fibDataSentToEL = FALSE,     \* clean_channel
                     !.fib.tuned = 0]

StartChannel(g) ==
  LET started == ConnectChannel([g EXCEPT !.radio.mDipSyncState = "NotSetYet",
                                          !.radio.fibDataSentToEL = FALSE])
  IN [started EXCEPT !.radio.mIsChannelRunning = TRUE,
                     !.fib.tuned = g.radio.fIdOrCh,
                     !.fib.mSIdForFastAudioSelection =
                        IF g.radio.sIdToPlay # 0 THEN g.radio.sIdToPlay ELSE @]

\* _start_playing, service change within the running channel, and the answer
\* NewSId, which the ensemble list stores
ChangeService(g) ==
  LET c == g.radio.fIdOrCh
      changed == StartService(StopServices(g), g.radio.sIdToPlay)
      playing == changed.radio.mCurPrimaryAudioService
  IN IF playing # 0
     THEN [changed EXCEPT !.list.lastPlayedSId[c] = playing]
     ELSE changed

\* _stop_scanning
StopScanning(g) ==
  IF g.radio.mIsScanning
  THEN [g EXCEPT !.radio.mIsScanning = FALSE,
                 !.radio.mEnsListRetriggerTimer = FALSE,
                 !.radio.mScanSecurityTimer = FALSE]
  ELSE g

\* _stop_scan_process of the ensemble list; index and counters keep their values
StopScanProcess(g) == StopScanning([g EXCEPT !.list.mIsScanning = FALSE])

\* InvalidFileOrDevice ends a scan.  Outside of one the status message changes
\* nothing: without a device no service plays, so that the clicked row is not
\* played again.
StatusInvalidDevice(g) ==
  LET informed == [g EXCEPT !.radio.mEnsListRetriggerTimer = FALSE]
  IN IF g.list.mIsScanning THEN StopScanProcess(informed) ELSE informed

\* _slot_file_or_channel_to_play and _start_playing.  knownRow is a history
\* variable: WatchedRow was selected, with its FIB data already stored.
PlayChannel(g, c, s) ==
  LET changed == g.radio.fIdOrCh # c
      told == [g EXCEPT !.radio.fIdOrCh = c, !.radio.sIdToPlay = s,
                        !.radio.knownRow = c = WatchedRow /\ ~g.radio.mIsScanning
                                              /\ g.list.fibDataStored]
      ready == IF g.radio.mIsChannelRunning /\ changed THEN StopChannel(told) ELSE told
      watched == [ready EXCEPT !.radio.mScanSecurityTimer = TRUE]
      running == IF ready.radio.mIsChannelRunning THEN watched ELSE StartChannel(watched)
  IN IF ~g.radio.mpInputDevice THEN StatusInvalidDevice(ready)
     ELSE IF ~running.radio.mIsScanning /\ ~changed /\ s # 0 THEN ChangeService(running)
     ELSE running

-----------------------------------------------------------------------------
(* EnsembleList *)

\* _signal_fid_or_ch_from_table_index: without an SId the stored one is played
PlayRow(g, c, s) ==
  LET sIdToPlay == IF s # 0 THEN s ELSE g.list.lastPlayedSId[c]
  IN PlayChannel([g EXCEPT !.list.mRowIdxClickOnList = IF sIdToPlay = 0 THEN c ELSE 0],
                 c, sIdToPlay)

ScanRow(g, c) == PlayChannel(g, c, g.list.lastPlayedSId[c])

\* mutant: after its last row a scan starts over
AfterStatus_startOver(g, sIdPlayed) ==
  LET next == [g EXCEPT !.list.mCurrScanIdx = @ + 1]
      again == [g EXCEPT !.list.mCurrScanIdx = 0, !.list.verdicts = 0]
  IN IF ~g.list.mIsScanning THEN g
     ELSE IF next.list.mCurrScanIdx < NrChannels
          THEN ScanRow(next, next.list.mCurrScanIdx + 1)
          ELSE ScanRow(again, 1)

\* the end of slot_decoded_data_status: the next channel of a scan; otherwise a
\* clicked row that was started without an SId is played again
AfterStatus(g, sIdPlayed) ==
  LET next == [g EXCEPT !.list.mCurrScanIdx = @ + 1]
  IN IF g.list.mIsScanning
     THEN IF next.list.mCurrScanIdx < NrChannels
          THEN ScanRow(next, next.list.mCurrScanIdx + 1)
          ELSE StopScanProcess(next)
     ELSE IF g.list.mRowIdxClickOnList # 0 /\ sIdPlayed # 0
          THEN PlayRow(g, g.list.mRowIdxClickOnList, sIdPlayed)
          ELSE g

\* the verdicts are counted for the scan's final message only
CountVerdict(g) == IF g.list.mIsScanning THEN [g EXCEPT !.list.verdicts = @ + 1] ELSE g

\* NoNullSymbDet or WeakSignalDet, sent with _inform_ensemble_list
StatusFailed(g) ==
  AfterStatus(CountVerdict([g EXCEPT !.radio.mEnsListRetriggerTimer = FALSE,
                                     !.list.fibDataStored = @ /\ g.radio.fIdOrCh # WatchedRow]),
              g.radio.mCurPrimaryAudioService)

\* mutant: NewFib ends the channel of a scan, too
StatusNewFib_advance(g, s) ==
  AfterStatus([g EXCEPT !.radio.fibDataSentToEL = TRUE,
                        !.list.fibDataStored = @ \/ g.radio.fIdOrCh = WatchedRow,
                        !.list.lastPlayedSId[g.radio.fIdOrCh] = s], s)

\* NewFib; a scan goes on to wait for the deferred data
StatusNewFib(g, s) ==
  LET c == g.radio.fIdOrCh
      stored == [g EXCEPT !.radio.fibDataSentToEL = TRUE,
                          !.list.fibDataStored = @ \/ c = WatchedRow,
                          !.list.lastPlayedSId[c] = s]
  IN IF g.list.mIsScanning THEN stored ELSE AfterStatus(stored, s)

\* DeferredData carries no SId
StatusDeferredData(g) ==
  AfterStatus(CountVerdict([g EXCEPT !.list.fibDataStored = @ \/ g.radio.fIdOrCh = WatchedRow]), 0)

-----------------------------------------------------------------------------
(* Slots of the GUI thread *)

\* A click on the service list (with an SId) or on the ensemble list (without).
SelectService(c, s) ==
  /\ ~radio.mIsScanning /\ ~list.mIsScanning
  /\ Len(posted) <= MaxPosted
  /\ Becomes(PlayRow(Now, c, s))

\* _start_scanning; the service table is made anew
StartScanning(g) ==
  [StopChannel(g) EXCEPT !.radio.mIsScanning = TRUE,
                         !.radio.mScanSecurityTimer = TRUE,
                         !.list.services = [c \in Channels |-> {}]]

HandleScanButton ==
  /\ Len(posted) <= MaxPosted
  /\ Becomes(IF list.mIsScanning
             THEN StopScanProcess(Now)
             ELSE ScanRow(StartScanning([Now EXCEPT !.list.mIsScanning = TRUE,
                                                    !.list.mCurrScanIdx = 0,
                                                    !.list.verdicts = 0]), 1))

\* _slot_handle_reset_button: the ensemble list is not told that the scan ends
HandleResetButton ==
  /\ radio.mIsChannelRunning
  /\ Len(posted) <= MaxPosted
  /\ radio.mIsScanning => ResetWhileScanning
  /\ Becomes(StartChannel(StopChannel(StopScanning(Now))))

\* _slot_device_connected of a network device
DeviceConnected(c, s) ==
  /\ radio.mpInputDevice
  /\ ~radio.mIsScanning /\ ~list.mIsScanning
  /\ Len(posted) <= MaxPosted
  /\ Becomes(IF radio.mIsChannelRunning
             THEN StartChannel(StopChannel(Now))
             ELSE PlayRow(Now, c, s))

\* _create_new_input_device_and_dab_processor: device and processor are deleted.
\* A device that can be opened gets a new processor with a new FIB decoder, whose
\* timers have no posted calls
NewDevice(g, opened) ==
  LET cleaned == IF g.radio.mIsChannelRunning THEN StopChannel(g) ELSE g
  IN [cleaned EXCEPT !.radio.mpInputDevice = opened,
                     !.fib = FreshFib,
                     !.posted = SelectSeq(@, LAMBDA e : e[1] \notin {"arm", "disarm"})]

\* _slot_device_selected: the preset channel is signalled with or without a
\* device.  c and s are the stored preset, whose halves are written at different
\* times: s need not be a service of c
DeviceSelected(c, s, opened) ==
  /\ ~radio.mIsScanning /\ ~list.mIsScanning
  /\ Len(posted) <= MaxPosted
  /\ Becomes(PlayRow(NewDevice(Now, opened), c, s))

ScanningSecurityTimeout ==
  /\ radio.mScanSecurityTimer
  /\ Becomes(StatusFailed([Now EXCEPT !.radio.mScanSecurityTimer = FALSE]))

RetriesExhausted(count) == count > RetriggerLimit

\* _slot_ensemble_list_retrigger_timeout: "complete" when the deferred data
\* (country, SNR, MER, offset, ensemble name, date) have all arrived.  The SId
\* sent with NewFib is the playing one or any of the list.
RetriggerTimeout(complete) ==
  /\ radio.mEnsListRetriggerTimer
  /\ LET fired == [Now EXCEPT !.radio.mEnsListRetriggerTimer = FALSE]
         playing == radio.mCurPrimaryAudioService
         sIds == IF playing = 0 /\ ServiceList(fib) # {} THEN ServiceList(fib) ELSE {playing}
     IN \E s \in sIds :
          LET sent == IF radio.fibDataSentToEL THEN fired ELSE StatusNewFib(fired, s)
              counted == [sent EXCEPT !.radio.mEnsListRetriggerCnt = @ + 1]
          IN Becomes(IF complete THEN StatusDeferredData(sent)
                     ELSE IF RetriesExhausted(counted.radio.mEnsListRetriggerCnt)
                     THEN StatusDeferredData(counted)
                     ELSE [counted EXCEPT !.radio.mEnsListRetriggerTimer = TRUE])

\* _slot_timer_data_consistency_check; packetComplete: the FIGs of the packet
\* services, which are not modelled, have all arrived
ConsistencyTimeout(packetComplete) ==
  /\ fib.consistencyTimer
  /\ LET f == fib.mFibLoadingState
         checked == IF f > S2_PrimaryBaseDataLoaded THEN f
                    ELSE IF AudioDataComplete(fib) THEN S3_FullyAudioDataLoaded
                    ELSE S2_PrimaryBaseDataLoaded
         audio == f <= S2_PrimaryBaseDataLoaded /\ checked = S3_FullyAudioDataLoaded
         packet == checked = S3_FullyAudioDataLoaded /\ packetComplete
     IN /\ fib' = [fib EXCEPT !.consistencyTimer = FALSE,
                              !.mFibLoadingState =
                                 IF packet THEN S4_FullyPacketDataLoaded ELSE checked]
        /\ posted' = posted \o (IF audio THEN <<Loaded(S3_FullyAudioDataLoaded)>> ELSE << >>)
                            \o (IF packet THEN <<Loaded(S4_FullyPacketDataLoaded)>> ELSE << >>)
  /\ UNCHANGED <<radio, list>>

\* _slot_timer_check_state_and_print_FIGs: what is missing is given up
CheckTimeout ==
  /\ fib.checkTimer
  /\ LET f == fib.mFibLoadingState
     IN /\ fib' = [fib EXCEPT !.checkTimer = FALSE,
                              !.mFibLoadingState = IF f < S4_FullyPacketDataLoaded
                                                   THEN S4_FullyPacketDataLoaded ELSE f]
        /\ posted' = posted
             \o (IF f < S3_FullyAudioDataLoaded THEN <<Loaded(S3_FullyAudioDataLoaded)>> ELSE << >>)
             \o (IF f < S4_FullyPacketDataLoaded THEN <<Loaded(S4_FullyPacketDataLoaded)>> ELSE << >>)
  /\ UNCHANGED <<radio, list>>

-----------------------------------------------------------------------------
(* Posted events *)

\* EnsembleListDB::get_entry does not read the scan level: the entry it returns
\* has the level 0
CurScanLevel(c) == SL0_Init

FibDataNeeded(r) == CurScanLevel(r.fIdOrCh) < SL2_FibData

\* mutant: a scan starts the service, too
StartsService_whileScanning(r) == r.sIdToPlay # 0

StartsService(r) == ~r.mIsScanning /\ r.sIdToPlay # 0

\* the service list in the database follows what was received; services that
\* are gone are deleted, except during a scan
ListServices(g) ==
  LET c == g.radio.fIdOrCh
  IN [g EXCEPT !.list.services[c] = IF g.radio.mIsScanning THEN @ \cup ServiceList(g.fib)
                                    ELSE ServiceList(g.fib)]

\* mutant: the retries of the former channel count for the next one
StartRetrigger_keepCount(g) == [g EXCEPT !.radio.mEnsListRetriggerTimer = TRUE]

StartRetrigger(g) ==
  [g EXCEPT !.radio.mEnsListRetriggerCnt = 0, !.radio.mEnsListRetriggerTimer = TRUE]

\* _slot_fib_loaded_state
FibLoadedState(g, state) ==
  LET r == g.radio
      gather == r.mIsScanning \/ FibDataNeeded(r)
      heard == [g EXCEPT !.radio.mScanSecurityTimer = FALSE]
      listed == IF gather \/ state = S3_FullyAudioDataLoaded THEN ListServices(heard) ELSE heard
      playing == IF StartsService(r) THEN StartService(listed, r.sIdToPlay) ELSE listed
  IN CASE ~r.mIsChannelRunning -> g
       [] state = S5_DeferredDataLoaded -> g
       [] gather /\ state < S4_FullyPacketDataLoaded -> g
       [] state = S1_FastAudioDataLoaded /\ r.mIsChannelRunning /\ ~gather ->
            StartService(heard, r.sIdToPlay)
       [] state = S3_FullyAudioDataLoaded /\ r.mIsChannelRunning /\ ~gather -> listed
       [] state = S4_FullyPacketDataLoaded /\ r.mIsChannelRunning ->
            IF gather THEN StartRetrigger(playing) ELSE playing

\* mutant: every call counts as a repeated one
NoDipSyncFound_silent(g) ==
  [g EXCEPT !.radio.mScanSecurityTimer = FALSE, !.radio.mDipSyncState = "DipNotFound"]

NoDipSyncFound(g) ==
  LET heard == [g EXCEPT !.radio.mScanSecurityTimer = FALSE,
                         !.radio.mDipSyncState = "DipNotFound"]
  IN IF g.radio.mDipSyncState = "DipNotFound" THEN heard ELSE StatusFailed(heard)

\* QTimer::start of both FIB timers, or QTimer::stop
SetFibTimers(g, on) == [g EXCEPT !.fib.consistencyTimer = on, !.fib.checkTimer = on]

Dispatch ==
  /\ posted # << >>
  /\ LET e == Head(posted)
         g == [Now EXCEPT !.posted = Tail(@)]
     IN Becomes(CASE e[1] = "arm" -> SetFibTimers(g, TRUE)
                  [] e[1] = "disarm" -> SetFibTimers(g, FALSE)
                  [] e[1] = "noDip" -> NoDipSyncFound(g)
                  [] e[1] = "dip" -> [g EXCEPT !.radio.mDipSyncState = "DipFound"]
                  [] e[1] = "fibLoaded" -> FibLoadedState(g, e[2]))

-----------------------------------------------------------------------------
(* Processor thread *)

\* a FIG that is not yet in the database: _retrigger_timer_data_loaded_fast, and
\* _process_fast_audio_selection after FIG 0/1 and 0/2
ReceiveFig ==
  /\ fib.tuned # 0
  /\ Len(posted) < MaxPosted
  /\ \E x \in FigsOf(fib.tuned) \ fib.figs :
       LET late == fib.mFibLoadingState >= S4_FullyPacketDataLoaded
           stored == [fib EXCEPT !.figs = @ \cup {x},
                                 !.mFibLoadingState = IF late THEN S5_DeferredDataLoaded ELSE @]
           fast == x = BasicData(fib.mSIdForFastAudioSelection)
           early == fast /\ fib.mFibLoadingState < S1_FastAudioDataLoaded
       IN /\ fib' = [stored EXCEPT !.mSIdForFastAudioSelection = IF fast THEN 0 ELSE @,
                                   !.mFibLoadingState = IF early THEN S1_FastAudioDataLoaded ELSE @]
          /\ posted' = (IF late THEN Append(posted, Loaded(S5_DeferredDataLoaded)) ELSE PostTimers(posted, "arm"))
                       \o (IF early THEN <<Loaded(S1_FastAudioDataLoaded)>> ELSE << >>)
  /\ UNCHANGED <<radio, list>>

\* _restart_fib_decoding
RestartFibDecoding ==
  /\ fib.tuned # 0
  /\ fib.restarts < MaxRestarts
  /\ Len(posted) < MaxPosted
  /\ fib' = [fib EXCEPT !.figs = {}, !.mFibLoadingState = S0_Init, !.restarts = @ + 1]
  /\ posted' = PostTimers(posted, "disarm")
  /\ UNCHANGED <<radio, list>>

\* signal_no_dip_sync_found and signal_dip_sync_found
TimeSync(e) ==
  /\ fib.tuned # 0
  /\ Len(posted) < MaxPosted
  /\ posted' = Append(posted, Signal(e))
  /\ UNCHANGED <<radio, list, fib>>

Next ==
  \/ \E c \in Channels : \E s \in ServicesOf[c] \cup {0} : SelectService(c, s)
  \/ \E c \in Channels, s \in SIds \cup {0} :
       DeviceConnected(c, s) \/ \E b \in BOOLEAN : DeviceSelected(c, s, b)
  \/ HandleScanButton \/ HandleResetButton
  \/ ScanningSecurityTimeout
  \/ \E b \in BOOLEAN : RetriggerTimeout(b) \/ ConsistencyTimeout(b)
  \/ CheckTimeout
  \/ Dispatch
  \/ ReceiveFig \/ RestartFibDecoding
  \/ TimeSync("noDip") \/ TimeSync("dip")

\* Qt fires a timer that stays active: weak fairness of the two timeouts, with
\* what enables them written out.
Fairness ==
  /\ []<>~radio.mScanSecurityTimer \/ []<><<ScanningSecurityTimeout>>_vars
  /\ \/ []<>~radio.mEnsListRetriggerTimer
     \/ []<><<\E b \in BOOLEAN : RetriggerTimeout(b)>>_vars

Spec == Init /\ [][Next]_vars /\ Fairness

-----------------------------------------------------------------------------
(* Properties *)

\* Every member has a value of its type.  The retries for the deferred data end
\* one past their limit, and are counted from 0 for every channel; the index of
\* a scan that has ended is the number of rows; without a device nothing runs.
TypeOK ==
  /\ radio \in [mpInputDevice : BOOLEAN, knownRow : BOOLEAN,
                mIsChannelRunning : BOOLEAN, mIsScanning : BOOLEAN,
                fIdOrCh : Channels \cup {0}, sIdToPlay : SIds \cup {0},
                mDipSyncState : {"NotSetYet", "DipFound", "DipNotFound"},
                mScanSecurityTimer : BOOLEAN, mEnsListRetriggerTimer : BOOLEAN,
                mEnsListRetriggerCnt : 0..(RetriggerLimit + 1), fibDataSentToEL : BOOLEAN,
                mCurPrimaryAudioService : SIds \cup {0}]
  /\ radio.mIsChannelRunning => radio.mpInputDevice
  /\ list.mCurrScanIdx \in 0..NrChannels
  /\ list.lastPlayedSId \in [Channels -> SIds \cup {0}]
  /\ list.fibDataStored \in BOOLEAN
  /\ fib.mFibLoadingState \in S0_Init..S5_DeferredDataLoaded
  /\ \A i \in DOMAIN posted : posted[i] \in Events

\* No service runs during a scan, however late an event of the former channel
\* is served (the assertion of _start_primary_and_secondary_service).
NoServiceWhileScanning ==
  radio.mIsScanning => radio.mCurPrimaryAudioService = 0

\* The playing service is one of the channel that is tuned, although the SId to
\* play, the FIB data and the channel are set by different slots.
ServiceOfChannel ==
  radio.mCurPrimaryAudioService # 0 =>
    /\ radio.mIsChannelRunning
    /\ fib.tuned = radio.fIdOrCh
    /\ radio.mCurPrimaryAudioService \in ServicesOf[radio.fIdOrCh]

\* The service list never shows a service under a channel that does not carry
\* it: a list taken from the FIB decoder belongs to the channel it is stored for.
ListedUnderItsChannel ==
  \A c \in Channels : list.services[c] \subseteq ServicesOf[c]

\* During a scan the ensemble list, DabRadio and the tuner agree on the channel,
\* and every channel before it got exactly one verdict, in whatever order no-dip
\* events, timeouts and FIB states came in.
ScanInStep ==
  list.mIsScanning =>
    /\ radio.mIsScanning /\ radio.mIsChannelRunning
    /\ radio.fIdOrCh = list.mCurrScanIdx + 1
    /\ fib.tuned = radio.fIdOrCh
    /\ list.verdicts = list.mCurrScanIdx

\* A scan never waits for nothing: one of the two timers that can end the
\* channel is active whenever the GUI thread is between two slots.
TimerWhileScanning ==
  list.mIsScanning => radio.mScanSecurityTimer \/ radio.mEnsListRetriggerTimer

\* Every scan ends: signal or none, complete FIB data or none.
ScanTerminates == list.mIsScanning ~> ~list.mIsScanning

\* What the comment of SIdentInfoEL::scanLevelToAchieve says: a channel whose
\* level was already reached when it was selected is not read again for the
\* ensemble list.
NoRereadOfKnownChannel ==
  [][~radio.mIsScanning /\ ~radio.mEnsListRetriggerTimer /\ radio'.mEnsListRetriggerTimer
       => ~radio.knownRow]_vars

=============================================================================
