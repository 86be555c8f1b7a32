---------------------------- MODULE DataProcessor ----------------------------
(***************************************************************************)
(* Reception of MOT objects in packet mode: the DataProcessor puts MSC     *)
(* data groups together from packets (src/src/base/backend/data/           *)
(* data_processor.cpp), the MotHandler sorts them into MOT objects and a   *)
(* MOT directory (mot/mot_handler.cpp, mot/mot_dir.cpp).                   *)
(*                                                                         *)
(* The sender repeats a carousel of data groups; every packet may arrive   *)
(* intact or damaged.  The bytes that were collected are abstracted to the *)
(* group whose first packet they begin with, and to how many packets of    *)
(* that group they hold without a hole (0: there is one, or bytes of       *)
(* another group).  The header of a data group lies in its first packet.   *)
(***************************************************************************)
EXTENDS MotObject

CONSTANTS
  Groups,       \* the carousel: a sequence of [type, crc, transportId, segment, last, packets]
  DirObjects,   \* the transport ids a directory lists
  TableSize,    \* objects kept outside of a directory (15 in the code)
  MaxDamaged    \* bound: damaged packets

\* A directory without a CRC is left out: what a hole makes of its entries is
\* not modelled.
ASSUME DirectoryAssumption == \A i \in DOMAIN Groups : Groups[i].type = 6 => Groups[i].crc

VARIABLES
  air,      \* the next packet: its group, its place in it, its continuity index
  packet,   \* the DataProcessor: mExpectedIndex, mPacketState, mSeriesVec
  mot,      \* the MotHandler: mMotTable (oldest first), mpDirectory
  emitted,  \* the signals signal_new_mot_object of the last step
  damaged   \* number of damaged packets

packetVars == <<air, packet, mot, emitted, damaged>>

HeaderGroup == 3
BodyGroup == 4
DirectoryGroup == 6

NoSeries == [group |-> 0, packets |-> 0]

NoDirectory == [transportId |-> 0, marked |-> {}, num_dirSegments |-> -1,
                motComponents |-> << >>]

PacketInit ==
  /\ air = [group |-> 1, part |-> 1, continuityIndex |-> 0]
  /\ packet = [mExpectedIndex |-> 0, mPacketState |-> 0, mSeriesVec |-> NoSeries]
  /\ mot = [mMotTable |-> << >>, mpDirectory |-> NoDirectory]
  /\ emitted = << >>
  /\ damaged = 0

-----------------------------------------------------------------------------
(* MotHandler and MotDirectory; m is the state of the handler *)

InTable(m, transportId) == {i \in DOMAIN m.mMotTable : m.mMotTable[i].mTransportId = transportId}

InDirectory(m, transportId) ==
  {i \in DOMAIN m.mpDirectory.motComponents :
     m.mpDirectory.motComponents[i].mTransportId = transportId}

HasHandle(m, transportId) ==
  InTable(m, transportId) # {} \/ InDirectory(m, transportId) # {}

\* getHandle: the table comes before the directory
GetHandle(m, transportId) ==
  IF InTable(m, transportId) # {}
  THEN m.mMotTable[CHOOSE i \in InTable(m, transportId) : TRUE]
  ELSE m.mpDirectory.motComponents[CHOOSE i \in InDirectory(m, transportId) : TRUE]

\* the object behind the handle changes
UpdateObject(m, o) ==
  LET replace(s) == [i \in DOMAIN s |-> IF s[i].mTransportId = o.mTransportId THEN o ELSE s[i]]
  IN IF InTable(m, o.mTransportId) # {}
     THEN [m EXCEPT !.mMotTable = replace(@)]
     ELSE [m EXCEPT !.mpDirectory.motComponents = replace(@)]

\* mutant: the table is never cleaned
SetHandle_grow(m, o) == [m EXCEPT !.mMotTable = Append(@, o)]

\* setHandle: a full table gives up its oldest entry
SetHandle(m, o) ==
  IF Len(m.mMotTable) < TableSize
  THEN [m EXCEPT !.mMotTable = Append(@, o)]
  ELSE [m EXCEPT !.mMotTable = Append(Tail(@), o)]

\* mutant: a repeated header makes a second object
NewHeader_again(m, transportId) ==
  SetHandle(m, SetHeader(EmptyObject, transportId, transportId))

NewHeader(m, transportId) ==
  IF HasHandle(m, transportId) THEN m
  ELSE SetHandle(m, SetHeader(EmptyObject, transportId, transportId))

\* an object whose body comes first takes its header core from the body
ObjectForBody(m, transportId) ==
  IF HasHandle(m, transportId) THEN m
  ELSE SetHandle(m, SetHeader(EmptyObject, transportId, BodyAsHeader))

\* analyse_theDirectory: an object for every entry
AnalyseTheDirectory(dir) ==
  [dir EXCEPT !.motComponents =
     [i \in DOMAIN DirObjects |-> SetHeader(EmptyObject, DirObjects[i], DirObjects[i])]]

\* MotDirectory, made from segment 0
NewDirectory(g) ==
  LET dir == [NoDirectory EXCEPT !.transportId = g.transportId, !.marked = {0}]
  IN IF g.last THEN AnalyseTheDirectory(dir) ELSE dir

DirectorySegment(dir, g) ==
  LET marked == dir.marked \cup {g.segment}
      num == IF g.last THEN g.segment + 1 ELSE dir.num_dirSegments
      stored == [dir EXCEPT !.marked = marked, !.num_dirSegments = num]
  IN IF g.segment \in dir.marked THEN dir
     ELSE IF num # -1 /\ 0..(num - 1) \subseteq marked THEN AnalyseTheDirectory(stored)
     ELSE stored

AddDirectoryGroup(m, g) ==
  LET known == m.mpDirectory.transportId = g.transportId
  IN IF g.segment = 0
     THEN IF known THEN m ELSE [m EXCEPT !.mpDirectory = NewDirectory(g)]
     ELSE IF known THEN [m EXCEPT !.mpDirectory = DirectorySegment(@, g)] ELSE m

\* add_MSC_data_group, once the CRC is right
AddGroup(m, g, content) ==
  LET tid == g.transportId
      owned == ObjectForBody(m, tid)
  IN CASE g.type = HeaderGroup -> IF g.segment = 0 THEN NewHeader(m, tid) ELSE m
       [] g.type = BodyGroup ->
            UpdateObject(owned, AddBodySegment(GetHandle(owned, tid), tid, g.segment, g.last, content))
       [] g.type = DirectoryGroup -> AddDirectoryGroup(m, g)

GroupEmits(m, g, content) ==
  LET tid == g.transportId
  IN IF g.type = BodyGroup
     THEN BodyEmits(GetHandle(ObjectForBody(m, tid), tid), tid, g.segment, g.last, content)
     ELSE << >>

IsWhole(series) == series.packets = Groups[series.group].packets

\* mutant: the CRC is not looked at
CrcOk_ignored(series) == TRUE

\* check_CRC_bits, only for a data group whose header has the CRC flag
CrcOk(series) == Groups[series.group].crc => IsWhole(series)

\* the segment in the data group, and whether its bytes are those that were sent
Content(series) ==
  LET g == Groups[series.group]
  IN [transportId |-> g.transportId, segment |-> g.segment, whole |-> IsWhole(series)]

-----------------------------------------------------------------------------
(* DataProcessor *)

\* the bytes of the packet that is on air follow those already collected
Extend(series) ==
  [series EXCEPT !.packets = IF series.group = air.group /\ @ = air.part - 1 THEN @ + 1 ELSE 0]

Start == [group |-> air.group, packets |-> 1]

IsFirst == air.part = 1
IsLast == air.part = Groups[air.group].packets

\* the data handler gets a data group
PassOn(series) ==
  /\ mot' = IF CrcOk(series) THEN AddGroup(mot, Groups[series.group], Content(series)) ELSE mot
  /\ emitted' = IF CrcOk(series) THEN GroupEmits(mot, Groups[series.group], Content(series)) ELSE << >>

KeepOn ==
  /\ mot' = mot
  /\ emitted' = << >>

\* the packet of the right address, index and CRC: by firstLast and mPacketState
Assemble(expected) ==
  LET first == IsFirst /\ ~IsLast
      single == IsFirst /\ IsLast
      last == IsLast /\ ~IsFirst
      becomes(state, series) ==
        packet' = [mExpectedIndex |-> expected, mPacketState |-> state, mSeriesVec |-> series]
  IN \/ first /\ becomes(1, Start) /\ KeepOn
     \/ single /\ packet.mPacketState = 0 /\ becomes(0, NoSeries) /\ PassOn(Start)
     \/ single /\ packet.mPacketState = 1 /\ becomes(0, NoSeries) /\ KeepOn
     \/ last /\ packet.mPacketState = 1 /\ becomes(0, NoSeries) /\ PassOn(Extend(packet.mSeriesVec))
     \/ ~IsFirst /\ ~IsLast /\ packet.mPacketState = 1 /\ becomes(1, Extend(packet.mSeriesVec)) /\ KeepOn
     \/ ~IsFirst /\ packet.mPacketState = 0 /\ becomes(0, NoSeries) /\ KeepOn

\* _handle_packet, with the continuity index that was read
HandlePacket(continuityIndex, crcOk) ==
  LET next == (packet.mExpectedIndex + 1) % 4
  IN IF continuityIndex # packet.mExpectedIndex
     THEN /\ packet' = [packet EXCEPT !.mExpectedIndex = 0]
          /\ KeepOn
     ELSE IF crcOk THEN Assemble(next)
     ELSE /\ packet' = [packet EXCEPT !.mExpectedIndex = next]
          /\ KeepOn

\* the sender goes on: the next packet of the group, the next group, the carousel again
NextOnAir ==
  air' = [group |-> IF ~IsLast THEN air.group ELSE (air.group % Len(Groups)) + 1,
          part |-> IF IsLast THEN 1 ELSE air.part + 1,
          continuityIndex |-> (air.continuityIndex + 1) % 4]

ReceivePacket ==
  /\ HandlePacket(air.continuityIndex, TRUE)
  /\ NextOnAir
  /\ UNCHANGED damaged

\* a damaged packet: its address is another one, and it is not looked at, or any
\* continuity index is read from it
DamagedPacket ==
  /\ damaged < MaxDamaged
  /\ \/ packet' = packet /\ KeepOn
     \/ \E c \in 0..3 : HandlePacket(c, FALSE)
  /\ NextOnAir
  /\ damaged' = damaged + 1

PacketNext == ReceivePacket \/ DamagedPacket

-----------------------------------------------------------------------------
(* Properties *)

\* The collected bytes, the table and the directory have their types; the table
\* keeps its size.
PacketTypeOK ==
  /\ packet.mExpectedIndex \in 0..3
  /\ packet.mPacketState \in {0, 1}
  /\ packet.mSeriesVec \in [group : 0..Len(Groups), packets : Nat]
  /\ Len(mot.mMotTable) <= TableSize
  /\ damaged \in 0..MaxDamaged

\* the groups with the body of an object
BodyGroups(transportId) ==
  {i \in DOMAIN Groups : Groups[i].type = BodyGroup /\ Groups[i].transportId = transportId}

\* Whatever packets are damaged, an object that is emitted has all segments of
\* one transmitted object, in order, and every segment that was sent with a CRC
\* has the bytes that were sent: a hole in a series, a missing segment or an
\* evicted object never yields a mixed or short body.  add_MSC_data_group does
\* not check a group without the CRC flag; such a segment may have a hole.
PacketBodyIntact ==
  \A i \in DOMAIN emitted :
    LET groups == BodyGroups(emitted[i].transportId)
        body == emitted[i].body
    IN /\ Len(body) = Cardinality(groups)
       /\ \A g \in groups : LET sent == body[Groups[g].segment + 1]
                           IN /\ sent.transportId = emitted[i].transportId
                              /\ sent.segment = Groups[g].segment
                              /\ Groups[g].crc => sent.whole

\* The table has one object for a transport id: no repetition of a header or a
\* segment makes a second entry of it.  (The directory may have an object with
\* the id of one in the table; getHandle then finds that of the table.)
OneHandlePerObject ==
  \A i, j \in DOMAIN mot.mMotTable :
    mot.mMotTable[i].mTransportId = mot.mMotTable[j].mTransportId => i = j

\* The carousel of packets repeats everything, but an object the MotHandler still
\* holds complete is not emitted again.
EmittedOnce ==
  [][\A i \in DOMAIN emitted' :
       LET tid == emitted'[i].transportId
       IN HasHandle(mot, tid) => ~CheckIfComplete(GetHandle(mot, tid))]_packetVars

=============================================================================
