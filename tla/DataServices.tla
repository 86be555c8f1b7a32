---------------------------- MODULE DataServices ----------------------------
(***************************************************************************)
(* The two ways a MOT object comes to the receiver: as a service of its    *)
(* own in packet mode (DataProcessor), or beside the audio of a service    *)
(* (PadHandler).  A backend has one of them; which one is chosen when the  *)
(* service starts.                                                         *)
(***************************************************************************)
EXTENDS DataProcessor, PadHandler

VARIABLE carrier   \* the kind of backend: packets or X-PAD

vars == <<packetVars, padVars, carrier>>

Init ==
  /\ carrier \in {"packets", "xpad"}
  /\ PacketInit
  /\ PadInit

Packets == carrier = "packets" /\ PacketNext /\ UNCHANGED <<padVars, carrier>>
XPad == carrier = "xpad" /\ PadNext /\ UNCHANGED <<packetVars, carrier>>

Next == Packets \/ XPad

\* The sender never stops: a next step is always possible, and is taken.  Only
\* MaxDamaged packets and MaxLost frames are lost or damaged.
Spec == Init /\ [][Next]_vars /\ []<><<Next>>_vars

-----------------------------------------------------------------------------
\* The parts of both backends have their types.
TypeOK == PacketTypeOK /\ PadTypeOK

TransportIds(groups) ==
  {groups[i].transportId : i \in {j \in DOMAIN groups : groups[j].type = 4 /\ groups[j].segment >= 0}}

\* Once reception is good, every object of the carousel is emitted: the packet
\* index and the data group are found again, partial objects are completed by
\* a later round, and an object that was evicted is collected anew.  The objects
\* follow each other, so that the table never has to hold more of them at once
\* than it has entries.
EveryObjectEmitted ==
  /\ \A t \in TransportIds(Groups) :
       carrier = "packets" => <>(\E i \in DOMAIN emitted : emitted[i].transportId = t)
  /\ \A t \in TransportIds(PadGroups) :
       carrier = "xpad" => []<>(\E i \in DOMAIN pad.objects : pad.objects[i].transportId = t)

\* Once reception is good, every label is shown again and again as it was sent.
LabelShown ==
  carrier = "xpad" =>
    \A l \in DOMAIN LabelSizes : []<>(\E i \in DOMAIN pad.labels : pad.labels[i] = LabelBytes(l))

=============================================================================
