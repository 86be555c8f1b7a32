----------------------------- MODULE PadHandler -----------------------------
(***************************************************************************)
(* Programme associated data of variable size (src/src/base/backend/data/  *)
(* pad_handler.cpp): the PadHandler puts MSC data groups together for one  *)
(* MotObject, and the dynamic label.  A frame of X-PAD has a list of       *)
(* fields with their types, or it has none and goes on with the field type *)
(* and the length of the last frame that had them.                         *)
(*                                                                         *)
(* A byte is a triple that tells where it comes from; a data group's CRC   *)
(* is right when its bytes are those of one transmitted group.  The first  *)
(* byte of a group stands for its header: a field never ends within it.    *)
(***************************************************************************)
EXTENDS MotObject

CONSTANTS
  Frames,      \* the carousel: [ci, fields], a field: [app, prefix, data]
  PadGroups,   \* the data groups: [type, crc, transportId, segment, last, bytes];
               \* segment -1: without the segment flag
  LabelSizes,  \* the number of bytes of each label
  MaxLost      \* bound: lost and damaged frames

VARIABLES
  frame,   \* the next frame on air
  pad,     \* the state of the PadHandler
  lost,    \* number of lost and damaged frames
  clean    \* every frame was right, but for group lengths, since the text was begun

padVars == <<frame, pad, lost, clean>>

GroupLengthApp == 1
LabelApp == 2
LabelContinuedApp == 3
MotApp == 12
MotContinuedApp == 13

GroupByte(g, k) == <<"group", g, k>>
GroupBytes(g) == [k \in 1..PadGroups[g].bytes |-> GroupByte(g, k)]

PadInit ==
  /\ frame = 1
  /\ pad = [mDataGroupLength |-> 0, mMscGroupElement |-> FALSE, mMscDataGroupBuffer |-> << >>,
            mLastAppType |-> 0, mXPadLength |-> -1, mpMotObject |-> EmptyObject,
            mSegmentNo |-> -1, mMoreXPad |-> FALSE, mIsLastSegment |-> FALSE,
            mRemainDataLength |-> 0, mText |-> << >>,
            objects |-> << >>, labels |-> << >>]
  /\ lost = 0
  /\ clean = FALSE

Shorter(a, b) == IF a < b THEN a ELSE b

-----------------------------------------------------------------------------
(* MOT: h is the state of the handler; objects and labels collect its signals *)

\* the group whose header the collected bytes begin with
GroupOf(data) == data[1][2]

\* without the CRC flag there is only a warning
CrcRight(g, bytes) == PadGroups[g].crc => bytes = GroupBytes(g)

\* the bytes that are taken: the header has their number, whatever is collected
Taken(g, data) == SubSeq(data, 1, Shorter(Len(data), PadGroups[g].bytes))

\* _build_MSC_segment
BuildMscSegment(h, data) ==
  LET bytes == SubSeq(data, 1, Shorter(Len(data), h.mDataGroupLength))
      n == GroupOf(data)
      g == PadGroups[n]
      tid == g.transportId
      headerCore == IF Taken(n, data) = GroupBytes(n) THEN tid ELSE BodyAsHeader
  IN IF Len(bytes) < 2 \/ ~CrcRight(n, bytes) THEN h
     ELSE IF g.type = 3
     THEN [h EXCEPT !.mpMotObject = SetHeader(@, tid, headerCore),
                    !.objects = @ \o HeaderEmits(h.mpMotObject, tid, headerCore)]
     ELSE [h EXCEPT !.mpMotObject = AddBodySegment(@, tid, g.segment, g.last, Taken(n, data)),
                    !.objects = @ \o BodyEmits(h.mpMotObject, tid, g.segment, g.last, Taken(n, data))]

NewMscElement(h, data) ==
  IF Len(data) >= h.mDataGroupLength
  THEN [BuildMscSegment(h, data) EXCEPT !.mMscDataGroupBuffer = << >>, !.mMscGroupElement = FALSE]
  ELSE [h EXCEPT !.mMscDataGroupBuffer = data, !.mMscGroupElement = TRUE]

AddMscElement(h, data) ==
  LET buffer == h.mMscDataGroupBuffer \o data
  IN IF h.mMscDataGroupBuffer = << >> THEN h
     ELSE IF Len(buffer) >= h.mDataGroupLength
     THEN [BuildMscSegment(h, buffer) EXCEPT !.mMscDataGroupBuffer = << >>]
     ELSE [h EXCEPT !.mMscDataGroupBuffer = buffer]

-----------------------------------------------------------------------------
(* The dynamic label.  A prefix: [first, last, segment, command, total], the  *)
(* first two bytes of a field of type 2                                       *)

NoPrefix == [first |-> FALSE, last |-> FALSE, segment |-> 0, command |-> 0, total |-> 0]

ShowLabel(h) == [h EXCEPT !.labels = Append(@, h.mText)]

\* the text of a segment, as far as this field has it
LabelText(h, p, data) ==
  LET length == Shorter(Len(data) - 2, p.total)
      more == Len(data) - 2 < p.total
      added == [h EXCEPT !.mMoreXPad = more,
                         !.mText = @ \o SubSeq(data, 3, length + 2),
                         !.mRemainDataLength = p.total - length]
  IN IF p.last /\ ~more THEN [ShowLabel(added) EXCEPT !.mSegmentNo = -1]
     ELSE [added EXCEPT !.mIsLastSegment = p.last]

\* mutant: a first segment leaves the old text
FirstSegment_keepText(h) == [h EXCEPT !.mSegmentNo = 1]

FirstSegment(h) == [h EXCEPT !.mSegmentNo = 1, !.mText = << >>]

\* mutant: the number of the next segment is compared with that of the last
InSequence_same(h, p) == p.first \/ p.segment = h.mSegmentNo

InSequence(h, p) == p.first \/ p.segment = h.mSegmentNo + 1

\* _dynamic_label with type 2
LabelSegment(h, p, data) ==
  LET numbered == IF p.first THEN FirstSegment(h) ELSE [h EXCEPT !.mSegmentNo = p.segment]
  IN IF ~InSequence(h, p) THEN [h EXCEPT !.mSegmentNo = -1]
     ELSE IF p.command = 1 THEN [numbered EXCEPT !.mText = << >>, !.mSegmentNo = -1]
     ELSE IF p.command # 0 THEN numbered
     ELSE LabelText(numbered, p, data)

\* _dynamic_label with type 3
LabelContinued(h, data) ==
  LET more == h.mRemainDataLength > Len(data)
      length == Shorter(h.mRemainDataLength, Len(data))
      added == [h EXCEPT !.mMoreXPad = more,
                         !.mText = @ \o SubSeq(data, 1, length),
                         !.mRemainDataLength = IF more THEN @ - Len(data) ELSE @]
  IN IF ~h.mMoreXPad THEN h
     ELSE IF ~more /\ h.mIsLastSegment THEN ShowLabel(added)
     ELSE added

-----------------------------------------------------------------------------
(* _handle_variable_PAD *)

\* a data group length of four bytes and with the right CRC
GroupLength(h, f, crcOk) ==
  IF Len(f.data) = 4 /\ crcOk THEN [h EXCEPT !.mDataGroupLength = f.prefix.total] ELSE h

HandleField(h, f, lengthOk) ==
  LET done == CASE f.app = GroupLengthApp -> GroupLength(h, f, lengthOk)
                [] f.app = LabelApp -> LabelSegment(h, f.prefix, f.data)
                [] f.app = LabelContinuedApp -> LabelContinued(h, f.data)
                [] f.app = MotApp -> NewMscElement(h, f.data)
                [] f.app = MotContinuedApp -> AddMscElement(h, f.data)
  IN [done EXCEPT !.mLastAppType = f.app]

FieldLengths(fields) == FoldLeft(LAMBDA n, f : n + Len(f.data), 0, fields)

\* the length of a frame: its fields and their indicators
XPadLength(fields) == FieldLengths(fields) + (IF Len(fields) = 4 THEN 4 ELSE Len(fields) + 1)

\* the fields by their indicators; room: the bytes the frame has for them.  The
\* field that ends behind the frame is handled, those after it are not
WithIndicators(h, fields, room, lengthOk) ==
  LET before(i) == FieldLengths(SubSeq(fields, 1, i - 1))
      handled == SelectSeq([i \in DOMAIN fields |-> i], LAMBDA i : before(i) <= room)
  IN FoldLeft(LAMBDA k, i : HandleField(k, fields[i], lengthOk),
              [h EXCEPT !.mXPadLength = XPadLength(fields)], handled)

WithoutIndicators(h, bytes) ==
  LET data == SubSeq(bytes, 1, h.mXPadLength)
  IN IF h.mXPadLength <= 0 \/ Len(bytes) < h.mXPadLength THEN h
     ELSE IF h.mLastAppType \in {LabelApp, LabelContinuedApp} THEN LabelContinued(h, data)
     ELSE IF h.mLastAppType \in {MotApp, MotContinuedApp} /\ h.mMscGroupElement
     THEN AddMscElement(h, data)
     ELSE h

NextFrame == frame' = (frame % Len(Frames)) + 1

\* a text begins: the first segment of a label
BeginsLabel(f) ==
  f.ci /\ \E i \in DOMAIN f.fields :
            f.fields[i].app = LabelApp /\ f.fields[i].prefix.first /\ f.fields[i].prefix.command = 0

\* before a frame is handled: the signals of the last one are over
Silent == [pad EXCEPT !.objects = << >>, !.labels = << >>]

Handled(f, lengthOk) ==
  IF f.ci THEN WithIndicators(Silent, f.fields, FieldLengths(f.fields), lengthOk)
  ELSE WithoutIndicators(Silent, f.fields[1].data)

ReceiveFrame ==
  /\ pad' = Handled(Frames[frame], TRUE)
  /\ clean' = (clean \/ BeginsLabel(Frames[frame]))
  /\ NextFrame
  /\ UNCHANGED lost

\* the CRC of the data group length is wrong
LengthDamaged ==
  /\ lost < MaxLost
  /\ Frames[frame].ci
  /\ \E i \in DOMAIN Frames[frame].fields : Frames[frame].fields[i].app = GroupLengthApp
  /\ pad' = Handled(Frames[frame], FALSE)
  /\ clean' = (clean \/ BeginsLabel(Frames[frame]))
  /\ NextFrame
  /\ lost' = lost + 1

\* the indicator of field k reads one byte more than the frame has after it
Overlong(fields, k) ==
  LET rest == FoldLeft(LAMBDA b, f : b \o f.data, << >>, SubSeq(fields, k, Len(fields)))
  IN [fields EXCEPT ![k].data = Append(rest, <<"behind", 0, 0>>)]

IndicatorDamaged ==
  /\ lost < MaxLost
  /\ Frames[frame].ci
  /\ LET fields == Frames[frame].fields
     IN \E k \in DOMAIN fields :
          pad' = WithIndicators(Silent, Overlong(fields, k), FieldLengths(fields), TRUE)
  /\ clean' = FALSE
  /\ NextFrame
  /\ lost' = lost + 1

LoseFrame ==
  /\ lost < MaxLost
  /\ pad' = Silent
  /\ clean' = FALSE
  /\ NextFrame
  /\ lost' = lost + 1

PadNext == ReceiveFrame \/ LengthDamaged \/ IndicatorDamaged \/ LoseFrame

-----------------------------------------------------------------------------
(* Properties *)

\* The numbers of the handler stay in their ranges; what is collected of a data
\* group begins with a header and is shorter than the longest group.
PadTypeOK ==
  /\ pad.mSegmentNo \in -1..8
  /\ pad.mRemainDataLength \in 0..16
  /\ pad.mDataGroupLength \in Nat
  /\ pad.mXPadLength \in -1..196      \* four fields of 48 bytes
  /\ pad.mMscDataGroupBuffer # << >> =>
       \E g \in DOMAIN PadGroups : pad.mMscDataGroupBuffer[1] = GroupByte(g, 1)
  /\ \A i \in DOMAIN pad.mMscDataGroupBuffer :
       \E g \in DOMAIN PadGroups : i < PadGroups[g].bytes
  /\ pad.mMscGroupElement \in BOOLEAN
  /\ lost \in 0..MaxLost

PadGroupsOf(type, transportId) ==
  {g \in DOMAIN PadGroups : PadGroups[g].type = type /\ PadGroups[g].transportId = transportId}

\* Whatever frames are lost or damaged, with a field type, a frame length or a
\* group length that is out of date, an object that is emitted has all segments,
\* in order, of one transmitted object, and its header and every segment that
\* were sent with a CRC are as they were sent.  _build_MSC_segment only warns of
\* a group without the CRC flag; of such a segment only the header is claimed.
PadObjectIntact ==
  \A i \in DOMAIN pad.objects :
    LET o == pad.objects[i]
        segments == PadGroupsOf(4, o.transportId)
    IN /\ (\A g \in PadGroupsOf(3, o.transportId) : PadGroups[g].crc) => o.headerCore = o.transportId
       /\ Len(o.body) = Cardinality(segments)
       /\ \A g \in segments : LET sent == o.body[PadGroups[g].segment + 1]
                             IN /\ sent[1] = GroupByte(g, 1)
                                /\ PadGroups[g].crc => sent = GroupBytes(g)

LabelBytes(l) == [k \in 1..LabelSizes[l] |-> <<"label", l, k>>]

\* A label whose frames arrived since its first segment is shown as it was
\* sent: nothing that earlier losses left behind (segment number, remaining
\* length, field type, old text) gets into it.  Nothing is claimed of a label
\* that loses a frame itself: it may be shown with a hole.
LabelIntact ==
  clean => \A i \in DOMAIN pad.labels : \E l \in DOMAIN LabelSizes : pad.labels[i] = LabelBytes(l)

=============================================================================
