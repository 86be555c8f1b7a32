--------------------------- MODULE MCDataServices ---------------------------
(* Three objects, one of them listed by a directory of two segments and one *)
(* without a CRC, in 15 packets; in X-PAD three objects, one of them without *)
(* a CRC, a group without a segment number and two labels in 17 frames.     *)
EXTENDS DataServices

Group(type, crc, tid, segment, last, packets) ==
  [type |-> type, crc |-> crc, transportId |-> tid, segment |-> segment, last |-> last, packets |-> packets]

MCGroups ==
  << Group(6, TRUE, 9, 0, FALSE, 1), Group(6, TRUE, 9, 1, TRUE, 1),
     Group(3, TRUE, 1, 0, TRUE, 1), Group(4, TRUE, 1, 0, FALSE, 3), Group(4, TRUE, 1, 1, TRUE, 2),
     Group(3, FALSE, 2, 0, TRUE, 1), Group(4, FALSE, 2, 0, TRUE, 3),
     Group(4, TRUE, 3, 0, FALSE, 1), Group(4, TRUE, 3, 1, TRUE, 2) >>

MCDirObjects == <<3>>

PadGroup(type, crc, tid, segment, last, bytes) ==
  [type |-> type, crc |-> crc, transportId |-> tid, segment |-> segment, last |-> last, bytes |-> bytes]

MCPadGroups ==
  << PadGroup(3, TRUE, 1, 0, TRUE, 3), PadGroup(4, TRUE, 1, 0, FALSE, 14), PadGroup(4, TRUE, 1, 1, TRUE, 4),
     PadGroup(3, TRUE, 2, 0, TRUE, 3), PadGroup(4, TRUE, 2, 0, TRUE, 5),
     PadGroup(4, TRUE, 3, -1, FALSE, 3),
     PadGroup(3, FALSE, 4, 0, TRUE, 3), PadGroup(4, FALSE, 4, 0, TRUE, 10) >>

MCLabelSizes == <<11, 2>>

Filler == <<"filler", 0, 0>>

\* n bytes: those of a group or label from byte a on, then filler
Bytes(kind, id, a, b, n) == [k \in 1..n |-> IF a + k - 1 <= b THEN <<kind, id, a + k - 1>> ELSE Filler]

Field(app, prefix, data) == [app |-> app, prefix |-> prefix, data |-> data]

Length(g) == Field(1, [NoPrefix EXCEPT !.total = MCPadGroups[g].bytes], Bytes("length", g, 1, 4, 4))

MscBytes(g, a, n) == Bytes("group", g, a, MCPadGroups[g].bytes, n)

Text(l, a, b, n) == Bytes("label", l, a, b, n)

\* a field of type 2: the prefix and the text
LabelField(prefix, text) == Field(2, prefix, Bytes("prefix", 0, 1, 2, 2) \o text)

Prefix(first, last, segment, command, total) ==
  [first |-> first, last |-> last, segment |-> segment, command |-> command, total |-> total]

With(fields) == [ci |-> TRUE, fields |-> fields]
Without(data) == [ci |-> FALSE, fields |-> <<Field(0, NoPrefix, data)>>]

Mot(g, a, n) == Field(12, NoPrefix, MscBytes(g, a, n))
MotContinued(g, a, n) == Field(13, NoPrefix, MscBytes(g, a, n))

MCFrames ==
  << With(<<Length(1), Mot(1, 1, 4)>>),
     With(<<Length(2), Mot(2, 1, 2)>>),
     Without(MscBytes(2, 3, 9)),
     With(<<MotContinued(2, 12, 2), LabelField(Prefix(TRUE, FALSE, 0, 0, 5), Text(1, 1, 5, 2))>>),
     Without(Text(1, 3, 5, 9)),
     With(<<LabelField(Prefix(FALSE, TRUE, 2, 0, 6), Text(1, 6, 11, 2)), MotContinued(2, 14, 2)>>),
     With(<<Field(3, NoPrefix, Text(1, 8, 11, 2))>>),
     Without(Text(1, 10, 11, 4)),
     With(<<Length(3), Mot(3, 1, 4),
            LabelField(Prefix(TRUE, TRUE, 0, 2, 0), Bytes("command", 0, 1, 2, 2))>>),
     With(<<Length(4), Mot(4, 1, 4)>>),
     With(<<Length(6), Mot(6, 1, 4), LabelField(Prefix(TRUE, TRUE, 0, 0, 2), Text(2, 1, 2, 4))>>),
     With(<<Length(5), Mot(5, 1, 2)>>),
     Without(MscBytes(5, 3, 9)),
     With(<<Length(7), Mot(7, 1, 4)>>),
     With(<<Length(8), Mot(8, 1, 2)>>),
     With(<<MotContinued(8, 3, 4)>>),
     With(<<MotContinued(8, 7, 8)>>) >>

=============================================================================
