------------------------------ MODULE MotObject ------------------------------
(***************************************************************************)
(* A MOT object that is put together from its header and its body segments *)
(* (src/src/base/backend/data/mot/mot_object.cpp), as functions on its     *)
(* state.  The content of a segment is a value the caller chooses; of a    *)
(* header it only matters whose it is.                                     *)
(***************************************************************************)
EXTENDS Integers, FiniteSets, Sequences, SequencesExt

NoHeader == 0        \* mHeaderCore.initialized = false
BodyAsHeader == -1   \* a header core read from other bytes, those of a body segment
MaxSegments == 8192

\* reset(), which is also the state after construction
EmptyObject == [mTransportId |-> -1, mHeaderCore |-> NoHeader,
                mMotMap |-> << >>, mNumOfSegments |-> -1]

\* mutant: another transport id does not start a new series
ObjectFor_keep(o, transportId) == [o EXCEPT !.mTransportId = transportId]

\* the object the next header or segment goes to
ObjectFor(o, transportId) ==
  IF o.mTransportId # transportId
  THEN [EmptyObject EXCEPT !.mTransportId = transportId]
  ELSE o

SetHeader(o, transportId, headerCore) ==
  [ObjectFor(o, transportId) EXCEPT !.mHeaderCore = headerCore]

IsDuplicate(o, transportId, segmentNumber) ==
  segmentNumber \in DOMAIN ObjectFor(o, transportId).mMotMap

ValidNumber(segmentNumber) == segmentNumber >= 0 /\ segmentNumber < MaxSegments

\* add_body_segment; the first copy of a segment counts.  An invalid number is
\* rejected before the transport id is looked at
AddBodySegment(o, transportId, segmentNumber, lastFlag, data) ==
  LET p == ObjectFor(o, transportId)
      numbers == DOMAIN p.mMotMap \cup {segmentNumber}
  IN IF ~ValidNumber(segmentNumber) THEN o
     ELSE IF IsDuplicate(o, transportId, segmentNumber) THEN p
     ELSE [p EXCEPT !.mMotMap = [n \in numbers |-> IF n = segmentNumber THEN data ELSE p.mMotMap[n]],
                    !.mNumOfSegments = IF lastFlag THEN segmentNumber + 1 ELSE @]

\* mutant: one segment more than there are
CheckIfComplete_strict(o) ==
  /\ o.mHeaderCore # NoHeader
  /\ o.mNumOfSegments >= 0
  /\ Cardinality(DOMAIN o.mMotMap) > o.mNumOfSegments

CheckIfComplete(o) ==
  /\ o.mHeaderCore # NoHeader
  /\ o.mNumOfSegments >= 0
  /\ Cardinality(DOMAIN o.mMotMap) >= o.mNumOfSegments
  /\ \A n \in 0..(o.mNumOfSegments - 1) : n \in DOMAIN o.mMotMap

\* the arguments of signal_new_mot_object
HandleComplete(o) ==
  LET numbers == SetToSortSeq(DOMAIN o.mMotMap, <)
  IN [transportId |-> o.mTransportId, headerCore |-> o.mHeaderCore,
      body |-> [i \in DOMAIN numbers |-> o.mMotMap[numbers[i]]]]

Emitted(o) == IF CheckIfComplete(o) THEN <<HandleComplete(o)>> ELSE << >>

\* what set_header and add_body_segment emit
HeaderEmits(o, transportId, headerCore) == Emitted(SetHeader(o, transportId, headerCore))

\* mutant: a repeated segment emits the complete object again
BodyEmits_again(o, transportId, segmentNumber, lastFlag, data) ==
  Emitted(AddBodySegment(o, transportId, segmentNumber, lastFlag, data))

BodyEmits(o, transportId, segmentNumber, lastFlag, data) ==
  IF ~ValidNumber(segmentNumber) \/ IsDuplicate(o, transportId, segmentNumber) THEN << >>
  ELSE Emitted(AddBodySegment(o, transportId, segmentNumber, lastFlag, data))

=============================================================================
