---------------------------- MODULE EtiGenerator ----------------------------
(***************************************************************************)
(* EtiGenerator (src/src/base/eti_handler/eti_generator.cpp): writes every *)
(* received CIF, time de-interleaved and together with its FIBs, as one    *)
(* frame of an ETI file.                                                   *)
(*                                                                         *)
(* process_block is called with every OFDM symbol of a frame.  Symbol 1    *)
(* may start the generator, symbol 4 imports the FIBs, and every           *)
(* numberofblocksperCIF-th symbol after it completes a CIF; the symbols in *)
(* between only fill cif_In.  A CIF is represented by the number of CIFs   *)
(* the generator has taken so far, its bits by their Depth delay classes.  *)
(* The GUI thread's calls take the same mutex and are actions too.         *)
(***************************************************************************)
EXTENDS Integers

CONSTANTS
  Depth,        \* interleaving depth, 16 in the code
  CifsPerFrame, \* 4 in the code
  FirstCifs,    \* CIF counts the transmission may have when the receiver starts
  MaxFrames     \* bound: number of DAB frames on air

ASSUME EtiDepthAssumption == Depth \in Nat \ {0}
ASSUME EtiFrameAssumption == CifsPerFrame \in Nat \ {0} /\ MaxFrames \in Nat
ASSUME EtiCountAssumption == FirstCifs \subseteq 0 .. 4999

VARIABLES
  symbol,       \* next event of the frame: "first" (symbol 1), "fourth", "cif"
  firstCif,     \* number of the first CIF on air
  airCif,       \* number of the CIF on air
  cifInFrame,   \* its position in the frame
  mCifCount,    \* CIF count of the FIB decoder: of the last FIG 0/0, 0 before it
  etiFile,      \* file is open
  running, index_Out, amount, Minor, CIFCount,
  cifVector,    \* slot -> CIF
  fibVector,    \* slot -> number of the CIF on air the FIBs belong to
  taken,        \* number of CIFs taken since the program started
  framesWritten,   \* number of ETI frames written since the generator was started
  frame         \* the ETI frame that has just been written

rxVars == <<symbol, firstCif, airCif, cifInFrame, mCifCount>>
genVars == <<etiFile, running, index_Out, amount, Minor, CIFCount, cifVector, fibVector>>
history == <<taken, framesWritten, frame>>
vars == <<rxVars, genVars, history>>

None == -1
Slots == 0 .. Depth - 1
NoFrame == [written |-> FALSE]

Init ==
  /\ symbol = "first" /\ firstCif \in FirstCifs /\ airCif = firstCif
  /\ cifInFrame = 0 /\ mCifCount = 0
  /\ etiFile = FALSE /\ running = FALSE
  /\ index_Out = 0 /\ amount = 0 /\ Minor = -1 /\ CIFCount = None
  /\ cifVector = [s \in Slots |-> None] /\ fibVector = [s \in Slots |-> None]
  /\ taken = 0 /\ framesWritten = 0 /\ frame = NoFrame

OnAir == airCif + CifsPerFrame <= firstCif + MaxFrames * CifsPerFrame

-----------------------------------------------------------------------------
(* GUI thread *)

\* start_eti_generator: reset, then the file is opened, if it can be.  The matrices are
\* globals and keep what an earlier recording left.
start_eti_generator ==
  /\ ~etiFile
  /\ etiFile' \in BOOLEAN /\ running' = FALSE
  /\ index_Out' = 0 /\ amount' = 0 /\ Minor' = -1 /\ CIFCount' = None
  /\ framesWritten' = 0 /\ frame' = NoFrame
  /\ UNCHANGED <<rxVars, cifVector, fibVector, taken>>

stop_eti_generator ==
  /\ etiFile
  /\ etiFile' = FALSE /\ running' = FALSE
  /\ frame' = NoFrame
  /\ UNCHANGED <<rxVars, index_Out, amount, Minor, CIFCount, cifVector, fibVector, taken,
                 framesWritten>>

-----------------------------------------------------------------------------
(* Processor thread *)

\* Synchronisation is lost for a frame: none of its symbols is decoded
LoseFrame ==
  /\ symbol = "first" /\ OnAir
  /\ airCif' = airCif + CifsPerFrame
  /\ frame' = NoFrame
  /\ UNCHANGED <<symbol, firstCif, cifInFrame, mCifCount, genVars, taken, framesWritten>>

\* "we ensure that when starting, we start with a block 1".  The FIB decoder gets the first
\* symbols too: count is what it has for this frame after them.
Symbol1(count) ==
  /\ symbol = "first" /\ OnAir
  /\ running' = (running \/ etiFile)
  /\ mCifCount' = count
  /\ symbol' = "fourth"
  /\ frame' = NoFrame
  /\ UNCHANGED <<firstCif, airCif, cifInFrame, etiFile, index_Out, amount, Minor, CIFCount,
                 cifVector, fibVector, taken, framesWritten>>

\* FIG 0/0 of this frame is received, or fails its CRC, or a FIB with impossible content has
\* made the FIB decoder reset itself after it
FigCounts == {airCif % 5000, mCifCount, 0}

\* import fibBits
Symbol4 ==
  /\ symbol = "fourth"
  /\ symbol' = "cif"
  /\ IF running
       THEN /\ fibVector' = [s \in Slots |->
                 IF \E i \in 0 .. CifsPerFrame - 1 : s = (index_Out + i) % Depth
                   THEN airCif + (CHOOSE i \in 0 .. CifsPerFrame - 1 : s = (index_Out + i) % Depth)
                   ELSE fibVector[s]]
            /\ Minor' = 0
            /\ CIFCount' = mCifCount
       ELSE UNCHANGED <<fibVector, Minor, CIFCount>>
  /\ UNCHANGED <<firstCif, airCif, cifInFrame, mCifCount, etiFile, running, index_Out, amount,
                 cifVector, history>>

\* _init_eti: CIFCount_lo and CIFCount_hi of the CIF with this Minor
CountLo(count, minor) == ((count % 250) + minor) % 250

\* mutant: no carry from CIFCount_lo
CountHi_noCarry(count, minor) ==
  LET hi == count \div 250 IN IF hi >= 20 THEN 20 ELSE hi

CountHi(count, minor) ==
  LET hi == (count \div 250) + (IF (count % 250) + minor >= 250 THEN 1 ELSE 0)
  IN IF hi >= 20 THEN 20 ELSE hi

\* "The FP is computed as remainder of the total CIFCount"
FramePhase(count, minor) == (CountHi(count, minor) * 250 + CountLo(count, minor)) % 8

\* mutant: the new CIF is stored before the old ones are taken out
Deinterleaved_storeFirst ==
  [c \in Slots |-> IF c = 0 THEN taken ELSE cifVector[(index_Out + c) % Depth]]

\* temp: the bits of each class before cif_In is stored
Deinterleaved == [c \in Slots |-> cifVector[(index_Out + c) % Depth]]

\* mutant: the index does not wrap
NextIndex_noMask == index_Out + 1

NextIndex == (index_Out + 1) % Depth

\* "we have to wait until the interleave matrix is filled"
Filling ==
  /\ amount < Depth - 1
  /\ amount' = amount + 1 /\ index_Out' = NextIndex /\ Minor' = -1
  /\ UNCHANGED <<framesWritten, frame>>

\* The return for a frame whose FIBs were not imported.  The one before it, for a negative
\* CIF count, is never taken: the FIB decoder counts from 0, and a generator that runs has
\* asked it at symbol 4 (TypeOK).
NoMinor ==
  /\ amount >= Depth - 1 /\ Minor < 0
  /\ UNCHANGED <<amount, index_Out, Minor, framesWritten, frame>>

\* _init_eti, _process_cif and fwrite, then on to a new eti vector
WriteFrame ==
  /\ amount >= Depth - 1 /\ Minor >= 0
  /\ frame' = [written |-> TRUE, bits |-> Deinterleaved, last |-> taken - 1, before |-> framesWritten,
               fib |-> fibVector[index_Out], cif |-> airCif, minor |-> Minor,
               fct |-> CountLo(CIFCount, Minor), fp |-> FramePhase(CIFCount, Minor),
               counted |-> CIFCount = (airCif - cifInFrame) % 5000]
  /\ framesWritten' = framesWritten + 1
  /\ index_Out' = NextIndex
  /\ Minor' = Minor + 1
  /\ UNCHANGED amount

\* The last block of a CIF
CifComplete ==
  /\ symbol = "cif"
  /\ airCif' = airCif + 1
  /\ cifInFrame' = (cifInFrame + 1) % CifsPerFrame
  /\ symbol' = IF cifInFrame' = 0 THEN "first" ELSE "cif"
  /\ IF running
       THEN /\ cifVector' = [cifVector EXCEPT ![index_Out] = taken]
            /\ taken' = taken + 1
            /\ Filling \/ NoMinor \/ WriteFrame
       ELSE UNCHANGED <<cifVector, taken, framesWritten, amount, index_Out, Minor, frame>>
  /\ UNCHANGED <<firstCif, mCifCount, etiFile, running, CIFCount, fibVector>>

Next ==
  \/ start_eti_generator \/ stop_eti_generator
  \/ LoseFrame \/ \E count \in FigCounts : Symbol1(count)
  \/ Symbol4 \/ CifComplete

Spec == Init /\ [][Next]_vars

-----------------------------------------------------------------------------
\* The types of the state; index_Out stays a slot number, amount below the depth, Minor
\* "runs from 0 .. 3" (comment in process_block), -1 while nothing is written, and a CIF is
\* never completed with a CIF count below 0.
TypeOK ==
  /\ symbol \in {"first", "fourth", "cif"}
  /\ firstCif \in FirstCifs /\ airCif \in Nat /\ cifInFrame \in 0 .. CifsPerFrame - 1
  /\ mCifCount \in 0 .. 4999 /\ CIFCount \in -1 .. 4999
  /\ symbol = "cif" /\ running => CIFCount >= 0
  /\ etiFile \in BOOLEAN /\ running \in BOOLEAN
  /\ index_Out \in Slots /\ amount \in 0 .. Depth - 1 /\ Minor \in -1 .. CifsPerFrame
  /\ cifVector \in [Slots -> Nat \cup {None}] /\ fibVector \in [Slots -> Nat \cup {None}]
  /\ taken \in Nat /\ framesWritten \in Nat
  /\ frame.written => frame.minor \in 0 .. CifsPerFrame - 1

\* Each ETI frame carries the FIBs, the frame count and the frame phase of the CIF that
\* completed it, also where CIFCount_lo wraps at 250 in the middle of a DAB frame and carries
\* into CIFCount_hi, which becomes 20 and not 0 at count 5000.  Count and phase are claimed
\* for the frames of which FIG 0/0 was received.
CountAndFibsOfCif ==
  frame.written =>
    /\ frame.fib = frame.cif
    /\ frame.counted => /\ frame.fct = frame.cif % 250
                        /\ frame.fp = (frame.cif % 5000) % 8

\* After the first Depth ETI frames of a recording every frame is de-interleaved from the
\* Depth CIFs that precede the completing one, whatever an earlier recording has left in the
\* matrix and although the CIF after the filling, for which Minor is still -1, is skipped.
SettledFrames ==
  frame.written /\ frame.before >= Depth =>
    \A c \in Slots : frame.bits[c] = frame.last + 1 - Depth + c

\* "we have to wait until the interleave matrix is filled" (comment in process_block): so
\* does every ETI frame that is written.
MatrixFilled ==
  frame.written => \A c \in Slots : frame.bits[c] = frame.last + 1 - Depth + c
=============================================================================
