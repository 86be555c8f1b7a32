----------------------------- MODULE PowerOfTwo -----------------------------
(***************************************************************************)
(* RingBuffer::_round_up_to_next_power_of_2 (src/src/common/ringbuffer.h), *)
(* which makes the masks of the ring buffer meaningful, on words of        *)
(* 2 ^ LogWidth bits (32 in the code).                                     *)
(***************************************************************************)
EXTENDS Integers, Bitwise

CONSTANT LogWidth

ASSUME WidthAssumption == LogWidth \in 1 .. 5

Width == 2 ^ LogWidth
Words == 0 .. 2 ^ Width - 1

\* mutant: the shift width doubles too early, so that bits are skipped
Smear_shiftTwice(iVal, i) == iVal | shiftR(iVal, 2 * i)

\* iVal |= iVal >> i
Smear(iVal, i) == iVal | shiftR(iVal, i)

\* Zero returns 1 at once; anything else is decremented, smeared with i = 1, 2, 4, ... below
\* the width, and incremented in the arithmetic of the word
RoundUp(n) ==
  LET smeared[k \in 0 .. LogWidth] ==
        IF k = 0 THEN n - 1 ELSE Smear(smeared[k - 1], 2 ^ (k - 1))
  IN IF n = 0 THEN 1 ELSE (smeared[LogWidth] + 1) % 2 ^ Width

=============================================================================
