-------------------------------- MODULE PRNG --------------------------------
(***************************************************************************)
(* The pseudorandom numbers of getrandom and of the random devices: a      *)
(* shift register of 16 bits.                                              *)
(***************************************************************************)
EXTENDS Integers

CONSTANTS
  Width,            \* of lfsr, in bits
  startingState     \* a number of that width

VARIABLES
  lfsr,             \* its bits, from the lowest
  drawn             \* how many numbers have been drawn

vars == <<lfsr, drawn>>

Bits == 0..(Width - 1)
BitsOf(n) == [i \in Bits |-> (n \div 2^i) % 2]

Init == lfsr = BitsOf(startingState) /\ drawn = 0

Xor(x, y) == [i \in Bits |-> (x[i] + y[i]) % 2]
RightShift(x, n) == [i \in Bits |-> IF i + n \in Bits THEN x[i + n] ELSE 0]
LeftShift(x, n) == [i \in Bits |-> IF i - n \in Bits THEN x[i - n] ELSE 0]

get_OtherShift(x) ==
  LET a == Xor(x, RightShift(x, 7))
      b == Xor(a, LeftShift(a, 8))
  IN Xor(b, RightShift(b, 13))

get(x) ==
  LET a == Xor(x, RightShift(x, 7))
      b == Xor(a, LeftShift(a, 9))
  IN Xor(b, RightShift(b, 13))

\* One whole period at most.
Next ==
  /\ drawn < 2^Width - 1
  /\ lfsr' = get(lfsr)
  /\ drawn' = drawn + 1

Spec == Init /\ [][Next]_vars

----------------------------------------------------------------------------

\* The numbers repeat only after all 2^16 - 1 states but 0 have been seen.  As
\* every state is followed by one other, it is enough that the first one does
\* not come back earlier, and does come back.
FullPeriod == drawn > 0 => (lfsr = BitsOf(startingState) <=> drawn = 2^Width - 1)
=============================================================================
