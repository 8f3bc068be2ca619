-------------------------------- MODULE Bytes --------------------------------
(***************************************************************************)
(* What codec.py and frame.py both build on: unsigned numbers in big-endian  *)
(* order, as struct packs and unpacks them, and reading from the front of a   *)
(* sequence of bytes, where a byte has Base values.                          *)
(*                                                                          *)
(* A definition without a comment of its own, placed before the one it      *)
(* alters, is a seeded mistake (README, "Seeded mistakes").                 *)
(***************************************************************************)
EXTENDS Integers, Sequences

CONSTANT Base   \* how many values a byte has: 256; up to 16, Places are numbers to TLC
ASSUME BaseAssumption == Base \in Nat /\ Base >= 13   \* 12 is a length in the code

Byte == 0..(Base - 1)

\* What a byte is worth, from the last of a number on; the longest has 8.
Places ==
    LET Two == Base * Base
        Four == Two * Two
    IN  <<1, Base, Two, Base * Two, Four, Base * Four, Two * Four, Base * Two * Four>>

\* How many numbers w bytes can tell apart, for w < 8.
Limit(w) == Places[w + 1]

\* write_u8, write_u16, write_u32, write_u64: what does not fit is masked away.
Digits(n, w) == [i \in 1..w |-> (n \div Places[w - i + 1]) % Base]

\* struct.unpack of the same
Number(bytes) ==
    LET Digit(i) == IF i <= Len(bytes) THEN bytes[Len(bytes) - i + 1] * Places[i] ELSE 0
    IN  Digit(1) + Digit(2) + Digit(3) + Digit(4) + Digit(5) + Digit(6) + Digit(7) + Digit(8)

-----------------------------------------------------------------------------
\* What a read_ call returns: the value and the bytes left, or EOFError.
Got(x, left) == [ok |-> TRUE, value |-> x, left |-> left]
EOFError == [ok |-> FALSE, value |-> <<>>, left |-> <<>>]

\* read_bytes
ReadRaw(bytes, n) ==
    IF Len(bytes) < n THEN EOFError
    ELSE Got(SubSeq(bytes, 1, n), SubSeq(bytes, n + 1, Len(bytes)))

\* Go on with what was read, unless that failed.
Then(r, F(_, _)) == IF r.ok THEN F(r.value, r.left) ELSE EOFError

ReadU(bytes, w) == Then(ReadRaw(bytes, w), LAMBDA x, left : Got(Number(x), left))

ReadStrUnchecked(bytes, w) ==
    Then(ReadU(bytes, w), LAMBDA n, left :
        LET m == IF n < Len(left) THEN n ELSE Len(left) IN ReadRaw(left, m))

\* read_string_u8, read_string_u16, and bytes after a struct.unpack of their length
ReadStr(bytes, w) == Then(ReadU(bytes, w), LAMBDA n, left : ReadRaw(left, n))
=============================================================================
