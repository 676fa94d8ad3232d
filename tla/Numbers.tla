------------------------------- MODULE Numbers -------------------------------
(***************************************************************************)
(* How a number is written as bytes and read back (to_byte_vector.rl,      *)
(* bounded_arg.rl, Conversion.cpp), and as a tensor for a learner           *)
(* (action.rl): what the walks over a type in Encoding end in.             *)
(* A reader takes what the destination holds, the input and the position it *)
(* is at, and answers whether it succeeded, what the destination holds then *)
(* and where it stopped: reading is by side effect, also when it fails.     *)
(*                                                                         *)
(* A byte has Base values and an Int IntBytes bytes, 256 and 8 in the code. *)
(***************************************************************************)
EXTENDS Integers, SequencesExt

CONSTANTS Base, IntBytes

ASSUME WidthsAssumption == Base \in {2 * n : n \in 2..128} /\ IntBytes \in Nat \ {0}

-----------------------------------------------------------------------------
(* Numbers as bytes.                                                       *)

Signed(b) == IF b >= Base \div 2 THEN b - Base ELSE b
ByteOf(n) == Signed(n % Base)
Wrapped(n) ==
    LET size == Base ^ IntBytes
        m == n % size
    IN IF m >= size \div 2 THEN m - size ELSE m

(* % of the language takes the sign of the dividend.                       *)
Rem(a, b) == IF a >= 0 THEN a % b ELSE -((-a) % b)

ToArray(n) == [i \in 1..IntBytes |-> ByteOf(n \div Base ^ (i - 1))]

\* Fault: from the lowest byte on.
FromArrayReversed(bytes) ==
    FoldLeft(LAMBDA n, b : IF b < 0 THEN b ELSE Wrapped(n * Base + b), 0, bytes)

(* From the highest byte down each byte is extended with its sign and put   *)
(* into the low end of what there is by an or.                              *)
FromArray(bytes) ==
    FoldRight(LAMBDA b, n : IF b < 0 THEN b ELSE Wrapped(n * Base + b), bytes, 0)

Narrow(t) == t.hi - t.lo < Base
\* Fault: the byte of the lowest value is 0.
LowUncentred(t) == t.lo
Low(t) == t.lo + Base \div 2

(* A range below a byte takes one byte, centred on 0, any other an Int.     *)
WithinBytes(t, v) == IF Narrow(t) THEN <<ByteOf(v - Low(t))>> ELSE ToArray(v - t.lo)

-----------------------------------------------------------------------------
(* Reading bytes.                                                          *)

Read(ok, value, index) == [ok |-> ok, value |-> value, index |-> index]

\* Fault: the position of the caller stays where it was.
ReadIntInPlace(v, input, index) ==
    IF index + IntBytes > Len(input) THEN Read(FALSE, v, index)
    ELSE Read(TRUE, FromArray(SubSeq(input, index + 1, index + IntBytes)), index)

ReadInt(v, input, index) ==
    IF index + IntBytes > Len(input) THEN Read(FALSE, v, index)
    ELSE Read(TRUE, FromArray(SubSeq(input, index + 1, index + IntBytes)), index + IntBytes)

ReadByte(v, input, index) ==
    IF Len(input) <= index THEN Read(FALSE, v, index)
    ELSE Read(TRUE, input[index + 1], index + 1)

With(r, v) == IF r.ok THEN Read(TRUE, v, r.index) ELSE r

\* Fault: what was read is taken as it is.
ReadWithinUnbounded(t, v, input, index) ==
    IF Narrow(t)
    THEN LET r == ReadByte(v, input, index) IN With(r, r.value + Low(t))
    ELSE LET r == ReadInt(v, input, index) IN With(r, r.value + t.lo)

(* A range below a byte wraps a byte into it, any other wraps an Int.      *)
ReadWithin(t, v, input, index) ==
    IF Narrow(t)
    THEN LET r == ReadByte(v, input, index)
         IN With(r, ((r.value + Base \div 2) % (t.hi - t.lo)) + t.lo)
    ELSE LET r == ReadInt(v, input, index)
         IN With(r, Rem(r.value, t.hi - t.lo) + t.lo)

-----------------------------------------------------------------------------
(* A number as a tensor.                                                    *)

\* Fault: a position too many.
OneHotInclusive(value, lo, hi) ==
    [i \in 1..(hi - lo + 1) |-> IF lo + i - 1 = value THEN 1 ELSE 0]
OneHot(value, lo, hi) == [i \in 1..(hi - lo) |-> IF lo + i - 1 = value THEN 1 ELSE 0]
==============================================================================
