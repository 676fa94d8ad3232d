--------------------------- MODULE Numbers_proofs ---------------------------
(***************************************************************************)
(* Proofs about numbers within a range, for every range, every input and   *)
(* bytes of any even number of values.                                     *)
(***************************************************************************)
EXTENDS Numbers, TLAPS

IsRange(t) == t.lo \in Int /\ t.hi \in Int /\ t.lo < t.hi
Byte == -(Base \div 2) .. (Base \div 2 - 1)

Yields(r, v, index) == r = Read(TRUE, v, index)
Refuses(r, v, index) == r = Read(FALSE, v, index)

-----------------------------------------------------------------------------
(* Lemmas.                                                                 *)

\* Half of the values of a byte are below 0.
LEMMA HalfOfBase ==
  /\ Base \in Nat \ {0} /\ Base \div 2 \in Nat \ {0}
  /\ Base = 2 * (Base \div 2)
<1>1. PICK n \in 2 .. 128 : Base = 2 * n
  BY WidthsAssumption
<1>2. Base \div 2 = n
  BY <1>1
<1> QED BY <1>1, <1>2

\* What the remainder is for a number that is in the range, or below it by at
\* most once the range.
LEMMA RemainderOf ==
  ASSUME NEW d \in Nat \ {0}, NEW n \in Int, -d <= n, n < d
  PROVE  n % d = IF n < 0 THEN n + d ELSE n
<1>0. CASE n = -d
  <2>1. n = d * (-1) + 0
    BY <1>0
  <2> QED BY <1>0, <2>1
<1>1. CASE n >= 0
  BY <1>1
<1>2. CASE n < 0
  BY <1>2
<1> QED BY <1>1, <1>2

LEMMA RemainderInRange ==
  ASSUME NEW d \in Nat \ {0}, NEW n \in Int
  PROVE  n % d \in 0 .. d - 1
OBVIOUS

\* % of the language stays on its side of 0.
LEMMA RemIsClose ==
  ASSUME NEW d \in Nat \ {0}, NEW n \in Int
  PROVE  /\ Rem(n, d) \in -(d - 1) .. d - 1
         /\ n >= 0 => Rem(n, d) >= 0
         /\ n \in 0 .. d - 1 => Rem(n, d) = n
<1>1. CASE n >= 0
  <2>1. Rem(n, d) = n % d
    BY <1>1 DEF Rem
  <2>2. n \in 0 .. d - 1 => n % d = n
    BY RemainderOf
  <2>3. n % d \in 0 .. d - 1
    BY RemainderInRange
  <2> QED BY <1>1, <2>1, <2>2, <2>3
<1>2. CASE n < 0
  <2>1. -n \in Int /\ (-n) % d \in 0 .. d - 1
    BY RemainderInRange
  <2>2. Rem(n, d) = -((-n) % d)
    BY <1>2 DEF Rem
  <2> QED BY <1>2, <2>1, <2>2
<1> QED BY <1>1, <1>2

\* A byte is a byte, and one that is kept when the number is one already.
LEMMA ByteOfIsByte ==
  ASSUME NEW n \in Int
  PROVE  /\ ByteOf(n) \in Byte
         /\ n \in Byte => ByteOf(n) = n
<1> DEFINE half == Base \div 2
<1>1. Base \in Nat \ {0} /\ half \in Nat \ {0} /\ Base = 2 * half
  BY HalfOfBase
<1>2. n % Base \in 0 .. Base - 1
  BY <1>1, RemainderInRange
<1>3. ByteOf(n) = IF n % Base >= half THEN (n % Base) - Base ELSE n % Base
  BY DEF ByteOf, Signed
<1>4. n \in Byte => n % Base = IF n < 0 THEN n + Base ELSE n
  <2> HAVE n \in Byte
  <2>1. -Base <= n /\ n < Base
    BY <1>1 DEF Byte
  <2> QED BY <1>1, <2>1, RemainderOf
<1> HIDE DEF half
<1>5. Byte = -half .. half - 1
  BY DEF Byte, half
<1>6. ByteOf(n) \in Byte
  <2> DEFINE m == n % Base
  <2>1. m \in 0 .. 2 * half - 1
    BY <1>1, <1>2
  <2>2. ByteOf(n) = IF m >= half THEN m - 2 * half ELSE m
    BY <1>1, <1>3
  <2> HIDE DEF m
  <2> QED BY <1>1, <1>5, <2>1, <2>2
<1>7. n \in Byte => ByteOf(n) = n
  <2> HAVE n \in Byte
  <2>1. n \in -half .. half - 1
    BY <1>5
  <2> DEFINE m == n % Base
  <2>2. m = IF n < 0 THEN n + 2 * half ELSE n
    BY <1>1, <1>4
  <2>3. ByteOf(n) = IF m >= half THEN m - 2 * half ELSE m
    BY <1>1, <1>3
  <2> HIDE DEF m
  <2> QED BY <1>1, <2>1, <2>2, <2>3
<1> QED BY <1>6, <1>7

\* A reader that succeeded, and one that did not.
LEMMA ValueOfRead ==
  \A r, x, i : Yields(r, x, i) => r.ok /\ r.value = x /\ r.index = i
BY DEF Read, Yields

LEMMA ValueOfRefusal ==
  \A r, x, i : Refuses(r, x, i) => ~ r.ok /\ r.value = x /\ r.index = i
BY DEF Read, Refuses

\* What a reader answers is taken further only when it succeeded.
LEMMA WithOfRead ==
  /\ \A r, x, v, i : Yields(r, x, i) => Yields(With(r, v), v, i)
  /\ \A r, x, v, i : Refuses(r, x, i) => Refuses(With(r, v), x, i)
<1>1. ASSUME NEW r, NEW x, NEW v, NEW i, Yields(r, x, i)
      PROVE  Yields(With(r, v), v, i)
  <2>1. r.ok /\ r.index = i
    BY <1>1, ValueOfRead
  <2>2. With(r, v) = Read(TRUE, v, i)
    BY <2>1, Zenon DEF With
  <2> QED BY <2>2, Zenon DEF Yields
<1>2. ASSUME NEW r, NEW x, NEW v, NEW i, Refuses(r, x, i)
      PROVE  Refuses(With(r, v), x, i)
  <2>1. ~ r.ok
    BY <1>2, ValueOfRefusal
  <2>2. With(r, v) = r
    BY <2>1, Zenon DEF With
  <2> QED BY <1>2, <2>2, Zenon
<1> QED BY <1>1, <1>2, Zenon

\* A byte is read where there is one.
LEMMA ByteIsRead ==
  ASSUME NEW old, NEW input \in Seq(Byte), NEW index \in Nat
  PROVE  /\ index < Len(input)
            => Yields(ReadByte(old, input, index), input[index + 1], index + 1)
         /\ ~ index < Len(input) => Refuses(ReadByte(old, input, index), old, index)
<1>1. Len(input) \in Nat
  OBVIOUS
<1>2. Len(input) <= index <=> ~ index < Len(input)
  BY <1>1
<1> QED BY <1>2, Zenon DEF ReadByte, Yields, Refuses

\* What is then read of a range, from a byte or from an Int.
LEMMA RangeFromByte ==
  \A t, old, input, index, x, i :
    Narrow(t) /\ Yields(ReadByte(old, input, index), x, i)
    => Yields(ReadWithin(t, old, input, index),
              ((x + Base \div 2) % (t.hi - t.lo)) + t.lo, i)
<1> TAKE t, old, input, index, x, i
<1> HAVE Narrow(t) /\ Yields(ReadByte(old, input, index), x, i)
<1> DEFINE w == ((x + Base \div 2) % (t.hi - t.lo)) + t.lo
<1>1. ReadByte(old, input, index).value = x
  BY ValueOfRead
<1>2. ReadWithin(t, old, input, index) = With(ReadByte(old, input, index), w)
  BY <1>1 DEF ReadWithin
<1> HIDE DEF w
<1>3. Yields(With(ReadByte(old, input, index), w), w, i)
  BY WithOfRead
<1> QED BY <1>2, <1>3 DEF w

LEMMA NoRangeFromByte ==
  \A t, old, input, index, x, i :
    Narrow(t) /\ Refuses(ReadByte(old, input, index), x, i)
    => Refuses(ReadWithin(t, old, input, index), x, i)
<1> TAKE t, old, input, index, x, i
<1> HAVE Narrow(t) /\ Refuses(ReadByte(old, input, index), x, i)
<1> DEFINE r == ReadByte(old, input, index)
           w == ((r.value + Base \div 2) % (t.hi - t.lo)) + t.lo
<1>1. ReadWithin(t, old, input, index) = With(r, w)
  BY DEF ReadWithin
<1>2. Refuses(With(r, w), x, i)
  <2> HIDE DEF w
  <2> QED BY WithOfRead
<1> HIDE DEF w, r
<1> QED BY <1>1, <1>2

LEMMA RangeFromInt ==
  \A t, old, input, index, n, i :
    ~ Narrow(t) /\ Yields(ReadInt(old, input, index), n, i)
    => Yields(ReadWithin(t, old, input, index), Rem(n, t.hi - t.lo) + t.lo, i)
<1> TAKE t, old, input, index, n, i
<1> HAVE ~ Narrow(t) /\ Yields(ReadInt(old, input, index), n, i)
<1> DEFINE w == Rem(n, t.hi - t.lo) + t.lo
<1>1. ReadInt(old, input, index).value = n
  BY ValueOfRead
<1>2. ReadWithin(t, old, input, index) = With(ReadInt(old, input, index), w)
  BY <1>1 DEF ReadWithin
<1> HIDE DEF w
<1>3. Yields(With(ReadInt(old, input, index), w), w, i)
  BY WithOfRead
<1> QED BY <1>2, <1>3 DEF w

-----------------------------------------------------------------------------
(* Theorems.                                                               *)

\* Whatever the bytes are, from a file or a fuzzer, what is read for a range
\* below a byte is a value of the range, and the byte is consumed; where there
\* is none nothing changes (parse_from_vector of a BInt or a
\* LinearlyDistributedInt).
THEOREM NarrowIsWithin ==
  ASSUME NEW t, IsRange(t), Narrow(t),
         NEW old, NEW input \in Seq(Byte), NEW index \in Nat
  PROVE  LET r == ReadWithin(t, old, input, index)
         IN IF index < Len(input)
            THEN r.ok /\ r.value \in t.lo .. t.hi - 1 /\ r.index = index + 1
            ELSE ~r.ok /\ r.value = old /\ r.index = index
<1> DEFINE d == t.hi - t.lo
           b == input[index + 1] + Base \div 2
           r == ReadWithin(t, old, input, index)
<1>1. d \in Nat \ {0} /\ t.lo \in Int /\ t.hi - 1 = t.lo + d - 1
  BY DEF IsRange
<1>2. CASE index < Len(input)
  <2>1. input[index + 1] \in Byte
    BY <1>2
  <2>2. b \in Int
    BY <2>1, HalfOfBase DEF Byte
  <2>3. b % d \in 0 .. d - 1
    BY <1>1, <2>2, RemainderInRange
  <2>4. Yields(ReadByte(old, input, index), input[index + 1], index + 1)
    BY <1>2, ByteIsRead
  <2>5. Yields(r, (b % d) + t.lo, index + 1)
    BY <2>4, RangeFromByte
  <2> HIDE DEF b, d, r
  <2>6. r.ok /\ r.value = (b % d) + t.lo /\ r.index = index + 1
    BY <2>5, ValueOfRead
  <2>7. (b % d) + t.lo \in t.lo .. t.hi - 1
    BY <1>1, <2>3
  <2> QED BY <1>2, <2>6, <2>7 DEF r
<1>3. CASE ~ index < Len(input)
  <2>1. Refuses(r, old, index)
    BY <1>3, ByteIsRead, NoRangeFromByte
  <2> HIDE DEF r
  <2>2. ~ r.ok /\ r.value = old /\ r.index = index
    BY <2>1, ValueOfRefusal
  <2> QED BY <1>3, <2>2 DEF r
<1> QED BY <1>2, <1>3

\* Every value of such a range is read back from the byte it is written as,
\* whatever is before and behind it: the byte is centred on 0, the remainder
\* undoes it (append_to_vector and parse_from_vector of a BInt).
THEOREM NarrowReadsBack ==
  ASSUME NEW t, IsRange(t), Narrow(t), NEW v \in t.lo .. t.hi - 1,
         NEW old, NEW before \in Seq(Byte), NEW after \in Seq(Byte)
  PROVE  ReadWithin(t, old, before \o WithinBytes(t, v) \o after, Len(before))
           = Read(TRUE, v, Len(before) + 1)
<1> DEFINE d == t.hi - t.lo
           half == Base \div 2
           b == ByteOf(v - Low(t))
           input == before \o <<b>> \o after
           index == Len(before)
<1>1. /\ d \in Nat \ {0} /\ d < Base /\ t.lo \in Int /\ v \in Int
      /\ v - t.lo \in 0 .. d - 1
  BY DEF IsRange, Narrow
<1>2. Base \in Nat \ {0} /\ half \in Nat \ {0} /\ Base = 2 * half
  BY HalfOfBase
<1>3. v - Low(t) = v - t.lo - half /\ v - Low(t) \in Byte
  <2>1. Low(t) = t.lo + half
    BY DEF Low
  <2>2. Byte = -half .. half - 1
    BY DEF Byte
  <2> HIDE DEF d, half
  <2>3. v - t.lo \in 0 .. 2 * half - 1
    BY <1>1, <1>2
  <2> QED BY <1>1, <1>2, <2>1, <2>2, <2>3
<1>4. b = v - t.lo - half /\ b \in Byte
  BY <1>1, <1>2, <1>3, ByteOfIsByte
<1>5. (b + half) % d = v - t.lo
  <2>1. b + half = v - t.lo
    BY <1>1, <1>2, <1>4
  <2> HIDE DEF d, half, b
  <2>2. -d <= v - t.lo /\ v - t.lo < d /\ v - t.lo \in Int /\ ~ v - t.lo < 0
    BY <1>1
  <2>3. (v - t.lo) % d = v - t.lo
    BY <1>1, <2>2, RemainderOf
  <2> QED BY <2>1, <2>3
<1>6. WithinBytes(t, v) = <<b>>
  BY DEF WithinBytes
<1>7. /\ input \in Seq(Byte) /\ index \in Nat /\ index < Len(input)
      /\ input[index + 1] = b
  <2> HIDE DEF b
  <2> QED BY <1>4
<1> HIDE DEF b, input, index
<1>8. Yields(ReadByte(old, input, index), b, index + 1)
  BY <1>7, ByteIsRead
<1>9. Yields(ReadWithin(t, old, input, index), ((b + half) % d) + t.lo, index + 1)
  BY <1>8, RangeFromByte
<1> HIDE DEF d, half
<1>10. ((b + half) % d) + t.lo = v
  BY <1>1, <1>5
<1> QED BY <1>6, <1>9, <1>10, Zenon DEF input, index, Yields

\* A range of a byte or more is read from an Int, and the remainder of a
\* negative one is negative: what is read is below the end of the range, but
\* it may be below its start by almost the whole range, and is not when the
\* Int is no less than 0; and an Int that counts from the start is read as
\* what it stands for (parse_from_vector of a BInt).
THEOREM WideIsBelow ==
  ASSUME NEW t, IsRange(t), ~ Narrow(t),
         NEW old, NEW input, NEW index, NEW n \in Int,
         ReadInt(old, input, index) = Read(TRUE, n, index + IntBytes)
  PROVE  LET r == ReadWithin(t, old, input, index)
         IN /\ r.ok /\ r.index = index + IntBytes
            /\ r.value \in t.lo - (t.hi - t.lo - 1) .. t.hi - 1
            /\ n >= 0 => r.value \in t.lo .. t.hi - 1
            /\ n \in 0 .. t.hi - t.lo - 1 => r.value = t.lo + n
<1> DEFINE d == t.hi - t.lo
           r == ReadWithin(t, old, input, index)
<1>1. d \in Nat \ {0} /\ t.lo \in Int /\ t.hi - 1 = t.lo + d - 1
  BY DEF IsRange
<1>2. Yields(ReadInt(old, input, index), n, index + IntBytes)
  BY DEF Yields
<1>3. Yields(r, Rem(n, d) + t.lo, index + IntBytes)
  BY <1>2, RangeFromInt
<1>4. /\ Rem(n, d) \in -(d - 1) .. d - 1
      /\ n >= 0 => Rem(n, d) >= 0
      /\ n \in 0 .. d - 1 => Rem(n, d) = n
  BY <1>1, RemIsClose
<1> HIDE DEF r
<1>5. r.ok /\ r.value = Rem(n, d) + t.lo /\ r.index = index + IntBytes
  BY <1>3, ValueOfRead
<1> HIDE DEF d
<1>6. /\ r.value \in t.lo - (d - 1) .. t.hi - 1
      /\ n >= 0 => r.value \in t.lo .. t.hi - 1
      /\ n \in 0 .. d - 1 => r.value = t.lo + n
  BY <1>1, <1>4, <1>5
<1> QED BY <1>5, <1>6 DEF d, r

\* What a learner observes of a number in a range tells it apart from every
\* other, and has a single one (write_in_observation_tensor).
THEOREM OneHotTells ==
  ASSUME NEW lo \in Int, NEW hi \in Int, NEW v \in lo .. hi - 1
  PROVE  /\ OneHot(v, lo, hi) \in [1 .. hi - lo -> {0, 1}]
         /\ \A i \in 1 .. hi - lo : OneHot(v, lo, hi)[i] = 1 <=> i = v - lo + 1
         /\ \A w \in lo .. hi - 1 : OneHot(w, lo, hi) = OneHot(v, lo, hi) => w = v
<1>1. \A w \in lo .. hi - 1 : \A i \in 1 .. hi - lo :
        OneHot(w, lo, hi)[i] = IF lo + i - 1 = w THEN 1 ELSE 0
  BY DEF OneHot
<1>2. OneHot(v, lo, hi) \in [1 .. hi - lo -> {0, 1}]
  BY DEF OneHot
<1>3. \A w \in lo .. hi - 1 : OneHot(w, lo, hi) = OneHot(v, lo, hi) => w = v
  <2> SUFFICES ASSUME NEW w \in lo .. hi - 1, OneHot(w, lo, hi) = OneHot(v, lo, hi)
               PROVE  w = v
    OBVIOUS
  <2>1. v - lo + 1 \in 1 .. hi - lo /\ lo + (v - lo + 1) - 1 = v
    OBVIOUS
  <2>2. OneHot(v, lo, hi)[v - lo + 1] = 1
    BY <1>1, <2>1
  <2> QED BY <1>1, <2>1, <2>2
<1> QED BY <1>1, <1>2, <1>3
=============================================================================
