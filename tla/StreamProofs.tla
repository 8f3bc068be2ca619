---------------------------- MODULE StreamProofs ----------------------------
(***************************************************************************)
(* A frame is decoded to what was encoded, and the read loop yields the     *)
(* frames that were written, in order and whole, in whatever pieces their   *)
(* bytes come and wherever the stream ends: for all messages, sizes of the  *)
(* pieces and widths of a byte the assumptions allow, and any length.       *)
(***************************************************************************)
EXTENDS Stream, SequenceTheorems, TLAPS

\* What the proofs use of the values of a byte, and of the numbers of them.
LEMMA BaseFacts ==
    /\ Base \in Nat \ {0} /\ Base >= 13 /\ Base * Base \in Nat \ {0}
    /\ Base * (Base * Base) \in Nat \ {0} /\ (Base * Base) * (Base * Base) \in Nat \ {0}
BY BaseAssumption

LEMMA PlaceFacts ==
    /\ Places[1] = 1 /\ Places[2] = Base /\ Places[3] = Base * Base
    /\ Places[4] = Base * (Base * Base) /\ Places[5] = (Base * Base) * (Base * Base)
BY DEF Places

LEMMA LimitFacts ==
    /\ Limit(1) \in Nat /\ Limit(2) \in Nat /\ Limit(4) \in Nat
    /\ Limit(1) > 7 /\ Limit(2) > 16 /\ Limit(4) > Limit(2)
BY BaseFacts, PlaceFacts DEF Limit

\* A number is packed into as many bytes as its width says ...
LEMMA DigitsType ==
    ASSUME NEW n \in Nat, NEW w \in {1, 2, 4}
    PROVE  Digits(n, w) \in Seq(Byte) /\ Len(Digits(n, w)) = w
<1>1. \A i \in 1..w : (n \div Places[w - i + 1]) % Base \in Byte
  BY BaseFacts DEF Places, Byte
<1>2. Digits(n, w) \in [1..w -> Byte]
  BY <1>1 DEF Digits
<1> QED BY <1>2

\* What the bytes of a number add up to.
LEMMA NumberSums ==
    ASSUME NEW b \in Seq(Nat)
    PROVE  /\ Len(b) = 1 => Number(b) = b[1]
           /\ Len(b) = 2 => Number(b) = b[2] + b[1] * Base
           /\ Len(b) = 4 => Number(b) = b[4] + b[3] * Base + b[2] * (Base * Base)
                                          + b[1] * (Base * (Base * Base))
<1>1. Base \in Nat /\ Base * Base \in Nat /\ Base * (Base * Base) \in Nat
  BY BaseAssumption
<1>0. \A i \in 1..Len(b) : b[i] \in Nat
  OBVIOUS
<1>2. ASSUME Len(b) = 1 PROVE Number(b) = b[1]
  <2>1. Number(b) = b[1] * Places[1] + 0 + 0 + 0 + 0 + 0 + 0 + 0
    BY <1>2 DEF Number
  <2>2. b[1] \in Nat
    BY <1>0, <1>2
  <2> QED BY <2>1, <2>2, PlaceFacts
<1>3. ASSUME Len(b) = 2 PROVE Number(b) = b[2] + b[1] * Base
  <2>1. Number(b) = b[2] * Places[1] + b[1] * Places[2] + 0 + 0 + 0 + 0 + 0 + 0
    BY <1>3 DEF Number
  <2>2. b[1] \in Nat /\ b[2] \in Nat
    BY <1>0, <1>3
  <2>3. b[2] * Places[1] = b[2] /\ b[1] * Places[2] = b[1] * Base
    BY <2>2, PlaceFacts
  <2>4. b[1] * Base \in Nat
    <3>1. \A p, q \in Nat : p * q \in Nat
      OBVIOUS
    <3> QED BY <1>1, <2>2, <3>1, Zenon
  <2>5. \A p, q \in Nat : p + q + 0 + 0 + 0 + 0 + 0 + 0 = p + q
    OBVIOUS
  <2>6. b[2] + b[1] * Base + 0 + 0 + 0 + 0 + 0 + 0 = b[2] + b[1] * Base
    BY <2>2, <2>4, <2>5, Zenon
  <2> QED BY <2>1, <2>3, <2>6, Zenon
<1>4. ASSUME Len(b) = 4
      PROVE Number(b) = b[4] + b[3] * Base + b[2] * (Base * Base) + b[1] * (Base * (Base * Base))
  <2>1. Number(b) = b[4] * Places[1] + b[3] * Places[2] + b[2] * Places[3] + b[1] * Places[4]
                      + 0 + 0 + 0 + 0
    BY <1>4 DEF Number
  <2>2. b[1] \in Nat /\ b[2] \in Nat /\ b[3] \in Nat /\ b[4] \in Nat
    BY <1>0, <1>4
  <2>3. /\ b[4] * Places[1] = b[4] /\ b[3] * Places[2] = b[3] * Base
        /\ b[2] * Places[3] = b[2] * (Base * Base)
        /\ b[1] * Places[4] = b[1] * (Base * (Base * Base))
    BY <2>2, PlaceFacts
  <2>4. /\ b[3] * Base \in Nat /\ b[2] * (Base * Base) \in Nat
        /\ b[1] * (Base * (Base * Base)) \in Nat
    <3>1. \A p, q \in Nat : p * q \in Nat
      OBVIOUS
    <3> QED BY <1>1, <2>2, <3>1, Zenon
  <2>5. /\ \A p, q \in Nat : p + q \in Nat
        /\ \A p \in Nat : p + 0 + 0 + 0 + 0 = p
    OBVIOUS
  <2>6. b[4] + b[3] * Base + b[2] * (Base * Base) + b[1] * (Base * (Base * Base)) \in Nat
    BY <2>2, <2>4, <2>5, Zenon
  <2>7. b[4] + b[3] * Base + b[2] * (Base * Base) + b[1] * (Base * (Base * Base)) + 0 + 0 + 0 + 0
          = b[4] + b[3] * Base + b[2] * (Base * Base) + b[1] * (Base * (Base * Base))
    BY <2>5, <2>6, Zenon
  <2> QED BY <2>1, <2>3, <2>7, Zenon
<1> QED BY <1>2, <1>3, <1>4

\* Division with remainder, once and twice
LEMMA Division ==
    ASSUME NEW n \in Nat, NEW b \in Nat \ {0}
    PROVE  n \div b \in Nat /\ n % b \in 0..(b - 1) /\ n = (n % b) + (n \div b) * b
OBVIOUS

LEMMA DivisionTwice ==
    ASSUME NEW n \in Nat, NEW b \in Nat \ {0}, NEW c \in Nat \ {0}
    PROVE  n \div (b * c) = (n \div b) \div c
OBVIOUS

LEMMA QuotientBound ==
    ASSUME NEW n \in Nat, NEW b \in Nat \ {0}, NEW c \in Nat, n < b * c
    PROVE  n \div b < c
OBVIOUS

\* A number is the sum of its digits, each times what its place is worth.
LEMMA Positional ==
    /\ \A n \in 0..(Base - 1) : n % Base = n
    /\ \A n \in 0..(Base * Base - 1) : (n % Base) + ((n \div Base) % Base) * Base = n
    /\ \A n \in 0..((Base * Base) * (Base * Base) - 1) :
          (n % Base) + ((n \div Base) % Base) * Base
            + ((n \div (Base * Base)) % Base) * (Base * Base)
            + ((n \div (Base * (Base * Base))) % Base) * (Base * (Base * Base)) = n
<1>1. \A n \in 0..(Base - 1) : n % Base = n
  BY BaseFacts
<1>2. ASSUME NEW n \in 0..(Base * Base - 1)
      PROVE  (n % Base) + ((n \div Base) % Base) * Base = n
  <2>1. n \in Nat /\ n < Base * Base
    BY BaseFacts
  <2>2. n \div Base \in 0..(Base - 1)
    <3>1. n \div Base \in Nat
      BY <2>1, BaseFacts, Division
    <3>2. n \div Base < Base
      BY <2>1, BaseFacts, QuotientBound
    <3> QED BY <3>1, <3>2, BaseFacts
  <2>3. (n \div Base) % Base = n \div Base
    BY <1>1, <2>2, Zenon
  <2>4. (n % Base) + (n \div Base) * Base = n
    BY <2>1, BaseFacts, Division
  <2> QED BY <2>3, <2>4, Zenon
<1>3. ASSUME NEW n \in 0..((Base * Base) * (Base * Base) - 1)
      PROVE  (n % Base) + ((n \div Base) % Base) * Base
               + ((n \div (Base * Base)) % Base) * (Base * Base)
               + ((n \div (Base * (Base * Base))) % Base) * (Base * (Base * Base)) = n
  <2> DEFINE p == n \div Base
             q == n \div (Base * Base)
             r == n \div (Base * (Base * Base))
  <2>1. n \in Nat /\ n < (Base * Base) * (Base * Base)
    BY BaseFacts
  <2>2. /\ p \in Nat /\ n = (n % Base) + p * Base
        /\ q \in Nat /\ q < Base * Base
    BY <2>1, BaseFacts, Division, QuotientBound
  <2>3. q = p \div Base
    BY <2>1, BaseFacts, DivisionTwice
  <2>4. r = q \div Base
    <3>1. Base * (Base * Base) = (Base * Base) * Base
      BY BaseFacts
    <3> QED BY <2>1, <3>1, BaseFacts, DivisionTwice
  <2>5. n % Base \in Nat /\ p % Base \in Nat /\ q % Base \in Nat
    BY <2>1, <2>2, BaseFacts, Division
  <2> HIDE DEF p, q, r
  <2>6. p = (p % Base) + q * Base
    BY <2>2, <2>3, BaseFacts, Division
  <2>7. q = (q % Base) + r * Base /\ r \in Nat /\ r < Base
    BY <2>2, <2>4, BaseFacts, Division, QuotientBound
  <2>8. r % Base = r
    BY <1>1, <2>7, BaseFacts
  <2>9. ASSUME NEW a \in Nat, NEW b \in Nat, NEW c \in Nat, NEW d \in Nat,
               p = b + q * Base, q = c + d * Base, n = a + p * Base
        PROVE  a + b * Base + c * (Base * Base) + d * (Base * (Base * Base)) = n
    <3>1. q * Base = c * Base + d * (Base * Base)
      BY <2>9, BaseFacts
    <3>2. p * Base = b * Base + c * (Base * Base) + d * (Base * (Base * Base))
      BY <2>9, <3>1, BaseFacts
    <3> QED BY <2>9, <3>2, BaseFacts
  <2>10. (n % Base) + (p % Base) * Base + (q % Base) * (Base * Base)
           + (r % Base) * (Base * (Base * Base)) = n
    BY <2>2, <2>5, <2>6, <2>7, <2>8, <2>9
  <2> QED BY <2>10 DEF p, q, r
<1> QED BY <1>1, <1>2, <1>3

\* ... and unpacked as it was if it fits.
LEMMA NumberOfDigits ==
    ASSUME NEW w \in {1, 2, 4}, NEW n \in 0..(Limit(w) - 1)
    PROVE  Number(Digits(n, w)) = n
<1>1. n \in Nat /\ Base \in Nat /\ n \div 1 = n
  BY LimitFacts, BaseAssumption
<1> DEFINE d == Digits(n, w)
<1>2. d \in Seq(Nat) /\ Len(d) = w /\ \A i \in 1..w : d[i] = (n \div Places[w - i + 1]) % Base
  <2>1. \A i \in 1..w : d[i] = (n \div Places[w - i + 1]) % Base
    BY DEF Digits
  <2>2. d \in Seq(Byte) /\ Len(d) = w
    BY <1>1, DigitsType
  <2>3. \A i \in 1..Len(d) : d[i] \in Nat
    BY <1>1, <2>2 DEF Byte
  <2>4. d \in Seq(Nat)
    BY <2>2, <2>3
  <2> QED BY <2>1, <2>2, <2>4
<1> SUFFICES Number(d) = n
  OBVIOUS
<1> HIDE DEF d
<1>3. CASE w = 1
  <2>1. d[1] = n % Base
    <3>1. d[1] = (n \div Places[1]) % Base
      BY <1>2, <1>3
    <3> QED BY <1>1, <3>1, PlaceFacts
  <2>2. n \in 0..(Base - 1)
    BY <1>3, PlaceFacts DEF Limit
  <2>3. n % Base = n
    BY <2>2, Positional, Zenon
  <2>4. Number(d) = d[1]
    BY <1>2, <1>3, NumberSums
  <2> QED BY <2>1, <2>3, <2>4
<1>4. CASE w = 2
  <2>1. d[2] = n % Base /\ d[1] = (n \div Base) % Base
    <3>1. d[2] = (n \div Places[1]) % Base /\ d[1] = (n \div Places[2]) % Base
      BY <1>2, <1>4
    <3> QED BY <1>1, <3>1, PlaceFacts
  <2>2. n \in 0..(Base * Base - 1)
    BY <1>4, PlaceFacts DEF Limit
  <2>3. (n % Base) + ((n \div Base) % Base) * Base = n
    BY <2>2, Positional, Zenon
  <2>4. Number(d) = d[2] + d[1] * Base
    BY <1>2, <1>4, NumberSums
  <2> QED BY <2>1, <2>3, <2>4
<1>5. CASE w = 4
  <2>1. /\ d[4] = n % Base /\ d[3] = (n \div Base) % Base
        /\ d[2] = (n \div (Base * Base)) % Base
        /\ d[1] = (n \div (Base * (Base * Base))) % Base
    <3>1. /\ d[4] = (n \div Places[1]) % Base /\ d[3] = (n \div Places[2]) % Base
          /\ d[2] = (n \div Places[3]) % Base /\ d[1] = (n \div Places[4]) % Base
      BY <1>2, <1>5
    <3> QED BY <1>1, <3>1, PlaceFacts
  <2>2. n \in 0..((Base * Base) * (Base * Base) - 1)
    BY <1>5, PlaceFacts DEF Limit
  <2>3. (n % Base) + ((n \div Base) % Base) * Base
          + ((n \div (Base * Base)) % Base) * (Base * Base)
          + ((n \div (Base * (Base * Base))) % Base) * (Base * (Base * Base)) = n
    BY <2>2, Positional, Zenon
  <2>4. Number(d) = d[4] + d[3] * Base + d[2] * (Base * Base) + d[1] * (Base * (Base * Base))
    BY <1>2, <1>5, NumberSums
  <2> QED BY <2>1, <2>3, <2>4
<1> QED BY <1>3, <1>4, <1>5

-----------------------------------------------------------------------------
\* What is put in front is read from the front.
LEMMA Parts ==
    ASSUME NEW s \in Seq(Byte), NEW t \in Seq(Byte)
    PROVE  /\ s \o t \in Seq(Byte) /\ Len(s \o t) = Len(s) + Len(t)
           /\ SubSeq(s \o t, 1, Len(s)) = s
           /\ SubSeq(s \o t, Len(s) + 1, Len(s \o t)) = t
<1>1. s \o t \in Seq(Byte) /\ Len(s \o t) = Len(s) + Len(t)
  BY ConcatProperties
<1>2. SubSeq(s \o t, 1, Len(s)) = s
  BY SubSeqOfConcat1, SubSeqFull
<1>3. SubSeq(s \o t, Len(s) + 1, Len(s) + Len(t)) = t
  <2>1. SubSeq(s \o t, Len(s) + 1, Len(s) + Len(t)) = SubSeq(t, 1, Len(t))
    BY SubSeqOfConcat2
  <2> QED BY <2>1, SubSeqFull
<1> QED BY <1>1, <1>2, <1>3

LEMMA Front ==
    ASSUME NEW s \in Seq(Byte), NEW t \in Seq(Byte)
    PROVE  \A m, n \in 1..Len(s) : SubSeq(s \o t, m, n) = SubSeq(s, m, n)
BY SubSeqOfConcat1

LEMMA Associate ==
    ASSUME NEW s \in Seq(Byte), NEW t \in Seq(Byte), NEW u \in Seq(Byte)
    PROVE  (s \o t) \o u = s \o (t \o u)
BY ConcatAssociative

LEMMA NoneInFront == ASSUME NEW s \in Seq(Byte) PROVE <<>> \o s = s
BY ConcatEmptySeq

\* t was put behind s, of k bytes, and is there from place i to n.
Joined(s, t, k, i, n) ==
    /\ s \o t \in Seq(Byte) /\ Len(s \o t) = n
    /\ \A p, q \in 1..k : SubSeq(s \o t, p, q) = SubSeq(s, p, q)
    /\ SubSeq(s \o t, i, n) = t

LEMMA Join ==
    ASSUME NEW s \in Seq(Byte), NEW t \in Seq(Byte), NEW k \in Nat, NEW l \in Nat,
           Len(s) = k, Len(t) = l, NEW i \in Nat, NEW n \in Nat, i = k + 1, n = k + l
    PROVE  Joined(s, t, k, i, n)
<1>1. s \o t \in Seq(Byte) /\ Len(s \o t) = n
  BY Parts
<1>2. \A p, q \in 1..k : SubSeq(s \o t, p, q) = SubSeq(s, p, q)
  BY SubSeqOfConcat1
<1>3. SubSeq(s \o t, i, n) = t
  BY <1>1, Parts
<1> QED BY <1>1, <1>2, <1>3 DEF Joined

LEMMA ReadRawParts ==
    ASSUME NEW s \in Seq(Byte), NEW t \in Seq(Byte)
    PROVE  ReadRaw(s \o t, Len(s)) = Got(s, t)
<1>1. /\ Len(s \o t) = Len(s) + Len(t) /\ SubSeq(s \o t, 1, Len(s)) = s
      /\ SubSeq(s \o t, Len(s) + 1, Len(s \o t)) = t
  BY Parts
<1>2. Len(s) \in Nat /\ Len(t) \in Nat /\ ~(Len(s \o t) < Len(s))
  BY <1>1
<1> QED BY <1>1, <1>2 DEF ReadRaw

\* A number in front, and bytes after their length, are read as they were written.
LEMMA ReadUOfDigits ==
    ASSUME NEW w \in {1, 2, 4}, NEW n \in 0..(Limit(w) - 1), NEW t \in Seq(Byte)
    PROVE  ReadU(Digits(n, w) \o t, w) = Got(n, t)
<1>1. Digits(n, w) \in Seq(Byte) /\ Len(Digits(n, w)) = w /\ Number(Digits(n, w)) = n
  <2>1. n \in Nat
    BY LimitFacts
  <2> QED BY <2>1, DigitsType, NumberOfDigits
<1>2. ReadRaw(Digits(n, w) \o t, w) = Got(Digits(n, w), t)
  BY <1>1, ReadRawParts
<1> QED BY <1>1, <1>2 DEF ReadU, Then, Got

LEMMA ReadStrOfDigits ==
    ASSUME NEW w \in {1, 2, 4}, NEW s \in Seq(Byte), Len(s) < Limit(w), NEW t \in Seq(Byte)
    PROVE  ReadStr(Digits(Len(s), w) \o (s \o t), w) = Got(s, t)
<1>1. Len(s) \in 0..(Limit(w) - 1) /\ s \o t \in Seq(Byte)
  <2>1. s \o t \in Seq(Byte)
    BY Parts
  <2> QED BY <2>1, LimitFacts
<1>2. ReadU(Digits(Len(s), w) \o (s \o t), w) = Got(Len(s), s \o t)
  BY <1>1, ReadUOfDigits
<1> QED BY <1>2, ReadRawParts DEF ReadStr, Then, Got

-----------------------------------------------------------------------------
LEMMA MagicFits == MAGIC_NUMBER \in 0..(Limit(2) - 1)
BY BaseFacts, PlaceFacts DEF MAGIC_NUMBER, Limit

LEMMA HeaderParts ==
    ASSUME NEW flags \in Nat, NEW stream \in Nat, NEW length \in Nat
    PROVE  LET h == Header(flags, stream, length)
           IN  /\ h \in Seq(Byte) /\ Len(h) = HEADER_SIZE
               /\ SubSeq(h, 1, 2) = Digits(MAGIC_NUMBER, 2)
               /\ SubSeq(h, 4, 4) = Digits(flags, 1)
               /\ SubSeq(h, 5, 8) = Digits(stream, 4)
               /\ SubSeq(h, 9, 12) = Digits(length, 4)
<1> DEFINE a == Digits(MAGIC_NUMBER, 2)
           b == Digits(PROTOCOL_VERSION, 1)
           c == Digits(flags, 1)
           d == Digits(stream, 4)
           e == Digits(length, 4)
           z == Digits(0, 4)
           h2 == a \o b
           h3 == h2 \o c
           h4 == h3 \o d
           h5 == h4 \o e
           h == h5 \o z
<1>1. /\ a \in Seq(Byte) /\ Len(a) = 2 /\ b \in Seq(Byte) /\ Len(b) = 1
      /\ c \in Seq(Byte) /\ Len(c) = 1 /\ d \in Seq(Byte) /\ Len(d) = 4
      /\ e \in Seq(Byte) /\ Len(e) = 4 /\ z \in Seq(Byte) /\ Len(z) = 4
  <2>1. MAGIC_NUMBER \in Nat /\ PROTOCOL_VERSION \in Nat /\ 0 \in Nat
    BY MagicFits, LimitFacts DEF PROTOCOL_VERSION
  <2> QED BY <2>1, DigitsType
<1>2. h = Header(flags, stream, length)
  BY DEF Header
<1>3. /\ 1 \in Nat /\ 2 \in Nat /\ 3 \in Nat /\ 4 \in Nat /\ 5 \in Nat /\ 8 \in Nat
      /\ 9 \in Nat /\ 12 \in Nat /\ 13 \in Nat /\ 16 \in Nat
      /\ 3 = 2 + 1 /\ 4 = 3 + 1 /\ 5 = 4 + 1 /\ 8 = 4 + 4 /\ 9 = 8 + 1 /\ 12 = 8 + 4
      /\ 13 = 12 + 1 /\ 16 = 12 + 4
  OBVIOUS
<1> HIDE DEF a, b, c, d, e, z, h2, h3, h4, h5, h
<1>4. /\ h2 \in Seq(Byte) /\ Len(h2) = 3
      /\ \A m, n \in 1..2 : SubSeq(h2, m, n) = SubSeq(a, m, n)
      /\ SubSeq(h2, 3, 3) = b
  <2>1. Joined(a, b, 2, 3, 3)
    BY <1>1, <1>3, Join, Zenon
  <2> QED BY <2>1, Zenon DEF Joined, h2
<1>5. /\ h3 \in Seq(Byte) /\ Len(h3) = 4
      /\ \A m, n \in 1..3 : SubSeq(h3, m, n) = SubSeq(h2, m, n)
      /\ SubSeq(h3, 4, 4) = c
  <2>1. Joined(h2, c, 3, 4, 4)
    BY <1>1, <1>3, <1>4, Join, Zenon
  <2> QED BY <2>1, Zenon DEF Joined, h3
<1>6. /\ h4 \in Seq(Byte) /\ Len(h4) = 8
      /\ \A m, n \in 1..4 : SubSeq(h4, m, n) = SubSeq(h3, m, n)
      /\ SubSeq(h4, 5, 8) = d
  <2>1. Joined(h3, d, 4, 5, 8)
    BY <1>1, <1>3, <1>5, Join, Zenon
  <2> QED BY <2>1, Zenon DEF Joined, h4
<1>7. /\ h5 \in Seq(Byte) /\ Len(h5) = 12
      /\ \A m, n \in 1..8 : SubSeq(h5, m, n) = SubSeq(h4, m, n)
      /\ SubSeq(h5, 9, 12) = e
  <2>1. Joined(h4, e, 8, 9, 12)
    BY <1>1, <1>3, <1>6, Join, Zenon
  <2> QED BY <2>1, Zenon DEF Joined, h5
<1>8. /\ h \in Seq(Byte) /\ Len(h) = 16
      /\ \A m, n \in 1..12 : SubSeq(h, m, n) = SubSeq(h5, m, n)
      /\ SubSeq(h, 13, 16) = z
  <2>1. Joined(h5, z, 12, 13, 16)
    BY <1>1, <1>3, <1>7, Join, Zenon
  <2> QED BY <2>1, Zenon DEF Joined, h
<1>9. SubSeq(h4, 1, 2) = a /\ SubSeq(h4, 4, 4) = c
  BY <1>1, <1>4, <1>5, <1>6, SubSeqFull
<1>10. SubSeq(h, 1, 2) = a /\ SubSeq(h, 4, 4) = c
  BY <1>7, <1>8, <1>9
<1>11. SubSeq(h, 5, 8) = d /\ SubSeq(h, 9, 12) = e
  BY <1>6, <1>7, <1>8
<1> QED BY <1>2, <1>8, <1>10, <1>11 DEF a, c, d, e, HEADER_SIZE

LEMMA FlagFacts ==
    ASSUME NEW f, IsFrame(f)
    PROVE  /\ Flags(f) \in 0..7
           /\ Has(Flags(f), REQUEST) = f.request
           /\ Has(Flags(f), ENCRYPTED) = f.encrypted
           /\ Has(Flags(f), GOVERNANCE) = (f.governance # <<>>)
BY DEF IsFrame, Flags, Has, REQUEST, ENCRYPTED, GOVERNANCE

LEMMA FrameFacts ==
    ASSUME NEW f, IsFrame(f)
    PROVE  /\ f.opcode \in 0..(Limit(4) - 1) /\ f.stream \in 0..(Limit(4) - 1)
           /\ f.governance \in Seq(Byte) /\ f.body \in Seq(Byte)
           /\ f.opcode \in Nat /\ f.stream \in Nat
           /\ f = [opcode |-> f.opcode, stream |-> f.stream, request |-> f.request,
                   encrypted |-> f.encrypted, governance |-> f.governance, body |-> f.body]
BY LimitFacts DEF IsFrame

LEMMA PayloadParts ==
    ASSUME NEW f, IsFrame(f)
    PROVE  LET rest == Digits(4, 2) \o (Meta(f) \o f.body)
           IN  /\ rest \in Seq(Byte) /\ Payload(f) \in Seq(Byte)
               /\ Meta(f) \in Seq(Byte) /\ Len(Meta(f)) = 4 /\ Number(Meta(f)) = f.opcode
               /\ f.governance = <<>> => Payload(f) = rest
               /\ f.governance # <<>> =>
                     /\ Payload(f) = Digits(Len(f.governance), 4) \o (f.governance \o rest)
                     /\ Len(f.governance) < Limit(4)
<1> DEFINE meta == Meta(f)
           two == Digits(4, 2)
           rest == two \o (meta \o f.body)
           gov == f.governance
           four == Digits(Len(gov), 4)
<1>1. /\ meta \in Seq(Byte) /\ Len(meta) = 4 /\ Number(meta) = f.opcode
      /\ two \in Seq(Byte) /\ four \in Seq(Byte) /\ Len(four) = 4
  <2>1. f.opcode \in 0..(Limit(4) - 1) /\ f.opcode \in Nat /\ gov \in Seq(Byte) /\ Len(gov) \in Nat
    BY FrameFacts
  <2> QED BY <2>1, DigitsType, NumberOfDigits DEF Meta
<1>2. f.body \in Seq(Byte) /\ gov \in Seq(Byte)
  BY FrameFacts
<1>3. Payload(f) = (IF gov = <<>> THEN <<>> ELSE four \o gov) \o two \o meta \o f.body
  BY <1>1 DEF Payload, Governance
<1> HIDE DEF meta, two, four, gov
<1>4. meta \o f.body \in Seq(Byte)
  BY <1>1, <1>2, Parts
<1>5. rest \in Seq(Byte)
  BY <1>1, <1>4, Parts
<1>6. ASSUME NEW g \in Seq(Byte) PROVE g \o two \o meta \o f.body = g \o rest /\ g \o rest \in Seq(Byte)
  <2>1. g \o two \in Seq(Byte)
    BY <1>1, Parts
  <2>2. g \o two \o meta \o f.body = (g \o two) \o (meta \o f.body)
    BY <1>1, <1>2, <2>1, Associate, Zenon
  <2>3. (g \o two) \o (meta \o f.body) = g \o rest
    BY <1>1, <1>4, Associate, Zenon
  <2>4. g \o rest \in Seq(Byte)
    BY <1>5, Parts
  <2> QED BY <2>2, <2>3, <2>4
<1>7. CASE gov = <<>>
  <2>1. Payload(f) = <<>> \o rest
    <3>1. Payload(f) = <<>> \o two \o meta \o f.body
      BY <1>3, <1>7
    <3>2. <<>> \in Seq(Byte)
      OBVIOUS
    <3> HIDE DEF rest
    <3> QED BY <1>6, <3>1, <3>2, Zenon
  <2>2. Payload(f) = rest
    BY <1>5, <2>1, NoneInFront
  <2> QED BY <1>1, <1>5, <1>7, <2>2 DEF meta, two, gov
<1>8. CASE gov # <<>>
  <2>1. four \o gov \in Seq(Byte)
    BY <1>1, <1>2, Parts
  <2>2. Payload(f) = (four \o gov) \o rest /\ Payload(f) \in Seq(Byte)
    <3>1. Payload(f) = (four \o gov) \o two \o meta \o f.body
      BY <1>3, <1>8
    <3> HIDE DEF rest
    <3> QED BY <1>6, <2>1, <3>1, Zenon
  <2>3. Payload(f) = four \o (gov \o rest)
    <3>1. (four \o gov) \o rest = four \o (gov \o rest)
      BY <1>1, <1>2, <1>5, Associate, Zenon
    <3> QED BY <2>2, <3>1, Zenon
  <2>4. Len(Payload(f)) = Len(four) + Len(gov) + Len(rest)
    BY <1>1, <1>2, <1>5, <2>1, <2>2, Parts
  <2>5. Len(gov) < Limit(4)
    BY <1>1, <1>2, <1>5, <2>4, LimitFacts DEF IsFrame
  <2> QED BY <1>1, <1>5, <1>8, <2>2, <2>3, <2>5 DEF meta, two, gov, four
<1> QED BY <1>7, <1>8

LEMMA HeaderRead ==
    ASSUME NEW flags \in 0..7, NEW stream \in 0..(Limit(4) - 1), NEW length \in 0..(Limit(4) - 1),
           NEW p \in Seq(Byte)
    PROVE  /\ Header(flags, stream, length) \in Seq(Byte)
           /\ Len(Header(flags, stream, length)) = HEADER_SIZE
           /\ ReadHeader(Header(flags, stream, length) \o p)
                = Got([flags |-> flags, stream |-> stream, length |-> length], p)
<1> DEFINE h == Header(flags, stream, length)
<1>1. flags \in Nat /\ stream \in Nat /\ length \in Nat /\ flags \in 0..(Limit(1) - 1)
  BY LimitFacts
<1>2. /\ h \in Seq(Byte) /\ Len(h) = 16
      /\ SubSeq(h, 1, 2) = Digits(MAGIC_NUMBER, 2) /\ SubSeq(h, 4, 4) = Digits(flags, 1)
      /\ SubSeq(h, 5, 8) = Digits(stream, 4) /\ SubSeq(h, 9, 12) = Digits(length, 4)
  BY <1>1, HeaderParts DEF HEADER_SIZE
<1> HIDE DEF h
<1> DEFINE t == h \o p
<1>3. Joined(h, p, 16, 17, 16 + Len(p))
  <2>1. /\ 16 \in Nat /\ Len(p) \in Nat /\ 17 \in Nat /\ 16 + Len(p) \in Nat
        /\ 17 = 16 + 1 /\ 16 + Len(p) = 16 + Len(p)
    OBVIOUS
  <2> QED BY <1>2, <2>1, Join, Zenon
<1>4. t \in Seq(Byte) /\ Len(t) = 16 + Len(p) /\ SubSeq(t, 17, Len(t)) = p
  BY <1>3, Zenon DEF Joined
<1>5. \A m, n \in 1..16 : SubSeq(t, m, n) = SubSeq(h, m, n)
  BY <1>3, Zenon DEF Joined
<1> HIDE DEF t
<1>6. /\ Number(Digits(MAGIC_NUMBER, 2)) = MAGIC_NUMBER /\ Number(Digits(flags, 1)) = flags
      /\ Number(Digits(stream, 4)) = stream /\ Number(Digits(length, 4)) = length
  BY <1>1, NumberOfDigits, MagicFits, Zenon
<1>7. Number(SubSeq(t, 1, 2)) = MAGIC_NUMBER /\ Number(SubSeq(t, 4, 4)) = flags
  <2>1. SubSeq(t, 1, 2) = SubSeq(h, 1, 2) /\ SubSeq(t, 4, 4) = SubSeq(h, 4, 4)
    BY <1>5
  <2> QED BY <1>2, <1>6, <2>1
<1>8. Number(SubSeq(t, 5, 8)) = stream /\ Number(SubSeq(t, 9, 12)) = length
  <2>1. SubSeq(t, 5, 8) = SubSeq(h, 5, 8) /\ SubSeq(t, 9, 12) = SubSeq(h, 9, 12)
    BY <1>5
  <2> QED BY <1>2, <1>6, <2>1
<1>9. ~(Len(t) < 16) /\ 16 + 1 = 17
  BY <1>4
<1>10. ReadHeader(t) = Got([flags |-> flags, stream |-> stream, length |-> length], p)
  BY <1>4, <1>7, <1>8, <1>9, Zenon DEF ReadHeader, HEADER_SIZE
<1> QED BY <1>2, <1>10 DEF h, t, HEADER_SIZE

\* Decoding undoes encoding (frame.py: FrameDecoder.decode of what
\* FrameEncoder.encode returned): of every frame whose numbers and whose payload's
\* length fit their widths, every field comes back as it was, the governance block
\* and its absence, the flags and the body included, and no byte is left over.
THEOREM FramesSurvive ==
    ASSUME NEW f, IsFrame(f)
    PROVE  Decode(Encode(f)) = Got(f, <<>>)
<1> DEFINE rest == Digits(4, 2) \o (Meta(f) \o f.body)
           h == [flags |-> Flags(f), stream |-> f.stream, length |-> Len(Payload(f))]
<1>1. /\ rest \in Seq(Byte) /\ Payload(f) \in Seq(Byte)
      /\ Meta(f) \in Seq(Byte) /\ Len(Meta(f)) = 4 /\ Number(Meta(f)) = f.opcode
      /\ f.governance = <<>> => Payload(f) = rest
      /\ f.governance # <<>> =>
            /\ Payload(f) = Digits(Len(f.governance), 4) \o (f.governance \o rest)
            /\ Len(f.governance) < Limit(4)
  BY PayloadParts
<1>2. Len(Payload(f)) \in 0..(Limit(4) - 1)
  <2>1. Len(Payload(f)) < Limit(4)
    BY DEF IsFrame
  <2>2. Len(Payload(f)) \in Nat
    BY <1>1
  <2> HIDE DEF h, rest
  <2> QED BY <2>1, <2>2, LimitFacts
<1>3. ReadHeader(Encode(f)) = Got(h, Payload(f))
  <2>1. f.stream \in 0..(Limit(4) - 1) /\ Flags(f) \in 0..7
    BY FrameFacts, FlagFacts
  <2> QED BY <1>1, <1>2, <2>1, HeaderRead, Zenon DEF Encode
<1>4. (IF Has(h.flags, GOVERNANCE) THEN ReadStr(Payload(f), 4) ELSE Got(<<>>, Payload(f)))
         = Got(f.governance, rest)
  <2>1. CASE f.governance = <<>>
    BY <1>1, <2>1, FlagFacts
  <2>2. CASE f.governance # <<>>
    <3>1. ReadStr(Payload(f), 4) = Got(f.governance, rest)
      BY <1>1, <2>2, FrameFacts, ReadStrOfDigits
    <3> QED BY <2>2, <3>1, FlagFacts
  <2> QED BY <2>1, <2>2
<1>5. ReadStr(rest, 2) = Got(Meta(f), f.body)
  <2>1. 2 \in {1, 2, 4} /\ Len(Meta(f)) < Limit(2) /\ f.body \in Seq(Byte)
    BY <1>1, LimitFacts, FrameFacts
  <2> QED BY <1>1, <2>1, ReadStrOfDigits, Zenon
<1> DEFINE r1 == ReadHeader(Encode(f))
           r2 == IF Has(r1.value.flags, GOVERNANCE) THEN ReadStr(r1.left, 4) ELSE Got(<<>>, r1.left)
           r3 == ReadStr(r2.left, 2)
<1>6. Decode(Encode(f)) =
        IF ~r1.ok \/ ~r2.ok \/ ~r3.ok THEN EOFError
        ELSE Got([opcode |-> Number(r3.value), stream |-> r1.value.stream,
                  request |-> Has(r1.value.flags, REQUEST),
                  encrypted |-> Has(r1.value.flags, ENCRYPTED), governance |-> r2.value,
                  body |-> r3.left], <<>>)
  <2> HIDE DEF r1, r2, r3
  <2>1. Decode(Encode(f)) =
          IF r1.ok THEN IF r2.ok THEN IF r3.ok
          THEN Got([opcode |-> Number(r3.value), stream |-> r1.value.stream,
                    request |-> Has(r1.value.flags, REQUEST),
                    encrypted |-> Has(r1.value.flags, ENCRYPTED), governance |-> r2.value,
                    body |-> r3.left], <<>>)
          ELSE EOFError ELSE EOFError ELSE EOFError
    BY Zenon DEF Decode, Then, r1, r2, r3
  <2> QED BY <2>1, Zenon
<1>7. /\ r1.ok /\ r1.value = h /\ r1.left = Payload(f)
      /\ r2.ok /\ r2.value = f.governance /\ r2.left = rest
      /\ r3.ok /\ r3.value = Meta(f) /\ r3.left = f.body
  <2>1. r1.ok /\ r1.value = h /\ r1.left = Payload(f)
    BY <1>3 DEF Got
  <2>2. r2 = Got(f.governance, rest)
    BY <1>4, <2>1, Zenon
  <2>3. r2.ok /\ r2.value = f.governance /\ r2.left = rest
    BY <2>2 DEF Got
  <2>4. r3 = Got(Meta(f), f.body)
    BY <1>5, <2>3, Zenon
  <2> HIDE DEF r1, r2, r3, h, rest
  <2>5. r3.ok /\ r3.value = Meta(f) /\ r3.left = f.body
    BY <2>4 DEF Got
  <2> QED BY <2>1, <2>3, <2>5, Zenon
<1> HIDE DEF r1, r2, r3, rest
<1>8. h.flags = Flags(f) /\ h.stream = f.stream
  OBVIOUS
<1> HIDE DEF h
<1>9. Has(h.flags, REQUEST) = f.request /\ Has(h.flags, ENCRYPTED) = f.encrypted
  BY <1>8, FlagFacts
<1>10. Decode(Encode(f)) =
         Got([opcode |-> f.opcode, stream |-> f.stream, request |-> f.request,
              encrypted |-> f.encrypted, governance |-> f.governance, body |-> f.body], <<>>)
  <2>1. Number(r3.value) = f.opcode /\ r1.value.stream = f.stream
    BY <1>1, <1>7, <1>8, Zenon
  <2>2. Has(r1.value.flags, REQUEST) = f.request /\ Has(r1.value.flags, ENCRYPTED) = f.encrypted
    BY <1>7, <1>9, Zenon
  <2>3. r1.ok /\ r2.ok /\ r3.ok
    BY <1>7
  <2> QED BY <1>6, <1>7, <2>1, <2>2, <2>3
<1>11. f = [opcode |-> f.opcode, stream |-> f.stream, request |-> f.request,
            encrypted |-> f.encrypted, governance |-> f.governance, body |-> f.body]
  BY FrameFacts, Zenon
<1> QED BY <1>10, <1>11, Zenon

\* What the stream needs to know of a frame's bytes.
LEMMA EncodeFacts ==
    ASSUME NEW f, IsFrame(f)
    PROVE  /\ Encode(f) \in Seq(Byte) /\ Len(Encode(f)) >= 16
           /\ Decode(Encode(f)).ok /\ Decode(Encode(f)).value = f
           /\ ReadHeader(SubSeq(Encode(f), 1, 16)).ok
           /\ ReadHeader(SubSeq(Encode(f), 1, 16)).value.length = Len(Encode(f)) - 16
<1> DEFINE p == Payload(f)
           h == Header(Flags(f), f.stream, Len(p))
           fields == [flags |-> Flags(f), stream |-> f.stream, length |-> Len(p)]
<1>1. p \in Seq(Byte) /\ Len(p) \in 0..(Limit(4) - 1)
  <2>1. p \in Seq(Byte) /\ Len(p) < Limit(4)
    BY PayloadParts DEF IsFrame
  <2> QED BY <2>1, LimitFacts
<1>2. f.stream \in 0..(Limit(4) - 1) /\ Flags(f) \in 0..7
  BY FrameFacts, FlagFacts
<1>3. Encode(f) = h \o p
  BY DEF Encode
<1> HIDE DEF p
<1>4. /\ h \in Seq(Byte) /\ Len(h) = 16 /\ ReadHeader(h \o <<>>) = Got(fields, <<>>)
  <2>1. <<>> \in Seq(Byte)
    OBVIOUS
  <2> QED BY <1>1, <1>2, <2>1, HeaderRead, Zenon DEF HEADER_SIZE
<1>5. fields.length = Len(p)
  OBVIOUS
<1> HIDE DEF h, fields
<1>6. h \o <<>> = h
  BY <1>4, ConcatEmptySeq, Zenon
<1>7. Len(h \o p) = 16 + Len(p) /\ SubSeq(h \o p, 1, 16) = h /\ h \o p \in Seq(Byte)
  BY <1>1, <1>4, Parts
<1>8. /\ ReadHeader(SubSeq(Encode(f), 1, 16)).ok
      /\ ReadHeader(SubSeq(Encode(f), 1, 16)).value.length = Len(p)
  <2>1. ReadHeader(SubSeq(Encode(f), 1, 16)) = Got(fields, <<>>)
    BY <1>3, <1>4, <1>6, <1>7
  <2> QED BY <1>5, <2>1 DEF Got
<1>9. Decode(Encode(f)).ok /\ Decode(Encode(f)).value = f
  BY FramesSurvive DEF Got
<1>10. Len(Encode(f)) = 16 + Len(p) /\ Len(p) \in Nat
  <2>1. Len(p) \in Nat
    BY <1>1
  <2> QED BY <1>3, <1>7, <2>1, Zenon
<1> QED BY <1>3, <1>7, <1>8, <1>9, <1>10

-----------------------------------------------------------------------------
\* s is what w has from place p on.
Holds(s, w, p) ==
    /\ s \in Seq(Byte) /\ p + Len(s) <= Len(w)
    /\ \A i \in 1..Len(s) : s[i] = w[p + i]

LEMMA HoldsEmpty ==
    ASSUME NEW w \in Seq(Byte), NEW p \in 0..Len(w) PROVE Holds(<<>>, w, p)
BY DEF Holds

LEMMA HoldsBoth ==
    ASSUME NEW w \in Seq(Byte), NEW p \in Nat, NEW s, NEW t,
           Holds(s, w, p), Holds(t, w, p + Len(s))
    PROVE  Holds(s \o t, w, p) /\ Len(s \o t) = Len(s) + Len(t)
<1>1. /\ s \o t \in Seq(Byte) /\ Len(s \o t) = Len(s) + Len(t)
      /\ \A i \in 1..(Len(s) + Len(t)) : (s \o t)[i] = IF i <= Len(s) THEN s[i] ELSE t[i - Len(s)]
  BY ConcatProperties DEF Holds
<1>2. ASSUME NEW i \in 1..Len(s \o t) PROVE (s \o t)[i] = w[p + i]
  <2>1. CASE i <= Len(s)
    BY <1>1, <2>1 DEF Holds
  <2>2. CASE ~(i <= Len(s))
    <3>1. i - Len(s) \in 1..Len(t) /\ (p + Len(s)) + (i - Len(s)) = p + i
      BY <1>1, <2>2 DEF Holds
    <3> QED BY <1>1, <2>2, <3>1 DEF Holds
  <2> QED BY <2>1, <2>2
<1> QED BY <1>1, <1>2 DEF Holds

LEMMA HoldsParts ==
    ASSUME NEW w \in Seq(Byte), NEW p \in Nat, NEW s, Holds(s, w, p), NEW n \in 0..Len(s)
    PROVE  /\ Holds(SubSeq(s, 1, n), w, p) /\ Len(SubSeq(s, 1, n)) = n
           /\ Holds(SubSeq(s, n + 1, Len(s)), w, p + n)
           /\ Len(SubSeq(s, n + 1, Len(s))) = Len(s) - n
<1>1. /\ SubSeq(s, 1, n) \in Seq(Byte) /\ Len(SubSeq(s, 1, n)) = n
      /\ \A i \in 1..n : SubSeq(s, 1, n)[i] = s[i]
  BY DEF Holds
<1>2. /\ SubSeq(s, n + 1, Len(s)) \in Seq(Byte) /\ Len(SubSeq(s, n + 1, Len(s))) = Len(s) - n
      /\ \A i \in 1..(Len(s) - n) : SubSeq(s, n + 1, Len(s))[i] = s[n + i]
  <2>1. s \in Seq(Byte) /\ Len(s) \in Nat /\ \A i \in (n + 1)..Len(s) : s[i] \in Byte
    BY DEF Holds
  <2>2. /\ SubSeq(s, n + 1, Len(s)) \in Seq(Byte)
        /\ Len(SubSeq(s, n + 1, Len(s)))
             = IF n + 1 <= Len(s) THEN Len(s) - (n + 1) + 1 ELSE 0
        /\ \A i \in 1..(Len(s) - (n + 1) + 1) : SubSeq(s, n + 1, Len(s))[i] = s[(n + 1) + i - 1]
    BY <2>1, SubSeqProperties
  <2>3. Len(SubSeq(s, n + 1, Len(s))) = Len(s) - n
    BY <2>1, <2>2
  <2>4. ASSUME NEW i \in 1..(Len(s) - n) PROVE SubSeq(s, n + 1, Len(s))[i] = s[n + i]
    <3>1. i \in 1..(Len(s) - (n + 1) + 1) /\ (n + 1) + i - 1 = n + i
      BY <2>1
    <3> QED BY <2>2, <3>1, Zenon
  <2> QED BY <2>2, <2>3, <2>4
<1>3. Holds(SubSeq(s, 1, n), w, p)
  BY <1>1 DEF Holds
<1>4. Holds(SubSeq(s, n + 1, Len(s)), w, p + n)
  <2>1. ASSUME NEW i \in 1..(Len(s) - n) PROVE s[n + i] = w[(p + n) + i]
    <3>1. n + i \in 1..Len(s) /\ p + (n + i) = (p + n) + i
      BY DEF Holds
    <3> QED BY <3>1, Zenon DEF Holds
  <2>2. (p + n) + (Len(s) - n) <= Len(w)
    BY DEF Holds
  <2> QED BY <1>2, <2>1, <2>2 DEF Holds
<1> QED BY <1>1, <1>2, <1>3, <1>4

LEMMA HoldsLonger ==
    ASSUME NEW w \in Seq(Byte), NEW v \in Seq(Byte), NEW p \in Nat, NEW s, Holds(s, w, p)
    PROVE  Holds(s, w \o v, p)
<1>1. /\ w \o v \in Seq(Byte) /\ Len(w \o v) = Len(w) + Len(v)
      /\ \A i \in 1..(Len(w) + Len(v)) : (w \o v)[i] = IF i <= Len(w) THEN w[i] ELSE v[i - Len(w)]
  BY ConcatProperties
<1> QED BY <1>1 DEF Holds

LEMMA HoldsEnd ==
    ASSUME NEW w \in Seq(Byte), NEW v \in Seq(Byte)
    PROVE  Holds(v, w \o v, Len(w))
<1>1. /\ w \o v \in Seq(Byte) /\ Len(w \o v) = Len(w) + Len(v)
      /\ \A i \in 1..(Len(w) + Len(v)) : (w \o v)[i] = IF i <= Len(w) THEN w[i] ELSE v[i - Len(w)]
  BY ConcatProperties
<1> QED BY <1>1 DEF Holds

LEMMA HoldsMore ==
    ASSUME NEW w \in Seq(Byte), NEW v \in Seq(Byte), NEW p \in Nat, NEW s, Holds(s, w, p),
           p + Len(s) = Len(w)
    PROVE  Holds(s \o v, w \o v, p)
<1>1. Holds(s, w \o v, p)
  BY HoldsLonger
<1>2. Holds(v, w \o v, p + Len(s))
  BY HoldsEnd
<1>3. w \o v \in Seq(Byte)
  BY ConcatProperties
<1> QED BY <1>1, <1>2, <1>3, HoldsBoth, Zenon

LEMMA HoldsEqual ==
    ASSUME NEW w \in Seq(Byte), NEW p \in Nat, NEW s, NEW t,
           Holds(s, w, p), Holds(t, w, p), Len(s) = Len(t)
    PROVE  s = t
BY SeqEqual DEF Holds

-----------------------------------------------------------------------------
Message == UNION {Offers[i] : i \in 1..Len(Offers)}
Reading(m) == Interpretation(FrameOf(m))
Size(m) == Len(Encode(FrameOf(m)))

LEMMA MessageFacts ==
    ASSUME NEW m \in Message
    PROVE  /\ IsFrame(FrameOf(m))
           /\ Encode(FrameOf(m)) \in Seq(Byte) /\ Size(m) \in Nat /\ Size(m) >= 16
           /\ Decode(Encode(FrameOf(m))).ok /\ Decode(Encode(FrameOf(m))).value = FrameOf(m)
           /\ ReadHeader(SubSeq(Encode(FrameOf(m)), 1, 16)).ok
           /\ ReadHeader(SubSeq(Encode(FrameOf(m)), 1, 16)).value.length = Size(m) - 16
<1>1. IsFrame(FrameOf(m))
  BY OffersAssumption DEF Message
<1>2. Len(Encode(FrameOf(m))) \in Nat
  BY <1>1, EncodeFacts
<1> QED BY <1>1, <1>2, EncodeFacts DEF Size

\* The history: what was sent, and of it what was read.
Read ==
    /\ sent \in Seq(Message) /\ got \in Seq({Reading(m) : m \in Message})
    /\ Len(got) <= Len(sent)
    /\ \A i \in 1..Len(got) : got[i] = Reading(sent[i])
    /\ state \in {"open", "cut", "closed"}

\* whole is all that was written, and the first k frames are its first at[k] bytes.
Written(whole, at) ==
    /\ whole \in Seq(Byte)
    /\ at \in [0..Len(sent) -> 0..Len(whole)] /\ at[Len(sent)] = Len(whole)
    /\ \A k \in 1..Len(sent) :
          /\ at[k] = at[k - 1] + Size(sent[k])
          /\ Holds(Encode(FrameOf(sent[k])), whole, at[k - 1])

\* The bytes of the frames that were not read are in the header, the buffer and on
\* the way, unless the stream broke.
Carried(whole, at) ==
    LET here == at[Len(got)]
    IN  /\ Holds(header, whole, here)
        /\ Holds(buffer, whole, here + Len(header))
        /\ Holds(flight, whole, here + Len(header) + Len(buffer))
        /\ header = <<>> \/ Len(header) = 16
        /\ state = "open" => here + Len(header) + Len(buffer) + Len(flight) = Len(whole)

IInv == Read /\ \E whole, at : Written(whole, at) /\ Carried(whole, at)

LEMMA WrittenFacts ==
    ASSUME Read, NEW whole, NEW at, Written(whole, at), Carried(whole, at)
    PROVE  /\ Len(sent) \in Nat /\ Len(got) \in 0..Len(sent) /\ at[Len(got)] \in 0..Len(whole)
           /\ whole \in Seq(Byte) /\ Len(whole) \in Nat
           /\ header \in Seq(Byte) /\ buffer \in Seq(Byte) /\ flight \in Seq(Byte)
           /\ Len(header) \in Nat /\ Len(buffer) \in Nat /\ Len(flight) \in Nat
BY DEF Read, Written, Carried, Holds

\* While a frame is not read, its bytes are the next ones.
LEMMA NextFrame ==
    ASSUME Read, NEW whole, NEW at, Written(whole, at), Carried(whole, at), Len(got) < Len(sent)
    PROVE  LET k == Len(got) + 1
           IN  /\ k \in 1..Len(sent) /\ sent[k] \in Message
               /\ at[k] = at[Len(got)] + Size(sent[k]) /\ at[k] \in 0..Len(whole)
               /\ Holds(Encode(FrameOf(sent[k])), whole, at[Len(got)])
<1> DEFINE k == Len(got) + 1
<1>1. k \in 1..Len(sent) /\ k \in 0..Len(sent) /\ k - 1 = Len(got)
  BY WrittenFacts
<1>2. sent[k] \in Message
  BY <1>1 DEF Read
<1>3. at[k] \in 0..Len(whole)
  BY <1>1 DEF Written
<1> QED BY <1>1, <1>2, <1>3, Zenon DEF Written

\* ... and the header, once it was read, tells how long it is.
LEMMA HeaderIsRead ==
    ASSUME Read, NEW whole, NEW at, Written(whole, at), Carried(whole, at), header # <<>>
    PROVE  LET m == sent[Len(got) + 1]
           IN  /\ Len(got) < Len(sent) /\ Len(header) = 16
               /\ header = SubSeq(Encode(FrameOf(m)), 1, 16)
               /\ Awaited = Size(m) - 16
<1> DEFINE m == sent[Len(got) + 1]
           here == at[Len(got)]
           e == Encode(FrameOf(m))
<1>1. Len(header) = 16 /\ here + 16 <= Len(whole)
  BY WrittenFacts DEF Carried, Holds
<1>2. Len(got) < Len(sent)
  <2>1. CASE Len(got) = Len(sent)
    BY <1>1, <2>1, WrittenFacts DEF Written
  <2> QED BY <2>1, WrittenFacts
<1>3. m \in Message /\ Holds(e, whole, here)
  BY <1>2, NextFrame
<1>4. Size(m) >= 16 /\ Size(m) = Len(e) /\ Len(e) \in Nat
  BY <1>3, MessageFacts DEF Size
<1>5. Holds(SubSeq(e, 1, 16), whole, here) /\ Len(SubSeq(e, 1, 16)) = 16
  <2>1. 16 \in 0..Len(e) /\ whole \in Seq(Byte) /\ here \in Nat
    BY <1>4, WrittenFacts
  <2> HIDE DEF e, here
  <2> QED BY <1>3, <2>1, HoldsParts
<1>6. header = SubSeq(e, 1, 16)
  <2>1. Holds(header, whole, here) /\ whole \in Seq(Byte) /\ here \in Nat
    BY WrittenFacts DEF Carried
  <2> HIDE DEF e, here
  <2> QED BY <1>1, <1>5, <2>1, HoldsEqual
<1>7. Awaited = Size(m) - 16
  BY <1>3, <1>6, MessageFacts DEF Awaited
<1> QED BY <1>1, <1>2, <1>6, <1>7

LEMMA AllReadHolds == ASSUME IInv PROVE AllRead
<1> SUFFICES ASSUME state = "open", flight = <<>>, Len(buffer) < Awaited
             PROVE  buffer = <<>> /\ header = <<>> /\ Len(got) = Len(sent)
  BY DEF AllRead
<1>1. PICK whole, at : Written(whole, at) /\ Carried(whole, at)
  BY DEF IInv
<1>2. Read
  BY DEF IInv
<1> DEFINE here == at[Len(got)]
<1>3. here + Len(header) + Len(buffer) = Len(whole)
  BY <1>1, <1>2, WrittenFacts DEF Carried
<1>4. CASE Len(got) < Len(sent)
  <2> DEFINE m == sent[Len(got) + 1]
  <2>1. m \in Message /\ here + Size(m) <= Len(whole)
    BY <1>1, <1>2, <1>4, NextFrame, WrittenFacts
  <2>2. Size(m) \in Nat /\ Size(m) >= 16
    BY <2>1, MessageFacts
  <2>3. CASE header = <<>>
    <3>1. Awaited = 16 /\ Len(header) = 0
      BY <2>3 DEF Awaited, HEADER_SIZE
    <3> QED BY <1>1, <1>2, <1>3, <2>1, <2>2, <3>1, WrittenFacts
  <2>4. CASE header # <<>>
    <3>1. Awaited = Size(m) - 16 /\ Len(header) = 16
      BY <1>1, <1>2, <2>4, HeaderIsRead
    <3> QED BY <1>1, <1>2, <1>3, <2>1, <2>2, <3>1, WrittenFacts
  <2> QED BY <2>3, <2>4
<1>5. CASE Len(got) = Len(sent)
  <2>1. here = Len(whole)
    BY <1>1, <1>5 DEF Written
  <2>2. Len(header) = 0 /\ Len(buffer) = 0
    BY <1>1, <1>2, <1>3, <2>1, WrittenFacts
  <2> QED BY <1>1, <1>2, <1>5, <2>2, WrittenFacts, EmptySeq
<1> QED BY <1>1, <1>2, <1>4, <1>5, WrittenFacts

-----------------------------------------------------------------------------
LEMMA InitInv == ASSUME Init PROVE IInv
<1> DEFINE at == [k \in 0..0 |-> 0]
<1>1. Read
  BY DEF Init, Read
<1>2. Len(sent) = 0 /\ Len(got) = 0 /\ <<>> \in Seq(Byte) /\ Len(<<>>) = 0
  BY DEF Init
<1>3. Written(<<>>, at)
  BY <1>2 DEF Written
<1>4. Carried(<<>>, at)
  <2>1. Holds(<<>>, <<>>, 0)
    <3>1. <<>> \in Seq(Byte) /\ 0 \in 0..Len(<<>>)
      OBVIOUS
    <3> QED BY <3>1, HoldsEmpty, Zenon
  <2>2. at[Len(got)] = 0
    BY <1>2
  <2> HIDE DEF at
  <2> QED BY <1>2, <2>1, <2>2 DEF Carried, Init
<1> QED BY <1>1, <1>3, <1>4 DEF IInv

LEMMA SendKeeps == ASSUME IInv, Send PROVE IInv'
<1>1. PICK whole, at : Written(whole, at) /\ Carried(whole, at)
  BY DEF IInv
<1>2. Read
  BY DEF IInv
<1>3. PICK m \in Offers[Len(sent) + 1] :
        sent' = Append(sent, m) /\ flight' = flight \o Encode(FrameOf(m))
  BY DEF Send
<1>4. state = "open" /\ UNCHANGED <<buffer, header, got, state>>
  BY DEF Send
<1>5. m \in Message
  BY <1>1, <1>2, OffersAssumption, WrittenFacts DEF Send, Message
<1>n. PICK n \in Nat : n = Len(sent)
  BY <1>1, <1>2, WrittenFacts
<1> DEFINE e == Encode(FrameOf(m))
           whole2 == whole \o e
           at2 == [k \in 0..(n + 1) |-> IF k <= n THEN at[k] ELSE Len(whole) + Size(m)]
<1>6. e \in Seq(Byte) /\ Len(e) = Size(m) /\ Size(m) \in Nat
  BY <1>5, MessageFacts DEF Size
<1>7. whole2 \in Seq(Byte) /\ Len(whole2) = Len(whole) + Size(m)
  <2>1. whole \in Seq(Byte)
    BY <1>1, <1>2, WrittenFacts
  <2> HIDE DEF e
  <2> QED BY <1>6, <2>1, ConcatProperties
<1>8. n \in Nat /\ Len(sent') = n + 1 /\ sent'[n + 1] = m /\ \A k \in 1..n : sent'[k] = sent[k]
  BY <1>n, <1>2, <1>3, <1>5, AppendProperties DEF Read
<1>9. Read'
  <2>1. sent' \in Seq(Message)
    BY <1>2, <1>3, <1>5 DEF Read
  <2>2. \A i \in 1..Len(got) : i \in 1..n
    BY <1>n, <1>2, <1>8 DEF Read
  <2>3. Len(got) <= Len(sent')
    BY <1>n, <1>2, <1>8 DEF Read
  <2> QED BY <1>2, <1>4, <1>8, <2>1, <2>2, <2>3 DEF Read
<1> HIDE DEF e, whole2
<1>10. Written(whole2, at2)'
  <2>1. at2 \in [0..Len(sent') -> 0..Len(whole2)] /\ at2[Len(sent')] = Len(whole2)
    <3>1. \A k \in 0..n : at[k] \in 0..Len(whole)
      BY <1>n, <1>1 DEF Written
    <3> QED BY <1>n, <1>1, <1>2, <1>6, <1>7, <1>8, <3>1, WrittenFacts
  <2>2. ASSUME NEW k \in 1..Len(sent')
        PROVE  /\ at2[k] = at2[k - 1] + Size(sent'[k])
               /\ Holds(Encode(FrameOf(sent'[k])), whole2, at2[k - 1])
    <3>1. CASE k = n + 1
      <4>1. at2[k - 1] = at[n] /\ at[n] = Len(whole) /\ at2[k] = Len(whole) + Size(m)
        BY <1>n, <1>1, <1>8, <3>1 DEF Written
      <4>2. Holds(e, whole2, Len(whole))
        <5>1. whole \in Seq(Byte)
          BY <1>1, <1>2, WrittenFacts
        <5> QED BY <1>6, <5>1, HoldsEnd, Zenon DEF whole2
      <4> QED BY <1>8, <3>1, <4>1, <4>2 DEF e
    <3>2. CASE k \in 1..n
      <4>1. at2[k - 1] = at[k - 1] /\ at2[k] = at[k] /\ at[k - 1] \in Nat /\ sent'[k] = sent[k]
        BY <1>n, <1>1, <1>8, <3>2 DEF Written
      <4>2. at[k] = at[k - 1] + Size(sent[k]) /\ Holds(Encode(FrameOf(sent[k])), whole, at[k - 1])
        BY <1>n, <1>1, <3>2 DEF Written
      <4>3. Holds(Encode(FrameOf(sent[k])), whole2, at[k - 1])
        BY <1>1, <1>2, <1>6, <4>1, <4>2, WrittenFacts, HoldsLonger DEF whole2
      <4> QED BY <4>1, <4>2, <4>3
    <3> QED BY <1>8, <3>1, <3>2
  <2> QED BY <1>7, <2>1, <2>2 DEF Written
<1>11. Carried(whole2, at2)'
  <2> DEFINE here == at[Len(got)]
  <2>1. at2[Len(got')] = here /\ here \in Nat
    BY <1>n, <1>1, <1>2, <1>4, <1>8, WrittenFacts
  <2>2. /\ Holds(header, whole, here) /\ Holds(buffer, whole, here + Len(header))
        /\ Holds(flight, whole, here + Len(header) + Len(buffer))
        /\ here + Len(header) + Len(buffer) + Len(flight) = Len(whole)
        /\ header = <<>> \/ Len(header) = 16
    BY <1>1, <1>4 DEF Carried
  <2>3. /\ here + Len(header) \in Nat /\ here + Len(header) + Len(buffer) \in Nat
        /\ Len(flight) \in Nat /\ Len(whole) \in Nat /\ whole \in Seq(Byte)
    <3>1. /\ Len(header) \in Nat /\ Len(buffer) \in Nat /\ Len(flight) \in Nat
          /\ Len(whole) \in Nat /\ whole \in Seq(Byte)
      BY <1>1, <1>2, WrittenFacts
    <3> HIDE DEF here, at2
    <3> QED BY <2>1, <3>1
  <2> HIDE DEF here, at2
  <2>4. Holds(header, whole2, here) /\ Holds(buffer, whole2, here + Len(header))
    BY <1>6, <2>1, <2>2, <2>3, HoldsLonger, Zenon DEF whole2
  <2>5. /\ Holds(flight \o e, whole2, here + Len(header) + Len(buffer))
        /\ Len(flight \o e) = Len(flight) + Len(e)
    <3>1. here + Len(header) + Len(buffer) + Len(flight) = Len(whole)
      BY <2>2
    <3>2. Holds(flight \o e, whole2, here + Len(header) + Len(buffer))
      BY <1>6, <2>2, <2>3, <3>1, HoldsMore, Zenon DEF whole2
    <3>3. flight \in Seq(Byte)
      BY <2>2 DEF Holds
    <3>4. Len(flight \o e) = Len(flight) + Len(e)
      BY <1>6, <3>3, ConcatProperties
    <3> QED BY <3>2, <3>4
  <2>6. flight' = flight \o e
    BY <1>3 DEF e
  <2>7. here + Len(header) + Len(buffer) + Len(flight \o e) = Len(whole2)
    <3>2. Len(e) \in Nat /\ Len(whole2) = Len(whole) + Len(e)
      BY <1>6, <1>7
    <3>3. Len(flight \o e) \in Nat /\ Len(whole2) \in Nat
      BY <2>3, <2>5, <3>2
    <3>4. here + Len(header) + Len(buffer) + Len(flight) = Len(whole)
      BY <2>2
    <3>5. Len(flight \o e) = Len(flight) + Len(e)
      BY <2>5
    <3>6. /\ here \in Nat /\ Len(header) \in Nat /\ Len(buffer) \in Nat
          /\ Len(flight) \in Nat /\ Len(whole) \in Nat
      BY <1>1, <1>2, <2>1, WrittenFacts
    <3> QED BY <3>2, <3>4, <3>5, <3>6
  <2> QED BY <1>4, <2>1, <2>2, <2>4, <2>5, <2>6, <2>7 DEF Carried
<1> QED BY <1>9, <1>10, <1>11 DEF IInv

LEMMA ArriveKeeps == ASSUME IInv, Arrive PROVE IInv'
<1>1. PICK whole, at : Written(whole, at) /\ Carried(whole, at)
  BY DEF IInv
<1>2. Read
  BY DEF IInv
<1> DEFINE size == IF Len(flight) < Piece THEN Len(flight) ELSE Piece
<1>3. size \in 0..Len(flight)
  BY <1>1, <1>2, WrittenFacts, PieceAssumption
<1>n. PICK n \in 0..Len(flight) : n = size
  BY <1>3
<1>4. /\ buffer' = buffer \o SubSeq(flight, 1, n) /\ flight' = SubSeq(flight, n + 1, Len(flight))
      /\ UNCHANGED <<sent, header, got, state>>
  BY <1>n DEF Arrive
<1>5. Read' /\ Written(whole, at)'
  BY <1>1, <1>2, <1>4 DEF Read, Written
<1> DEFINE here == at[Len(got)]
<1>6. PICK p \in Nat : p = here + Len(header)
  BY <1>1, <1>2, WrittenFacts
<1>7. Holds(buffer, whole, p) /\ Holds(flight, whole, p + Len(buffer)) /\ whole \in Seq(Byte)
  BY <1>1, <1>2, <1>6, WrittenFacts DEF Carried
<1>8. p + Len(buffer) \in Nat /\ Len(buffer) \in Nat /\ Len(flight) \in Nat
  BY <1>1, <1>2, <1>6, WrittenFacts
<1>9. /\ Holds(SubSeq(flight, 1, n), whole, p + Len(buffer)) /\ Len(SubSeq(flight, 1, n)) = n
      /\ Holds(SubSeq(flight, n + 1, Len(flight)), whole, p + Len(buffer) + n)
      /\ Len(SubSeq(flight, n + 1, Len(flight))) = Len(flight) - n
  BY <1>7, <1>8, HoldsParts
<1>10. /\ Holds(buffer \o SubSeq(flight, 1, n), whole, p)
       /\ Len(buffer \o SubSeq(flight, 1, n)) = Len(buffer) + n
  BY <1>7, <1>9, HoldsBoth
<1>11. Holds(buffer', whole, p) /\ Len(buffer') = Len(buffer) + n
  BY <1>4, <1>10
<1>12. Holds(flight', whole, p + Len(buffer')) /\ Len(flight') = Len(flight) - n
  <2>1. p + Len(buffer) + n = p + Len(buffer')
    BY <1>8, <1>11
  <2> QED BY <1>4, <1>9, <2>1
<1>13. state = "open" => p + Len(buffer') + Len(flight') = Len(whole)
  <2>1. state = "open" => here + Len(header) + Len(buffer) + Len(flight) = Len(whole)
    BY <1>1 DEF Carried
  <2>2. state = "open" => p + Len(buffer) + Len(flight) = Len(whole)
    BY <1>6, <2>1
  <2> QED BY <1>8, <1>11, <1>12, <2>2
<1>14. Carried(whole, at)'
  <2>1. at[Len(got')] = here /\ header' = header /\ state' = state
    BY <1>4
  <2>2. Holds(header, whole, here) /\ (header = <<>> \/ Len(header) = 16)
    BY <1>1 DEF Carried
  <2>3. p = here + Len(header')
    BY <1>6, <2>1
  <2> HIDE DEF here
  <2>4. Holds(buffer', whole, here + Len(header')) /\ Holds(flight', whole, here + Len(header') + Len(buffer'))
    BY <1>11, <1>12, <2>3
  <2>5. state' = "open" => here + Len(header') + Len(buffer') + Len(flight') = Len(whole)
    BY <1>13, <2>1, <2>3
  <2> QED BY <2>1, <2>2, <2>4, <2>5 DEF Carried
<1> QED BY <1>5, <1>14 DEF IInv

\* The invariant when nothing is sent and something is lost.
LEMMA LossKeeps ==
    ASSUME IInv, UNCHANGED <<sent, got>>, flight' = <<>>, state' \in {"cut", "closed"},
           (buffer' = buffer /\ header' = header) \/ (buffer' = <<>> /\ header' = <<>>)
    PROVE  IInv'
<1>1. PICK whole, at : Written(whole, at) /\ Carried(whole, at)
  BY DEF IInv
<1>2. Read
  BY DEF IInv
<1>3. Read' /\ Written(whole, at)'
  BY <1>1, <1>2 DEF Read, Written
<1> DEFINE here == at[Len(got)]
<1>4. /\ here \in 0..Len(whole) /\ whole \in Seq(Byte) /\ Len(whole) \in Nat
      /\ Len(header) \in Nat /\ Len(buffer) \in Nat /\ Len(<<>>) = 0
  BY <1>1, <1>2, WrittenFacts
<1>5. at[Len(got')] = here
  OBVIOUS
<1>6. /\ Holds(header, whole, here) /\ Holds(buffer, whole, here + Len(header))
      /\ header = <<>> \/ Len(header) = 16
      /\ here + Len(header) + Len(buffer) \in 0..Len(whole)
  <2>1. /\ Holds(header, whole, here) /\ Holds(buffer, whole, here + Len(header))
        /\ header = <<>> \/ Len(header) = 16
    BY <1>1 DEF Carried
  <2>2. here + Len(header) + Len(buffer) <= Len(whole)
    BY <2>1 DEF Holds
  <2> QED BY <1>4, <2>1, <2>2
<1> HIDE DEF here
<1>7. ASSUME NEW q \in 0..Len(whole) PROVE Holds(<<>>, whole, q)
  BY <1>4, HoldsEmpty
<1>8. CASE buffer' = buffer /\ header' = header
  <2>1. Holds(<<>>, whole, here + Len(header) + Len(buffer))
    BY <1>6, <1>7
  <2> QED BY <1>3, <1>5, <1>6, <1>8, <2>1 DEF Carried, IInv
<1>9. CASE buffer' = <<>> /\ header' = <<>>
  <2>1. here + 0 = here /\ here + 0 + 0 = here
    BY <1>4
  <2>2. Holds(<<>>, whole, here)
    BY <1>4, <1>7
  <2> QED BY <1>3, <1>4, <1>5, <1>9, <2>1, <2>2 DEF Carried, IInv
<1> QED BY <1>8, <1>9

\* The first bytes that arrive after a frame are the header of the next one ...
LEMMA HeaderArrived ==
    ASSUME Read, NEW whole, NEW at, Written(whole, at), Carried(whole, at),
           header = <<>>, Len(buffer) >= 16
    PROVE  Len(got) < Len(sent) /\ ReadHeader(SubSeq(buffer, 1, 16)).ok
<1> DEFINE m == sent[Len(got) + 1]
           here == at[Len(got)]
           e == Encode(FrameOf(m))
<1>1. Holds(buffer, whole, here) /\ here + Len(buffer) <= Len(whole)
  <2>1. Len(header) = 0 /\ here \in Nat
    BY WrittenFacts
  <2>2. here + Len(header) = here
    BY <2>1
  <2>3. Holds(buffer, whole, here)
    BY <2>2 DEF Carried
  <2> QED BY <2>3 DEF Holds
<1>2. Len(got) < Len(sent)
  <2>1. CASE Len(got) = Len(sent)
    BY <1>1, <2>1, WrittenFacts DEF Written
  <2> QED BY <2>1, WrittenFacts
<1>3. m \in Message /\ Holds(e, whole, here)
  BY <1>2, NextFrame
<1>4. 16 \in 0..Len(e) /\ 16 \in 0..Len(buffer) /\ whole \in Seq(Byte) /\ here \in Nat
  <2>1. Size(m) >= 16 /\ Size(m) = Len(e) /\ Len(e) \in Nat
    BY <1>3, MessageFacts DEF Size
  <2> QED BY <2>1, WrittenFacts
<1>5. ReadHeader(SubSeq(e, 1, 16)).ok
  BY <1>3, MessageFacts
<1> HIDE DEF e, here
<1>6. /\ Holds(SubSeq(e, 1, 16), whole, here) /\ Len(SubSeq(e, 1, 16)) = 16
      /\ Holds(SubSeq(buffer, 1, 16), whole, here) /\ Len(SubSeq(buffer, 1, 16)) = 16
  BY <1>1, <1>3, <1>4, HoldsParts
<1>7. SubSeq(buffer, 1, 16) = SubSeq(e, 1, 16)
  BY <1>4, <1>6, HoldsEqual
<1> QED BY <1>2, <1>5, <1>7

\* ... and with the bytes it announces they are that frame.
LEMMA FrameArrived ==
    ASSUME Read, NEW whole, NEW at, Written(whole, at), Carried(whole, at),
           header # <<>>, Len(buffer) >= Awaited
    PROVE  LET m == sent[Len(got) + 1]
               f == Decode(header \o SubSeq(buffer, 1, Awaited))
           IN  /\ Len(got) < Len(sent) /\ m \in Message /\ Awaited \in 0..Len(buffer)
               /\ Len(header) + Awaited = Size(m)
               /\ f.ok /\ f.value = FrameOf(m)
<1> DEFINE m == sent[Len(got) + 1]
           here == at[Len(got)]
           e == Encode(FrameOf(m))
<1>1. Len(got) < Len(sent) /\ Len(header) = 16 /\ Awaited = Size(m) - 16
  BY HeaderIsRead
<1>2. m \in Message /\ Holds(e, whole, here)
  BY <1>1, NextFrame
<1>3. Size(m) >= 16 /\ Size(m) = Len(e) /\ Size(m) \in Nat
  BY <1>2, MessageFacts DEF Size
<1>4. Awaited \in 0..Len(buffer)
  BY <1>1, <1>3, WrittenFacts
<1>n. PICK n \in 0..Len(buffer) : n = Awaited
  BY <1>4
<1>5. /\ Holds(header, whole, here) /\ Holds(buffer, whole, here + 16)
      /\ whole \in Seq(Byte) /\ here \in Nat /\ here + 16 \in Nat
  <2>1. Holds(header, whole, here) /\ Holds(buffer, whole, here + Len(header))
    BY DEF Carried
  <2>2. whole \in Seq(Byte) /\ here \in Nat
    BY WrittenFacts
  <2> HIDE DEF here
  <2> QED BY <1>1, <2>1, <2>2
<1>6. Decode(e).ok /\ Decode(e).value = FrameOf(m)
  BY <1>2, MessageFacts
<1> HIDE DEF e, here
<1>7. Holds(SubSeq(buffer, 1, n), whole, here + 16) /\ Len(SubSeq(buffer, 1, n)) = n
  BY <1>5, HoldsParts
<1>8. /\ Holds(header \o SubSeq(buffer, 1, n), whole, here)
      /\ Len(header \o SubSeq(buffer, 1, n)) = Len(header) + n
  <2>1. Holds(SubSeq(buffer, 1, n), whole, here + Len(header))
    BY <1>1, <1>7
  <2> QED BY <1>5, <1>7, <2>1, HoldsBoth
<1>9. Len(header) + n = Size(m)
  BY <1>1, <1>3, <1>n
<1>10. header \o SubSeq(buffer, 1, n) = e
  BY <1>2, <1>3, <1>5, <1>8, <1>9, HoldsEqual
<1> QED BY <1>1, <1>2, <1>4, <1>n, <1>6, <1>9, <1>10

LEMMA ReadFrameHeaderKeeps == ASSUME IInv, ReadFrameHeader PROVE IInv'
<1>1. PICK whole, at : Written(whole, at) /\ Carried(whole, at)
  BY DEF IInv
<1>2. Read
  BY DEF IInv
<1>3. header = <<>> /\ Len(buffer) >= 16
  BY DEF ReadFrameHeader, HEADER_SIZE
<1>4. /\ header' = SubSeq(buffer, 1, 16) /\ buffer' = SubSeq(buffer, 16 + 1, Len(buffer))
      /\ UNCHANGED <<sent, flight, got, state>>
  <2>1. ReadHeader(SubSeq(buffer, 1, 16)).ok
    BY <1>1, <1>2, <1>3, HeaderArrived
  <2> QED BY <2>1 DEF ReadFrameHeader, HEADER_SIZE
<1>5. Read' /\ Written(whole, at)'
  BY <1>1, <1>2, <1>4 DEF Read, Written
<1> DEFINE here == at[Len(got)]
<1>6. PICK p \in Nat : p = here
  BY <1>1, <1>2, WrittenFacts
<1>7. /\ Holds(buffer, whole, p) /\ Holds(flight, whole, p + Len(buffer)) /\ whole \in Seq(Byte)
      /\ 16 \in 0..Len(buffer) /\ Len(buffer) \in Nat /\ Len(flight) \in Nat
      /\ state = "open" => p + Len(buffer) + Len(flight) = Len(whole)
  <2>1. Len(header) = 0 /\ p + 0 = p
    BY <1>3
  <2> QED BY <1>1, <1>2, <1>3, <1>6, <2>1, WrittenFacts DEF Carried
<1>8. /\ Holds(SubSeq(buffer, 1, 16), whole, p) /\ Len(SubSeq(buffer, 1, 16)) = 16
      /\ Holds(SubSeq(buffer, 16 + 1, Len(buffer)), whole, p + 16)
      /\ Len(SubSeq(buffer, 16 + 1, Len(buffer))) = Len(buffer) - 16
  <2>1. \A n \in 0..Len(buffer) :
          /\ Holds(SubSeq(buffer, 1, n), whole, p) /\ Len(SubSeq(buffer, 1, n)) = n
          /\ Holds(SubSeq(buffer, n + 1, Len(buffer)), whole, p + n)
          /\ Len(SubSeq(buffer, n + 1, Len(buffer))) = Len(buffer) - n
    BY <1>7, HoldsParts
  <2> QED BY <1>7, <2>1, Zenon
<1>9. /\ Holds(header', whole, p) /\ Len(header') = 16
      /\ Holds(buffer', whole, p + 16) /\ Len(buffer') = Len(buffer) - 16
  BY <1>4, <1>8
<1>10. p + 16 + Len(buffer') = p + Len(buffer)
  BY <1>7, <1>9
<1>11. Carried(whole, at)'
  <2>1. at[Len(got')] = p /\ flight' = flight /\ state' = state
    BY <1>4, <1>6
  <2> HIDE DEF here
  <2>2. Holds(flight', whole, p + Len(header') + Len(buffer'))
    BY <1>7, <1>9, <1>10, <2>1
  <2>3. state' = "open" => p + Len(header') + Len(buffer') + Len(flight') = Len(whole)
    BY <1>7, <1>9, <1>10, <2>1
  <2> QED BY <1>9, <2>1, <2>2, <2>3 DEF Carried
<1> QED BY <1>5, <1>11 DEF IInv

LEMMA ReadPayloadKeeps == ASSUME IInv, ReadPayload PROVE IInv'
<1>1. PICK whole, at : Written(whole, at) /\ Carried(whole, at)
  BY DEF IInv
<1>2. Read
  BY DEF IInv
<1> DEFINE k == Len(got) + 1
           here == at[Len(got)]
<1>3. header # <<>> /\ Len(buffer) >= Awaited
  BY DEF ReadPayload
<1>4. /\ Len(got) < Len(sent) /\ sent[k] \in Message /\ Awaited \in 0..Len(buffer)
      /\ Len(header) + Awaited = Size(sent[k])
      /\ Decode(header \o SubSeq(buffer, 1, Awaited)).ok
      /\ Decode(header \o SubSeq(buffer, 1, Awaited)).value = FrameOf(sent[k])
  BY <1>1, <1>2, <1>3, FrameArrived
<1>n. PICK n \in 0..Len(buffer) : n = Awaited
  BY <1>4
<1>5. /\ got' = Append(got, Reading(sent[k])) /\ header' = <<>>
      /\ buffer' = SubSeq(buffer, n + 1, Len(buffer)) /\ UNCHANGED <<sent, flight, state>>
  BY <1>4, <1>n DEF ReadPayload, Reading
<1>6. k \in 1..Len(sent) /\ Len(got') = k /\ got'[k] = Reading(sent[k])
      /\ (\A i \in 1..Len(got) : got'[i] = got[i]) /\ k \in Nat /\ k - 1 = Len(got)
  <2>1. /\ Len(Append(got, Reading(sent[k]))) = k
        /\ Append(got, Reading(sent[k]))[k] = Reading(sent[k])
        /\ \A i \in 1..Len(got) : Append(got, Reading(sent[k]))[i] = got[i]
    BY <1>2, <1>4, AppendProperties DEF Read
  <2>2. k \in 1..Len(sent) /\ k \in Nat /\ k - 1 = Len(got)
    BY <1>1, <1>2, <1>4, WrittenFacts
  <2> QED BY <1>5, <2>1, <2>2
<1>7. Read'
  <2>1. got' \in Seq({Reading(x) : x \in Message})
    BY <1>2, <1>4, <1>5 DEF Read
  <2>2. ASSUME NEW i \in 1..Len(got') PROVE got'[i] = Reading(sent[i])
    <3>1. CASE i = k
      BY <1>6, <3>1
    <3>2. CASE i \in 1..Len(got)
      BY <1>2, <1>6, <3>2 DEF Read
    <3> QED BY <1>6, <3>1, <3>2
  <2> QED BY <1>2, <1>5, <1>6, <2>1, <2>2 DEF Read
<1>8. Written(whole, at)'
  BY <1>1, <1>5 DEF Written
<1>9. PICK p \in Nat : p = here
  BY <1>1, <1>2, WrittenFacts
<1>10. PICK l \in Nat : l = Len(header)
  BY <1>1, <1>2, WrittenFacts
<1>11. at[k] = p + (l + n) /\ at[k] \in Nat
  <2>1. at[k] = here + Size(sent[k]) /\ at[k] \in Nat
    BY <1>1, <1>2, <1>4, NextFrame, WrittenFacts
  <2> QED BY <1>4, <1>n, <1>9, <1>10, <2>1
<1>12. /\ Holds(buffer, whole, p + l) /\ Holds(flight, whole, p + l + Len(buffer))
       /\ whole \in Seq(Byte) /\ Len(buffer) \in Nat /\ Len(flight) \in Nat /\ Len(whole) \in Nat
       /\ state = "open" => p + l + Len(buffer) + Len(flight) = Len(whole)
  <2>1. /\ Holds(buffer, whole, p + l) /\ Holds(flight, whole, p + l + Len(buffer))
        /\ state = "open" => p + l + Len(buffer) + Len(flight) = Len(whole)
    BY <1>1, <1>9, <1>10 DEF Carried
  <2> QED BY <1>1, <1>2, <2>1, WrittenFacts
<1>13. Holds(buffer', whole, p + l + n) /\ Len(buffer') = Len(buffer) - n
  <2>1. p + l \in Nat
    OBVIOUS
  <2>2. /\ Holds(SubSeq(buffer, n + 1, Len(buffer)), whole, (p + l) + n)
        /\ Len(SubSeq(buffer, n + 1, Len(buffer))) = Len(buffer) - n
    BY <1>12, <2>1, HoldsParts
  <2> QED BY <1>5, <2>2
<1>14. Carried(whole, at)'
  <2>1. at[Len(got')] = p + l + n /\ p + l + n \in Nat
    BY <1>6, <1>11
  <2>2. header' = <<>> /\ Len(header') = 0 /\ flight' = flight /\ state' = state
    BY <1>5
  <2>3. p + l + n + Len(header') = p + l + n /\ p + l + n + Len(buffer') = p + l + Len(buffer)
    BY <1>12, <1>13, <2>2
  <2>4. Holds(header', whole, p + l + n)
    <3>1. p + l + n \in 0..Len(whole)
      BY <1>12, <1>13, <2>1 DEF Holds
    <3> QED BY <1>12, <2>2, <3>1, HoldsEmpty
  <2>5. Holds(flight', whole, p + l + n + Len(header') + Len(buffer'))
    BY <1>12, <2>2, <2>3
  <2>6. state' = "open" => p + l + n + Len(header') + Len(buffer') + Len(flight') = Len(whole)
    BY <1>12, <2>2, <2>3
  <2> HIDE DEF here, k
  <2> QED BY <1>13, <2>1, <2>2, <2>3, <2>4, <2>5, <2>6 DEF Carried
<1> QED BY <1>7, <1>8, <1>14 DEF IInv

LEMMA StepKeeps == ASSUME IInv, [Next]_vars PROVE IInv'
<1>1. CASE Send
  BY <1>1, SendKeeps
<1>2. CASE Arrive
  BY <1>2, ArriveKeeps
<1>3. CASE Cut
  <2>1. /\ UNCHANGED <<sent, got>> /\ flight' = <<>> /\ state' \in {"cut", "closed"}
        /\ buffer' = buffer /\ header' = header
    BY <1>3 DEF Cut
  <2> QED BY <2>1, LossKeeps
<1>4. CASE ReadFrameHeader
  BY <1>4, ReadFrameHeaderKeeps
<1>5. CASE ReadPayload
  BY <1>5, ReadPayloadKeeps
<1>6. CASE ReadFails
  BY <1>6, LossKeeps DEF ReadFails, Close
<1>7. CASE UNCHANGED vars
  <2>1. PICK whole, at : Written(whole, at) /\ Carried(whole, at)
    BY DEF IInv
  <2>2. Written(whole, at)' /\ Carried(whole, at)'
    BY <1>7, <2>1 DEF vars, Written, Carried
  <2> QED BY <1>7, <2>2 DEF vars, IInv, Read
<1> QED BY <1>1, <1>2, <1>3, <1>4, <1>5, <1>6, <1>7 DEF Next

\* The bytes of what was written and not read are, in order, in the header, the
\* buffer and on the way, up to where the stream broke; what was read are the first
\* of the messages written.
THEOREM Invariance == Spec => []IInv
BY InitInv, StepKeeps, PTL DEF Spec

\* What was read is an interpretation of the first messages written.
ReadAsSent ==
    /\ Len(got) <= Len(sent)
    /\ \A i \in 1..Len(got) : got[i] = Interpretation(FrameOf(sent[i]))

\* The read loop (connection.py, read_frame) yields what the first of the written
\* frames say, each once and in order: no frame is skipped, doubled, begun in the
\* middle or made of two, however the network cuts the bytes.
THEOREM ReadInOrder == Spec => []ReadAsSent
<1>1. IInv => ReadAsSent
  BY DEF IInv, Read, ReadAsSent, Reading
<1> QED BY <1>1, Invariance, PTL

\* The read loop never waits for bytes that are not to come: when all that was sent
\* has arrived and too little of it is left to go on with, nothing is left of it.
THEOREM AllIsRead == Spec => []AllRead
BY AllReadHolds, Invariance, PTL

\* Every step is a step of the queue or leaves it as it is; the read loop closes
\* the connection only when the stream broke, for it meets no bad frame.
LEMMA Mapped ==
    ASSUME \A m \in Message : MayBecome(m, Reading(m)), IInv, [Next]_vars
    PROVE  [Queue!Next]_(Queue!vars)
<1>1. PICK whole, at : Written(whole, at) /\ Carried(whole, at)
  BY DEF IInv
<1>2. Read
  BY DEF IInv
<1>3. Len(sent) \in Nat /\ Len(got) \in Nat /\ Len(got) <= Len(sent)
  BY <1>1, <1>2, WrittenFacts
<1>4. CASE Send
  <2>1. PICK m \in Offers[Len(sent) + 1] : sent' = Append(sent, m)
    BY <1>4 DEF Send
  <2>2. m \in Message
    BY <1>3, <1>4, OffersAssumption DEF Send, Message
  <2>3. Len(sent') = Len(sent) + 1 /\ SubSeq(sent', 1, Len(sent)) = sent
    <3>1. sent \in Seq(Message)
      BY <1>2 DEF Read
    <3> QED BY <2>1, <2>2, <3>1
  <2> QED BY <1>4, <2>3 DEF Send, Queue!Next, Queue!Send, Queue!Extends
<1>5. CASE Arrive
  BY <1>5 DEF Arrive, Queue!vars
<1>6. CASE Cut
  BY <1>6 DEF Cut, Queue!Next, Queue!Break
<1>7. CASE ReadFrameHeader
  <2>1. ReadHeader(SubSeq(buffer, 1, HEADER_SIZE)).ok
    BY <1>1, <1>2, <1>7, HeaderArrived DEF ReadFrameHeader, HEADER_SIZE
  <2> QED BY <1>7, <2>1 DEF ReadFrameHeader, Queue!vars
<1>8. CASE ReadPayload
  <2> DEFINE m == sent[Len(got) + 1]
  <2>1. /\ Len(got) < Len(sent) /\ m \in Message
        /\ Decode(header \o SubSeq(buffer, 1, Awaited)).ok
        /\ Decode(header \o SubSeq(buffer, 1, Awaited)).value = FrameOf(m)
    BY <1>1, <1>2, <1>8, FrameArrived DEF ReadPayload
  <2>2. got' = Append(got, Reading(m)) /\ UNCHANGED <<sent, state>> /\ state # "closed"
    BY <1>8, <2>1 DEF ReadPayload, Reading
  <2>3. /\ Len(got') = Len(got) + 1 /\ SubSeq(got', 1, Len(got)) = got
        /\ got'[Len(got')] = Reading(m)
    BY <1>2, <1>3, <2>1, <2>2 DEF Read
  <2>4. MayBecome(m, Reading(m))
    BY <2>1
  <2> QED BY <2>1, <2>2, <2>3, <2>4 DEF Queue!Next, Queue!Deliver, Queue!Extends
<1>9. CASE ReadFails
  BY <1>9 DEF ReadFails, Close, Queue!Next, Queue!Close
<1>10. CASE UNCHANGED vars
  BY <1>10 DEF vars, Queue!vars
<1> QED BY <1>4, <1>5, <1>6, <1>7, <1>8, <1>9, <1>10 DEF Next

\* The stream implements the queue of frames (FrameQueue), given that a frame that
\* is read whole is interpreted as what its message may become.
THEOREM FramesKept ==
    ASSUME \A m \in Message : MayBecome(m, Interpretation(FrameOf(m)))
    PROVE  Spec => KeepsFrames
<1>1. \A m \in Message : MayBecome(m, Reading(m))
  BY DEF Reading
<1>2. Init => Queue!Init
  BY DEF Init, Queue!Init
<1>3. IInv /\ [Next]_vars => [Queue!Next]_(Queue!vars)
  BY <1>1, Mapped
<1> QED BY <1>2, <1>3, Invariance, PTL DEF Spec, KeepsFrames, Queue!Spec
=============================================================================
