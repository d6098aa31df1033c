-------------------------- MODULE FrameCodecProofs --------------------------
(***************************************************************************)
(* Lemmas about package frame: what is marshalled is read back, and what   *)
(* is accepted marshals to the octets it came from, for every frame, every *)
(* payload, and both bases.                                                *)
(***************************************************************************)
EXTENDS FrameCodec, SequenceTheorems, TLAPS

(***************************************************************************)
(* Numbers                                                                 *)
(***************************************************************************)
LEMMA Powers ==
    /\ Base \in Nat /\ Base > 32
    /\ MaxUint16 + 1 = Base * Base
    /\ MaxUint24 + 1 = Base * (MaxUint16 + 1)
    /\ MaxUint32 + 1 = Base * (MaxUint24 + 1)
    /\ HighBit = (Base \div 2) * (MaxUint24 + 1)
<1>1. CASE Base = 64
  BY <1>1, SMT DEF MaxUint16, MaxUint24, MaxUint32, HighBit
<1>2. CASE Base = 256
  BY <1>2, SMT DEF MaxUint16, MaxUint24, MaxUint32, HighBit
<1> QED
  BY <1>1, <1>2, BaseAssumption

LEMMA Sizes ==
    /\ Base \in Nat /\ Base > 32
    /\ HighBit \in Nat /\ HighBit > 0 /\ MaxUint32 = HighBit + HighBit - 1
    /\ MaxUint16 \in Nat /\ MaxUint24 \in Nat /\ MaxUint32 \in Nat
    /\ MaxUint16 < MaxUint24 /\ MaxUint24 < MaxUint32
BY BaseAssumption, SMT DEF HighBit, MaxUint16, MaxUint24, MaxUint32

\* One octet is shifted out.
LEMMA ShiftRight ==
    ASSUME NEW v \in Nat
    PROVE  v \div Base \in Nat /\ v % Base \in Octet /\ (v \div Base) * Base + (v % Base) = v
<1>1. CASE Base = 64
  BY <1>1 DEF Octet
<1>2. CASE Base = 256
  BY <1>2 DEF Octet
<1> QED
  BY <1>1, <1>2, BaseAssumption

\* One octet is shifted in.
LEMMA ShiftLeft ==
    ASSUME NEW v \in Nat, NEW octet \in Octet
    PROVE  /\ v * Base + octet \in Nat
           /\ (v * Base + octet) \div Base = v /\ (v * Base + octet) % Base = octet
<1>1. CASE Base = 64
  BY <1>1 DEF Octet
<1>2. CASE Base = 256
  BY <1>2 DEF Octet
<1> QED
  BY <1>1, <1>2, BaseAssumption

\* A factor of Base is divided out, or multiplied in.
LEMMA Scale ==
    ASSUME NEW v \in Nat, NEW octet \in Octet, NEW bound \in Nat
    PROVE  v < bound <=> v * Base + octet < Base * bound
<1>1. CASE Base = 64
  BY <1>1, SMT DEF Octet
<1>2. CASE Base = 256
  BY <1>2, SMT DEF Octet
<1> QED
  BY <1>1, <1>2, BaseAssumption

\* The highest octet of a number is less than Base.
LEMMA TopOctet ==
    ASSUME NEW v \in Nat
    PROVE  /\ v <= MaxUint16 => v \div Base \in Octet
           /\ v <= MaxUint24 => v \div Base \in 0..MaxUint16
           /\ v <= MaxUint32 => v \div Base \in 0..MaxUint24
<1>1. PICK q, r, b1, b2, b3 :
        /\ q = v \div Base /\ r = v % Base
        /\ b1 = MaxUint16 + 1 /\ b2 = MaxUint24 + 1 /\ b3 = MaxUint32 + 1
  OBVIOUS
<1>2. q \in Nat /\ r \in Octet /\ q * Base + r = v
  BY <1>1, ShiftRight
<1>3. /\ b1 = Base * Base /\ b2 = Base * b1 /\ b3 = Base * b2
      /\ Base \in Nat /\ b1 \in Nat /\ b2 \in Nat
  BY <1>1, Powers, Sizes
<1>4. /\ v < b1 => q < Base
      /\ v < b2 => q < b1
      /\ v < b3 => q < b2
  BY <1>2, <1>3, Scale
<1> HIDE <1>3
<1> QED
  BY <1>1, <1>2, <1>4, Sizes DEF Octet

LEMMA NumbersFit ==
    ASSUME NEW v \in Nat, NEW octet \in Octet
    PROVE  /\ v \in Octet => v * Base + octet \in 0..MaxUint16
           /\ v <= MaxUint16 => v * Base + octet \in 0..MaxUint24
           /\ v <= MaxUint24 => v * Base + octet \in 0..MaxUint32
<1>1. PICK n, b1, b2, b3 :
        /\ n = v * Base + octet
        /\ b1 = MaxUint16 + 1 /\ b2 = MaxUint24 + 1 /\ b3 = MaxUint32 + 1
  OBVIOUS
<1>2. n \in Nat
  BY <1>1, ShiftLeft
<1>3. /\ b1 = Base * Base /\ b2 = Base * b1 /\ b3 = Base * b2
      /\ Base \in Nat /\ b1 \in Nat /\ b2 \in Nat
  BY <1>1, Powers, Sizes
<1>4. /\ v < Base => n < b1
      /\ v < b1 => n < b2
      /\ v < b2 => n < b3
  BY <1>1, <1>3, Scale
<1> HIDE <1>3
<1> QED
  BY <1>1, <1>2, <1>4, Sizes DEF Octet

LEMMA OctetIsSmall == Octet \subseteq Nat /\ \A octet \in Octet : octet % Base = octet /\ octet < Base
<1>1. CASE Base = 64
  BY <1>1 DEF Octet
<1>2. CASE Base = 256
  BY <1>2 DEF Octet
<1> QED
  BY <1>1, <1>2, BaseAssumption

\* The octets of a number.
LEMMA Put16 ==
    ASSUME NEW v \in Nat
    PROVE  /\ PutUint16(v) = <<(v \div Base) % Base, v % Base>>
           /\ PutUint16(v) \in Seq(Octet) /\ Len(PutUint16(v)) = 2
<1>1. (v \div Base) % Base \in Octet /\ v % Base \in Octet
  BY ShiftRight
<1> QED
  BY <1>1 DEF PutUint16

LEMMA Put24 ==
    ASSUME NEW v \in Nat
    PROVE  /\ PutUint24(v) = <<((v \div Base) \div Base) % Base, (v \div Base) % Base, v % Base>>
           /\ PutUint24(v) \in Seq(Octet) /\ Len(PutUint24(v)) = 3
<1>1. /\ v \div Base \in Nat /\ ((v \div Base) \div Base) % Base \in Octet
      /\ (v \div Base) % Base \in Octet /\ v % Base \in Octet
  BY ShiftRight
<1>2. PutUint24(v) = <<((v \div Base) \div Base) % Base, (v \div Base) % Base, v % Base>>
  BY DEF PutUint24
<1> QED
  BY <1>1, <1>2

LEMMA Put32 ==
    ASSUME NEW v \in Nat
    PROVE  /\ PutUint32(v) = <<(((v \div Base) \div Base) \div Base) % Base,
                               ((v \div Base) \div Base) % Base, (v \div Base) % Base, v % Base>>
           /\ PutUint32(v) \in Seq(Octet) /\ Len(PutUint32(v)) = 4
<1>1. v \div Base \in Nat /\ v % Base \in Octet /\ (v \div Base) % Base \in Octet
  BY ShiftRight
<1>2. /\ (v \div Base) \div Base \in Nat /\ ((v \div Base) \div Base) % Base \in Octet
      /\ (((v \div Base) \div Base) \div Base) % Base \in Octet
  BY <1>1, ShiftRight
<1>3. PutUint32(v) = <<(((v \div Base) \div Base) \div Base) % Base,
                       ((v \div Base) \div Base) % Base, (v \div Base) % Base, v % Base>>
  BY DEF PutUint32
<1> QED
  BY <1>1, <1>2, <1>3

\* A number that was written is read.
LEMMA Read16 ==
    ASSUME NEW v \in 0..MaxUint16, NEW s, s[1] = PutUint16(v)[1], s[2] = PutUint16(v)[2]
    PROVE  ReadUint16(s) = v
<1>1. v \in Nat /\ v \div Base \in Octet
  BY Sizes, TopOctet
<1>2. s[1] = v \div Base /\ s[2] = v % Base
  <2>1. PutUint16(v)[1] = (v \div Base) % Base /\ PutUint16(v)[2] = v % Base
    BY <1>1, Put16
  <2> QED
    BY <1>1, <2>1, OctetIsSmall
<1> QED
  BY <1>1, <1>2, ShiftRight DEF ReadUint16

LEMMA Read24 ==
    ASSUME NEW v \in 0..MaxUint24, NEW s, s[1] = PutUint24(v)[1], s[2] = PutUint24(v)[2],
           s[3] = PutUint24(v)[3]
    PROVE  ReadUint24(s) = v
<1>1. PICK high : high = v \div Base
  OBVIOUS
<1>2. v \in Nat /\ high \in 0..MaxUint16 /\ high \in Nat
  BY <1>1, Sizes, TopOctet
<1>3. /\ s[1] = PutUint16(high)[1] /\ s[2] = PutUint16(high)[2]
      /\ s[3] = v % Base
  BY <1>1, <1>2, Put16, Put24
<1>4. ReadUint16(s) = high
  BY <1>2, <1>3, Read16
<1> QED
  BY <1>1, <1>2, <1>3, <1>4, ShiftRight DEF ReadUint24

LEMMA Read32 ==
    ASSUME NEW v \in 0..MaxUint32, NEW s, s[1] = PutUint32(v)[1], s[2] = PutUint32(v)[2],
           s[3] = PutUint32(v)[3], s[4] = PutUint32(v)[4]
    PROVE  ReadUint32(s) = v
<1>1. PICK high : high = v \div Base
  OBVIOUS
<1>2. v \in Nat /\ high \in 0..MaxUint24 /\ high \in Nat
  BY <1>1, Sizes, TopOctet
<1>3. /\ s[1] = PutUint24(high)[1] /\ s[2] = PutUint24(high)[2] /\ s[3] = PutUint24(high)[3]
      /\ s[4] = v % Base
  BY <1>1, <1>2, Put24, Put32
<1>4. ReadUint24(s) = high
  BY <1>2, <1>3, Read24
<1> QED
  BY <1>1, <1>2, <1>3, <1>4, ShiftRight DEF ReadUint32

\* Octets that were read are written.
LEMMA Write16 ==
    ASSUME NEW s, s[1] \in Octet, s[2] \in Octet
    PROVE  ReadUint16(s) \in 0..MaxUint16 /\ PutUint16(ReadUint16(s)) = <<s[1], s[2]>>
<1>1. PICK v : v = ReadUint16(s)
  OBVIOUS
<1>2. v \in 0..MaxUint16 /\ v \in Nat /\ v \div Base = s[1] /\ v % Base = s[2]
  BY <1>1, NumbersFit, ShiftLeft, OctetIsSmall DEF ReadUint16
<1> QED
  BY <1>1, <1>2, Put16, OctetIsSmall

LEMMA Write24 ==
    ASSUME NEW s, s[1] \in Octet, s[2] \in Octet, s[3] \in Octet
    PROVE  ReadUint24(s) \in 0..MaxUint24 /\ PutUint24(ReadUint24(s)) = <<s[1], s[2], s[3]>>
<1>1. PICK v, high : v = ReadUint24(s) /\ high = ReadUint16(s)
  OBVIOUS
<1>2. high \in 0..MaxUint16 /\ high \in Nat /\ PutUint16(high) = <<s[1], s[2]>>
  BY <1>1, Write16, Sizes
<1>3. v \in 0..MaxUint24 /\ v \in Nat /\ v \div Base = high /\ v % Base = s[3]
  BY <1>1, <1>2, NumbersFit, ShiftLeft DEF ReadUint24
<1>4. (high \div Base) % Base = s[1] /\ high % Base = s[2]
  BY <1>2 DEF PutUint16
<1> QED
  BY <1>1, <1>3, <1>4 DEF PutUint24

LEMMA Write32 ==
    ASSUME NEW s, s[1] \in Octet, s[2] \in Octet, s[3] \in Octet, s[4] \in Octet
    PROVE  ReadUint32(s) \in 0..MaxUint32 /\ PutUint32(ReadUint32(s)) = <<s[1], s[2], s[3], s[4]>>
<1>1. PICK v, high : v = ReadUint32(s) /\ high = ReadUint24(s)
  OBVIOUS
<1>2. high \in 0..MaxUint24 /\ high \in Nat /\ PutUint24(high) = <<s[1], s[2], s[3]>>
  BY <1>1, Write24, Sizes
<1>3. v \in 0..MaxUint32 /\ v \in Nat /\ v \div Base = high /\ v % Base = s[4]
  BY <1>1, <1>2, NumbersFit, ShiftLeft DEF ReadUint32
<1>4. /\ ((high \div Base) \div Base) % Base = s[1] /\ (high \div Base) % Base = s[2]
      /\ high % Base = s[3]
  BY <1>2 DEF PutUint24
<1> QED
  BY <1>1, <1>3, <1>4 DEF PutUint32

LEMMA Modulo ==
    ASSUME NEW h \in Nat, h > 0, NEW x \in Nat, x < h
    PROVE  x % h = x /\ (h + x) % h = x
OBVIOUS

LEMMA Monotone ==
    ASSUME NEW m \in Nat, NEW n \in Nat, NEW k \in Nat, m <= n
    PROVE  m * k <= n * k /\ m * k \in Nat /\ n * k \in Nat
OBVIOUS

\* A digit above low ones.
LEMMA Digit ==
    ASSUME NEW a \in Nat, NEW n \in Nat, NEW b \in Nat, NEW low \in Nat, low < b, a < n
    PROVE  a * b + low < n * b /\ a * b + low \in Nat
<1>1. (a + 1) * b <= n * b
  BY Monotone
<1>2. (a + 1) * b = a * b + b /\ a * b \in Nat
  OBVIOUS
<1>3. n * b \in Nat
  OBVIOUS
<1> QED
  BY <1>1, <1>2, <1>3

LEMMA Halves ==
    LET half == Base \div 2
    IN  /\ half \in Nat /\ Base = half + half
        /\ \A a \in Octet : /\ a < half => a % half = a
                            /\ a >= half => a % half = a - half /\ a - half \in Octet /\ a - half < half
<1>1. CASE Base = 64
  BY <1>1, SMT DEF Octet
<1>2. CASE Base = 256
  BY <1>2, SMT DEF Octet
<1> QED
  BY <1>1, <1>2, BaseAssumption

\* The reserved bit is the highest of the first octet.
LEMMA LowOctets ==
    ASSUME NEW a \in Octet, NEW low \in 0..MaxUint24
    PROVE  /\ (a * (MaxUint24 + 1) + low) % HighBit = (a % (Base \div 2)) * (MaxUint24 + 1) + low
           /\ a % (Base \div 2) \in Octet
           /\ a * (MaxUint24 + 1) + low >= HighBit <=> a >= Base \div 2
<1>1. PICK b, half : b = MaxUint24 + 1 /\ half = Base \div 2
  OBVIOUS
<1>2. /\ b \in Nat /\ low \in Nat /\ low < b /\ HighBit = half * b /\ HighBit \in Nat /\ HighBit > 0
      /\ half \in Nat /\ a \in Nat
  BY <1>1, Powers, Sizes, Halves, OctetIsSmall
<1>3. /\ a < half => a % half = a
      /\ a >= half => a % half = a - half /\ a - half \in Octet /\ a - half < half
  BY <1>1, Halves
<1>4. CASE a < half
  <2>1. a * b + low < HighBit /\ a * b + low \in Nat
    BY <1>2, <1>4, Digit
  <2>2. (a * b + low) % HighBit = a * b + low
    BY <1>2, <2>1, Modulo
  <2> QED
    BY <1>1, <1>2, <1>3, <1>4, <2>1, <2>2
<1>5. CASE a >= half
  <2>1. PICK c, rest : c = a - half /\ rest = c * b + low
    OBVIOUS
  <2>2. c \in Nat /\ c < half /\ a = half + c /\ a % half = c /\ c \in Octet
    BY <1>2, <1>3, <1>5, <2>1
  <2>3. rest < HighBit /\ rest \in Nat
    BY <1>2, <2>1, <2>2, Digit
  <2>4. a * b = HighBit + c * b /\ c * b \in Nat
    BY <1>2, <2>2
  <2>5. a * b + low = HighBit + rest
    BY <1>2, <2>1, <2>4
  <2>6. (HighBit + rest) % HighBit = rest /\ HighBit + rest >= HighBit
    BY <1>2, <2>3, Modulo
  <2> QED
    BY <1>1, <1>5, <2>1, <2>2, <2>5, <2>6
<1> QED
  BY <1>2, <1>4, <1>5

LEMMA Low31Small ==
    ASSUME NEW v \in Nat
    PROVE  /\ Low31(v) \in Nat /\ Low31(v) < HighBit /\ Low31(v) \in 0..MaxUint32
           /\ Low31(Low31(v)) = Low31(v)
<1>1. v % HighBit \in Nat /\ v % HighBit < HighBit
  BY Sizes
<1>2. (v % HighBit) % HighBit = v % HighBit
  BY <1>1, Sizes, Modulo
<1> QED
  BY <1>1, <1>2, Sizes DEF Low31

LEMMA Low31Zero == Low31(0) = 0
BY Sizes, Modulo DEF Low31

(***************************************************************************)
(* Parts of a sequence                                                     *)
(***************************************************************************)
LEMMA SubSequence ==
    ASSUME NEW S, NEW s \in Seq(S), NEW m \in Nat, NEW n \in Nat, n <= Len(s)
    PROVE  /\ SubSeq(s, m + 1, n) \in Seq(S)
           /\ Len(SubSeq(s, m + 1, n)) = IF m <= n THEN n - m ELSE 0
           /\ \A i \in 1..(n - m) : SubSeq(s, m + 1, n)[i] = s[m + i]
<1>1. \A i \in (m + 1)..n : s[i] \in S
  BY LenProperties
<1>2. Len(s) \in Nat /\ m + 1 \in Int /\ n \in Int
  BY LenProperties
<1>3. /\ SubSeq(s, m + 1, n) \in Seq(S)
      /\ Len(SubSeq(s, m + 1, n)) = IF m + 1 <= n THEN n - (m + 1) + 1 ELSE 0
      /\ \A i \in 1..(n - (m + 1) + 1) : SubSeq(s, m + 1, n)[i] = s[(m + 1) + i - 1]
  BY <1>1, <1>2, SubSeqProperties
<1>4. ASSUME NEW i \in 1..(n - m) PROVE SubSeq(s, m + 1, n)[i] = s[m + i]
  <2>1. i \in 1..(n - (m + 1) + 1) /\ (m + 1) + i - 1 = m + i
    OBVIOUS
  <2> QED
    BY <1>3, <2>1
<1> QED
  BY <1>3, <1>4

\* A sequence is put together from two.
Joined(S, whole, s, t) ==
    /\ whole \in Seq(S) /\ Len(whole) = Len(s) + Len(t)
    /\ Len(s) \in Nat /\ Len(t) \in Nat
    /\ \A i \in 1..Len(s) : whole[i] = s[i]
    /\ \A i \in 1..Len(t) : whole[Len(s) + i] = t[i]

LEMMA ConcatJoins ==
    ASSUME NEW S, NEW s \in Seq(S), NEW t \in Seq(S)
    PROVE  Joined(S, s \o t, s, t)
<1> DEFINE whole == s \o t
<1>1. Len(s) \in Nat /\ Len(t) \in Nat
  BY LenProperties
<1>2. /\ whole \in Seq(S) /\ Len(whole) = Len(s) + Len(t)
      /\ \A i \in 1..(Len(s) + Len(t)) : whole[i] = IF i <= Len(s) THEN s[i] ELSE t[i - Len(s)]
  BY ConcatProperties
<1>3. ASSUME NEW i \in 1..Len(t) PROVE whole[Len(s) + i] = t[i]
  <2>1. Len(s) + i \in 1..(Len(s) + Len(t)) /\ ~(Len(s) + i <= Len(s)) /\ (Len(s) + i) - Len(s) = i
    BY <1>1
  <2> QED
    BY <1>2, <2>1
<1>4. \A i \in 1..Len(s) : whole[i] = s[i]
  BY <1>1, <1>2
<1>5. whole \in Seq(S) /\ Len(whole) = Len(s) + Len(t)
  BY <1>2
<1> HIDE DEF whole
<1>6. Joined(S, whole, s, t)
  BY <1>1, <1>3, <1>4, <1>5 DEF Joined
<1> QED
  BY <1>6 DEF whole

\* A part is known by its place.
LEMMA PartAt ==
    ASSUME NEW S, NEW whole \in Seq(S), NEW part \in Seq(S), NEW from \in Nat, NEW to,
           to = from + Len(part), to <= Len(whole),
           \A i \in 1..Len(part) : whole[from + i] = part[i]
    PROVE  SubSeq(whole, from + 1, to) = part
<1>1. PICK sub : sub = SubSeq(whole, from + 1, to)
  OBVIOUS
<1>2. Len(part) \in Nat /\ to \in Nat /\ to - from = Len(part) /\ from <= to
  BY LenProperties
<1>3. /\ sub \in Seq(S) /\ Len(sub) = Len(part)
      /\ \A i \in 1..Len(part) : sub[i] = whole[from + i]
  BY <1>1, <1>2, SubSequence
<1>4. sub = part
  BY <1>3, SeqEqual
<1> QED
  BY <1>1, <1>4

FourParts(S, whole, a, b, c, d) ==
    /\ whole \in Seq(S) /\ Len(whole) = Len(a) + Len(b) + Len(c) + Len(d)
    /\ \A i \in 1..Len(a) : whole[i] = a[i]
    /\ SubSeq(whole, Len(a) + 1, Len(a) + Len(b)) = b
    /\ SubSeq(whole, Len(a) + Len(b) + 1, Len(a) + Len(b) + Len(c)) = c

LEMMA FourPartsOfConcat ==
    ASSUME NEW S, NEW a \in Seq(S), NEW b \in Seq(S), NEW c \in Seq(S), NEW d \in Seq(S)
    PROVE  FourParts(S, (a \o (b \o c)) \o d, a, b, c, d)
<1>. PICK whole : whole = (a \o (b \o c)) \o d
  OBVIOUS
<1>1. PICK middle, front : middle = b \o c /\ front = a \o middle /\ whole = front \o d
  OBVIOUS
<1>2. /\ middle \in Seq(S) /\ Len(middle) = Len(b) + Len(c)
      /\ Len(b) \in Nat /\ Len(c) \in Nat
      /\ \A i \in 1..Len(b) : middle[i] = b[i]
      /\ \A i \in 1..Len(c) : middle[Len(b) + i] = c[i]
  <2>1. Joined(S, middle, b, c)
    BY <1>1, ConcatJoins
  <2> QED
    BY <2>1 DEF Joined
<1>3. /\ front \in Seq(S) /\ Len(front) = Len(a) + Len(middle) /\ Len(a) \in Nat
      /\ \A i \in 1..Len(a) : front[i] = a[i]
      /\ \A i \in 1..Len(middle) : front[Len(a) + i] = middle[i]
  <2>1. Joined(S, front, a, middle)
    BY <1>1, <1>2, ConcatJoins
  <2> QED
    BY <2>1 DEF Joined
<1>4. /\ whole \in Seq(S) /\ Len(whole) = Len(front) + Len(d) /\ Len(d) \in Nat
      /\ \A i \in 1..Len(front) : whole[i] = front[i]
  <2>1. Joined(S, whole, front, d)
    BY <1>1, <1>3, ConcatJoins
  <2> QED
    BY <2>1 DEF Joined
<1>5. \A i \in 1..Len(a) : whole[i] = a[i]
  BY <1>2, <1>3, <1>4
<1>6. ASSUME NEW i \in 1..Len(b) PROVE whole[Len(a) + i] = b[i]
  <2>1. i \in 1..Len(middle) /\ Len(a) + i \in 1..Len(front)
    BY <1>2, <1>3
  <2> QED
    BY <1>2, <1>3, <1>4, <2>1
<1>7. ASSUME NEW i \in 1..Len(c) PROVE whole[(Len(a) + Len(b)) + i] = c[i]
  <2>1. /\ Len(b) + i \in 1..Len(middle) /\ Len(a) + (Len(b) + i) \in 1..Len(front)
        /\ Len(a) + (Len(b) + i) = (Len(a) + Len(b)) + i
    BY <1>2, <1>3
  <2> QED
    BY <1>2, <1>3, <1>4, <2>1
<1>8. SubSeq(whole, Len(a) + 1, Len(a) + Len(b)) = b
  <2>1. PICK from, to : from = Len(a) /\ to = Len(a) + Len(b)
    OBVIOUS
  <2>2. from \in Nat /\ to = from + Len(b) /\ to <= Len(whole)
    BY <1>2, <1>3, <1>4, <2>1
  <2>3. \A i \in 1..Len(b) : whole[from + i] = b[i]
    BY <1>6, <2>1
  <2>4. SubSeq(whole, from + 1, to) = b
    BY <1>4, <2>2, <2>3, PartAt
  <2> QED
    BY <2>1, <2>4
<1>9. SubSeq(whole, Len(a) + Len(b) + 1, Len(a) + Len(b) + Len(c)) = c
  <2>1. PICK from, to : from = Len(a) + Len(b) /\ to = Len(a) + Len(b) + Len(c)
    OBVIOUS
  <2>2. from \in Nat /\ to = from + Len(c) /\ to <= Len(whole)
    BY <1>2, <1>3, <1>4, <2>1
  <2>3. \A i \in 1..Len(c) : whole[from + i] = c[i]
    BY <1>7, <2>1
  <2>4. SubSeq(whole, from + 1, to) = c
    BY <1>4, <2>2, <2>3, PartAt
  <2> QED
    BY <2>1, <2>4
<1>10. whole \in Seq(S) /\ Len(whole) = Len(a) + Len(b) + Len(c) + Len(d)
  BY <1>2, <1>3, <1>4
<1>11. FourParts(S, whole, a, b, c, d)
  BY <1>5, <1>8, <1>9, <1>10 DEF FourParts
<1> QED
  BY <1>11

(***************************************************************************)
(* Padding                                                                 *)
(***************************************************************************)
Unpads(header, n, p, pad, fixed, rest) ==
    /\ p \in Seq(Octet)
    /\ Fits(header, n, p)
    /\ FixedPart(header, n, p) = fixed
    /\ Content(header, n, p) = rest
    /\ PadLength(header, p) = IF IsPadded(header) THEN pad ELSE 0
    /\ Len(p) = PadOffset(header) + n + Len(rest) + PadLength(header, p)

LEMMA PaddedReads ==
    ASSUME NEW f \in Frame, NEW fixed \in Seq(Octet), NEW rest \in Seq(Octet),
           NEW header, header.flags = f.header.flags,
           NEW n, n = Len(fixed), NEW p, p = Padded(f, fixed \o rest)
    PROVE  Unpads(header, n, p, f.pad, fixed, rest)
<1>1. f.pad \in Octet /\ f.pad \in Nat /\ 0 \in Octet /\ n \in Nat /\ Len(rest) \in Nat
  BY OctetIsSmall, Sizes, LenProperties DEF Frame, Octet
<1>2. IsPadded(header) = IsPadded(f.header)
  BY DEF IsPadded, HasFlag
<1>3. PICK content : content = fixed \o rest
  OBVIOUS
<1>4. content \in Seq(Octet) /\ Len(content) = n + Len(rest)
  BY <1>3, ConcatProperties
<1>5. CASE IsPadded(header)
  <2>1. PICK pads : pads = [i \in 1..f.pad |-> 0]
    OBVIOUS
  <2>2. pads \in Seq(Octet) /\ Len(pads) = f.pad
    BY <1>1, <2>1
  <2>3. <<f.pad>> \in Seq(Octet) /\ Len(<<f.pad>>) = 1 /\ <<f.pad>>[1] = f.pad
    BY <1>1
  <2>4. PICK lead : lead = <<f.pad>>
    OBVIOUS
  <2>5. p = (lead \o content) \o pads
    BY <1>2, <1>3, <1>5, <2>1, <2>4 DEF Padded
  <2>6. lead \in Seq(Octet) /\ Len(lead) = 1 /\ lead[1] = f.pad
    BY <2>3, <2>4
  <2>7. /\ p \in Seq(Octet) /\ Len(p) = Len(lead) + n + Len(rest) + Len(pads)
        /\ \A i \in 1..Len(lead) : p[i] = lead[i]
        /\ SubSeq(p, Len(lead) + 1, Len(lead) + n) = fixed
        /\ SubSeq(p, Len(lead) + n + 1, Len(lead) + n + Len(rest)) = rest
    <3>1. p = (lead \o (fixed \o rest)) \o pads
      BY <1>3, <2>5
    <3>2. FourParts(Octet, p, lead, fixed, rest, pads)
      BY <2>2, <2>6, <3>1, FourPartsOfConcat
    <3> QED
      BY <3>2 DEF FourParts
  <2>8. /\ p \in Seq(Octet) /\ Len(p) = 1 + n + Len(rest) + f.pad /\ p[1] = f.pad
        /\ SubSeq(p, 1 + 1, 1 + n) = fixed
        /\ SubSeq(p, 1 + n + 1, 1 + n + Len(rest)) = rest
    BY <2>2, <2>6, <2>7
  <2>9. PadOffset(header) = 1 /\ PadLength(header, p) = f.pad
    BY <1>5, <2>8 DEF PadOffset, PadLength
  <2>10. Len(p) - f.pad = 1 + n + Len(rest) /\ p # <<>>
    BY <1>1, <2>8
  <2>11. FixedPart(header, n, p) = fixed /\ Content(header, n, p) = rest
    BY <2>8, <2>9, <2>10 DEF FixedPart, Content
  <2>12. Fits(header, n, p)
    BY <1>1, <2>8, <2>9, <2>10 DEF Fits
  <2> QED
    BY <1>5, <2>8, <2>9, <2>11, <2>12 DEF Unpads
<1>6. CASE ~IsPadded(header)
  <2>1. p = content
    BY <1>2, <1>3, <1>6 DEF Padded
  <2>2. /\ \A i \in 1..n : p[0 + i] = fixed[i]
        /\ \A i \in 1..Len(rest) : p[n + i] = rest[i]
    <3>1. Joined(Octet, p, fixed, rest)
      BY <1>3, <2>1, ConcatJoins
    <3> QED
      BY <3>1 DEF Joined
  <2>3. p \in Seq(Octet) /\ 0 \in Nat /\ 0 + n <= Len(p) /\ n + Len(rest) <= Len(p)
    BY <1>1, <1>4, <2>1
  <2>4. SubSeq(p, 0 + 1, 0 + n) = fixed /\ SubSeq(p, n + 1, n + Len(rest)) = rest
    BY <1>1, <2>2, <2>3, PartAt
  <2>5. PadOffset(header) = 0 /\ PadLength(header, p) = 0
    BY <1>6 DEF PadOffset, PadLength
  <2>7. Len(p) = n + Len(rest) /\ 0 + n + 1 = n + 1 /\ Len(p) - 0 = n + Len(rest)
    BY <1>1, <1>4, <2>1
  <2>8. FixedPart(header, n, p) = fixed /\ Content(header, n, p) = rest
    BY <1>1, <2>4, <2>5, <2>7 DEF FixedPart, Content
  <2>9. Fits(header, n, p)
    BY <1>1, <1>6, <2>5, <2>7 DEF Fits
  <2> QED
    BY <1>1, <1>4, <1>6, <2>1, <2>5, <2>7, <2>8, <2>9 DEF Unpads
<1> QED
  BY <1>5, <1>6

(***************************************************************************)
(* Parts of payloads                                                       *)
(***************************************************************************)
LEMMA NumberThen ==
    ASSUME NEW v \in 0..MaxUint32, NEW rest \in Seq(Octet)
    PROVE  /\ ReadUint32(PutUint32(v)) = v
           /\ ReadUint32(PutUint32(v) \o rest) = v
           /\ PutUint32(v) \in Seq(Octet) /\ Len(PutUint32(v)) = 4
<1>1. PICK number : number = PutUint32(v)
  OBVIOUS
<1>2. PICK whole : whole = number \o rest
  OBVIOUS
<1>3. number \in Seq(Octet) /\ Len(number) = 4
  BY <1>1, Sizes, Put32
<1>4. Joined(Octet, whole, number, rest)
  BY <1>2, <1>3, ConcatJoins
<1>5. whole[1] = number[1] /\ whole[2] = number[2] /\ whole[3] = number[3] /\ whole[4] = number[4]
  BY <1>3, <1>4 DEF Joined
<1>6. ReadUint32(number) = v /\ ReadUint32(whole) = v
  BY <1>1, <1>5, Read32
<1> QED
  BY <1>1, <1>2, <1>3, <1>6

LEMMA PriorityReads ==
    ASSUME NEW p \in Priority
    PROVE  /\ PriorityOctets(p) \in Seq(Octet) /\ Len(PriorityOctets(p)) = PriorityLength
           /\ ParsePriority(PriorityOctets(p)) = CanonicalPriority(p)
<1>1. PICK v, whole, low, last :
        /\ low = Low31(p.dep) /\ v = low + (IF p.exclusive THEN HighBit ELSE 0)
        /\ last = <<p.weight>>
        /\ whole = PriorityOctets(p)
  OBVIOUS
<1>2. /\ p.dep \in Nat /\ p.weight \in Octet /\ p.exclusive \in BOOLEAN
      /\ p = [exclusive |-> p.exclusive, dep |-> p.dep, weight |-> p.weight]
  BY Sizes DEF Priority
<1>3. low \in Nat /\ low < HighBit
  BY <1>1, <1>2, Low31Small
<1>4. v \in 0..MaxUint32 /\ v \in Nat /\ (v >= HighBit <=> p.exclusive)
  BY <1>1, <1>2, <1>3, Sizes
<1>5. Low31(v) = low
  BY <1>1, <1>3, Sizes, Modulo DEF Low31
<1>6. whole = PutUint32(v) \o last
  BY <1>1 DEF PriorityOctets
<1>7. last \in Seq(Octet) /\ Len(last) = 1 /\ last[1] = p.weight
  BY <1>1, <1>2
<1>8. ReadUint32(whole) = v /\ PutUint32(v) \in Seq(Octet) /\ Len(PutUint32(v)) = 4
  BY <1>4, <1>6, <1>7, NumberThen
<1>9. whole \in Seq(Octet) /\ Len(whole) = 5 /\ whole[5] = p.weight
  <2>1. Joined(Octet, whole, PutUint32(v), last)
    BY <1>6, <1>7, <1>8, ConcatJoins
  <2>2. whole \in Seq(Octet) /\ Len(whole) = 4 + 1 /\ whole[4 + 1] = last[1]
    BY <1>7, <1>8, <2>1 DEF Joined
  <2> QED
    BY <1>7, <2>2
<1>10. ParsePriority(whole) = [exclusive |-> p.exclusive, dep |-> low, weight |-> p.weight]
  BY <1>2, <1>4, <1>5, <1>8, <1>9 DEF ParsePriority
<1>11. CanonicalPriority(p) = [exclusive |-> p.exclusive, dep |-> low, weight |-> p.weight]
  BY <1>1, <1>2 DEF CanonicalPriority
<1> QED
  BY <1>1, <1>9, <1>10, <1>11 DEF PriorityLength

LEMMA SettingReads ==
    ASSUME NEW s \in Setting
    PROVE  /\ SettingOctets(s) \in Seq(Octet) /\ Len(SettingOctets(s)) = SettingLength
           /\ ParseSetting(SettingOctets(s)) = s
<1>1. PICK id, value : id = PutUint16(s.id) /\ value = PutUint32(s.value)
  OBVIOUS
<1> PICK whole : whole = id \o value
  OBVIOUS
<1>2. /\ s.id \in 0..MaxUint16 /\ s.value \in 0..MaxUint32 /\ s.id \in Nat /\ s.value \in Nat
      /\ s = [id |-> s.id, value |-> s.value]
  BY Sizes DEF Setting
<1>3. /\ id \in Seq(Octet) /\ Len(id) = 2 /\ value \in Seq(Octet) /\ Len(value) = 4
  BY <1>1, <1>2, Put16, Put32
<1>4. /\ whole \in Seq(Octet) /\ Len(whole) = 6
      /\ \A i \in 1..2 : whole[i] = id[i]
      /\ \A i \in 1..4 : whole[2 + i] = value[i]
  <2>1. Joined(Octet, whole, id, value)
    BY <1>3, ConcatJoins
  <2> QED
    BY <1>3, <2>1 DEF Joined
<1>5. ReadUint16(whole) = s.id
  <2>1. whole[1] = PutUint16(s.id)[1] /\ whole[2] = PutUint16(s.id)[2]
    BY <1>1, <1>4
  <2> QED
    BY <1>2, <2>1, Read16
<1>6. SubSeq(whole, 3, 6) = value
  <2>1. PICK from, to : from = 2 /\ to = 6 /\ from + 1 = 3
    OBVIOUS
  <2>2. SubSeq(whole, from + 1, to) = value
    BY <1>3, <1>4, <2>1, PartAt, SMTT(20)
  <2> QED
    BY <2>1, <2>2
<1>7. ReadUint32(value) = s.value
  BY <1>1, <1>2, NumberThen, EmptySeq
<1>8. ParseSetting(whole) = s
  BY <1>2, <1>5, <1>6, <1>7 DEF ParseSetting
<1> QED
  BY <1>1, <1>4, <1>8 DEF SettingOctets, SettingLength

LEMMA SixthPlaces ==
    /\ \A i \in Nat \ {0} : \A j \in 1..6 :
          /\ ((6 * (i - 1) + j) - 1) \div 6 = i - 1
          /\ ((6 * (i - 1) + j) - 1) % 6 = j - 1
    /\ \A n \in Nat : (6 * n) \div 6 = n /\ (6 * n) % 6 = 0
    /\ \A k \in Nat \ {0} : (k - 1) \div 6 \in Nat /\ (k - 1) % 6 \in 0..5
    /\ \A n \in Nat : \A k \in 1..(6 * n) : 1 + ((k - 1) \div 6) \in 1..n
OBVIOUS

LEMMA SettingsRead ==
    ASSUME NEW settings \in Seq(Setting), NEW p, p = SettingsOctets(settings)
    PROVE  /\ p \in Seq(Octet) /\ Len(p) = SettingLength * Len(settings)
           /\ [i \in 1..(Len(p) \div SettingLength) |->
                 ParseSetting(SubSeq(p, SettingLength * (i - 1) + 1, SettingLength * i))] = settings
<1>1. PICK n : n = Len(settings) /\ n \in Nat
  BY LenProperties
<1>2. \A i \in 1..n : /\ SettingOctets(settings[i]) \in Seq(Octet)
                      /\ Len(SettingOctets(settings[i])) = 6
                      /\ ParseSetting(SettingOctets(settings[i])) = settings[i]
  BY <1>1, SettingReads, LenProperties DEF SettingLength
<1>3. p = [k \in 1..(6 * n) |-> SettingOctets(settings[1 + ((k - 1) \div 6)])[1 + ((k - 1) % 6)]]
  BY <1>1 DEF SettingsOctets, SettingLength
<1>4. ASSUME NEW k \in 1..(6 * n)
      PROVE  SettingOctets(settings[1 + ((k - 1) \div 6)])[1 + ((k - 1) % 6)] \in Octet
  <2>1. PICK i, j : i = 1 + ((k - 1) \div 6) /\ j = 1 + ((k - 1) % 6)
    OBVIOUS
  <2>2. i \in 1..n /\ j \in 1..6
    BY <1>1, <2>1, SixthPlaces
  <2>3. SettingOctets(settings[i])[j] \in Octet
    BY <1>2, <2>2, LenProperties
  <2> QED
    BY <2>1, <2>3
<1>5. p \in Seq(Octet) /\ Len(p) = 6 * n
  <2> DEFINE e(k) == SettingOctets(settings[1 + ((k - 1) \div 6)])[1 + ((k - 1) % 6)]
  <2>1. \A k \in 1..(6 * n) : e(k) \in Octet
    BY <1>4
  <2>2. p = [k \in 1..(6 * n) |-> e(k)]
    BY <1>3
  <2> HIDE DEF e
  <2>3. p \in [1..(6 * n) -> Octet] /\ 6 * n \in Nat
    BY <1>1, <2>1, <2>2
  <2> QED
    BY <2>3
<1>6. ASSUME NEW i \in 1..n
      PROVE  ParseSetting(SubSeq(p, 6 * (i - 1) + 1, 6 * i)) = settings[i]
  <2>1. PICK from, to, part : from = 6 * (i - 1) /\ to = 6 * i /\ part = SettingOctets(settings[i])
    OBVIOUS
  <2>2. from \in Nat /\ to = from + 6 /\ to <= 6 * n /\ part \in Seq(Octet) /\ Len(part) = 6
    BY <1>1, <1>2, <2>1
  <2>3. ASSUME NEW j \in 1..6 PROVE p[from + j] = part[j]
    <3>1. from + j \in 1..(6 * n)
      BY <1>1, <2>2
    <3>2. ((from + j) - 1) \div 6 = i - 1 /\ ((from + j) - 1) % 6 = j - 1
      BY <1>1, <2>1, SixthPlaces
    <3>3. 1 + (i - 1) = i /\ 1 + (j - 1) = j
      BY <1>1
    <3> QED
      BY <1>3, <2>1, <3>1, <3>2, <3>3
  <2>4. SubSeq(p, from + 1, to) = part
    BY <1>5, <2>2, <2>3, PartAt, SMTT(20)
  <2> QED
    BY <1>2, <2>1, <2>4
<1>7. Len(p) \div 6 = n
  BY <1>1, <1>5, SixthPlaces
<1>8. [i \in 1..n |-> ParseSetting(SubSeq(p, 6 * (i - 1) + 1, 6 * i))] = settings
  <2>1. settings = [i \in 1..n |-> settings[i]]
    BY <1>1, LenProperties
  <2> QED
    BY <1>6, <2>1
<1> QED
  BY <1>1, <1>5, <1>7, <1>8 DEF SettingLength

(***************************************************************************)
(* Frames                                                                  *)
(***************************************************************************)
FrameOf(header, pad, priority, stream, number, settings, data, raw) ==
    [header |-> header, pad |-> pad, priority |-> priority, stream |-> stream,
     number |-> number, settings |-> settings, data |-> data, raw |-> raw]

LEMMA FrameFields ==
    ASSUME NEW f \in Frame
    PROVE  f = FrameOf(f.header, f.pad, f.priority, f.stream, f.number, f.settings, f.data, f.raw)
BY DEF Frame, FrameOf

LEMMA BlankFields ==
    ASSUME NEW h
    PROVE  Blank(h) = FrameOf(h, 0, NoPriority, 0, 0, <<>>, <<>>, FALSE)
BY DEF Blank, FrameOf

\* The frames that the parsers make.
DataFrame(h, pad, data) == [Blank(h) EXCEPT !.pad = pad, !.data = data]
HeadersFrame(h, pad, priority, data) ==
    [Blank(h) EXCEPT !.pad = pad, !.priority = priority, !.data = data]
PushPromiseFrame(h, pad, stream, data) ==
    [Blank(h) EXCEPT !.pad = pad, !.stream = stream, !.data = data]
GoAwayFrame(h, stream, number, data) ==
    [Blank(h) EXCEPT !.stream = stream, !.number = number, !.data = data]
PriorityFrame(h, priority) == [Blank(h) EXCEPT !.priority = priority]
NumberFrame(h, number) == [Blank(h) EXCEPT !.number = number]
SettingsFrame(h, settings) == [Blank(h) EXCEPT !.settings = settings]
OctetsFrame(h, data) == [Blank(h) EXCEPT !.data = data]

LEMMA ParsedFields ==
    /\ \A h, pad, data :
          DataFrame(h, pad, data) = FrameOf(h, pad, NoPriority, 0, 0, <<>>, data, FALSE)
    /\ \A h, pad, priority, data :
          HeadersFrame(h, pad, priority, data) = FrameOf(h, pad, priority, 0, 0, <<>>, data, FALSE)
    /\ \A h, pad, stream, data :
          PushPromiseFrame(h, pad, stream, data)
             = FrameOf(h, pad, NoPriority, stream, 0, <<>>, data, FALSE)
    /\ \A h, stream, number, data :
          GoAwayFrame(h, stream, number, data)
             = FrameOf(h, 0, NoPriority, stream, number, <<>>, data, FALSE)
    /\ \A h, priority :
          PriorityFrame(h, priority) = FrameOf(h, 0, priority, 0, 0, <<>>, <<>>, FALSE)
    /\ \A h, number :
          NumberFrame(h, number) = FrameOf(h, 0, NoPriority, 0, number, <<>>, <<>>, FALSE)
    /\ \A h, settings :
          SettingsFrame(h, settings) = FrameOf(h, 0, NoPriority, 0, 0, settings, <<>>, FALSE)
    /\ \A h, data :
          OctetsFrame(h, data) = FrameOf(h, 0, NoPriority, 0, 0, <<>>, data, FALSE)
<1> PICK empty, no : empty = <<>> /\ no = FALSE
  OBVIOUS
<1> USE DEF FrameOf
<1>1. \A h : Blank(h) = FrameOf(h, 0, NoPriority, 0, 0, empty, empty, no)
  BY BlankFields
<1>2. ASSUME NEW h, NEW pad, NEW data
      PROVE  DataFrame(h, pad, data) = FrameOf(h, pad, NoPriority, 0, 0, empty, data, no)
  <2>1. PICK f : f = [Blank(h) EXCEPT !.pad = pad]
    OBVIOUS
  <2>2. f = FrameOf(h, pad, NoPriority, 0, 0, empty, empty, no)
    BY <1>1, <2>1
  <2>3. DataFrame(h, pad, data) = [f EXCEPT !.data = data]
    BY <2>1 DEF DataFrame
  <2> QED
    BY <2>2, <2>3
<1>3. ASSUME NEW h, NEW pad, NEW priority, NEW data
      PROVE  HeadersFrame(h, pad, priority, data) = FrameOf(h, pad, priority, 0, 0, empty, data, no)
  <2>1. PICK f : f = [Blank(h) EXCEPT !.pad = pad]
    OBVIOUS
  <2>2. f = FrameOf(h, pad, NoPriority, 0, 0, empty, empty, no)
    BY <1>1, <2>1
  <2>3. PICK f1 : f1 = [f EXCEPT !.priority = priority]
    OBVIOUS
  <2>4. HeadersFrame(h, pad, priority, data) = [f1 EXCEPT !.data = data]
    BY <2>1, <2>3 DEF HeadersFrame
  <2> QED
    BY <2>2, <2>3, <2>4
<1>4. ASSUME NEW h, NEW pad, NEW stream, NEW data
      PROVE  PushPromiseFrame(h, pad, stream, data)
                = FrameOf(h, pad, NoPriority, stream, 0, empty, data, no)
  <2>1. PICK f : f = [Blank(h) EXCEPT !.pad = pad]
    OBVIOUS
  <2>2. f = FrameOf(h, pad, NoPriority, 0, 0, empty, empty, no)
    BY <1>1, <2>1
  <2>3. PICK f1 : f1 = [f EXCEPT !.stream = stream]
    OBVIOUS
  <2>4. PushPromiseFrame(h, pad, stream, data) = [f1 EXCEPT !.data = data]
    BY <2>1, <2>3 DEF PushPromiseFrame
  <2> QED
    BY <2>2, <2>3, <2>4
<1>5. ASSUME NEW h, NEW stream, NEW number, NEW data
      PROVE  GoAwayFrame(h, stream, number, data)
                = FrameOf(h, 0, NoPriority, stream, number, empty, data, no)
  <2>1. PICK f : f = [Blank(h) EXCEPT !.stream = stream]
    OBVIOUS
  <2>2. f = FrameOf(h, 0, NoPriority, stream, 0, empty, empty, no)
    BY <1>1, <2>1
  <2>3. PICK f1 : f1 = [f EXCEPT !.number = number]
    OBVIOUS
  <2>4. GoAwayFrame(h, stream, number, data) = [f1 EXCEPT !.data = data]
    BY <2>1, <2>3 DEF GoAwayFrame
  <2> QED
    BY <2>2, <2>3, <2>4
<1>6. \A h, priority : PriorityFrame(h, priority) = FrameOf(h, 0, priority, 0, 0, empty, empty, no)
  BY <1>1 DEF PriorityFrame
<1>7. \A h, number : NumberFrame(h, number) = FrameOf(h, 0, NoPriority, 0, number, empty, empty, no)
  BY <1>1 DEF NumberFrame
<1>8. \A h, settings : SettingsFrame(h, settings) = FrameOf(h, 0, NoPriority, 0, 0, settings, empty, no)
  BY <1>1 DEF SettingsFrame
<1>9. \A h, data : OctetsFrame(h, data) = FrameOf(h, 0, NoPriority, 0, 0, empty, data, no)
  BY <1>1 DEF OctetsFrame
<1> HIDE DEF FrameOf
<1> QED
  BY <1>2, <1>3, <1>4, <1>5, <1>6, <1>7, <1>8, <1>9

LEMMA CanonicalFields ==
    ASSUME NEW f \in Frame, ~f.raw
    PROVE  Canonical(f) =
             FrameOf(Arriving(f), IF HasPadding(f.header) THEN f.pad ELSE 0,
                     IF HasPriority(f.header) THEN CanonicalPriority(f.priority) ELSE NoPriority,
                     Low31(f.stream),
                     IF f.header.type = WINDOW_UPDATE THEN Low31(f.number) ELSE f.number,
                     f.settings, f.data, FALSE)
<1>1. PICK h, pad, priority, stream, number :
        /\ h = Arriving(f)
        /\ pad = (IF HasPadding(f.header) THEN f.pad ELSE 0)
        /\ priority = (IF HasPriority(f.header) THEN CanonicalPriority(f.priority) ELSE NoPriority)
        /\ stream = Low31(f.stream)
        /\ number = (IF f.header.type = WINDOW_UPDATE THEN Low31(f.number) ELSE f.number)
  OBVIOUS
<1>2. Canonical(f) = [f EXCEPT !.header = h, !.pad = pad, !.priority = priority,
                               !.stream = stream, !.number = number]
  BY <1>1 DEF Canonical
<1>3. PICK settings, data, raw : settings = f.settings /\ data = f.data /\ raw = f.raw
  OBVIOUS
<1>4. f = FrameOf(f.header, f.pad, f.priority, f.stream, f.number, settings, data, raw)
  BY <1>3, FrameFields
<1>5. PICK f1 : f1 = [f EXCEPT !.header = h]
  OBVIOUS
<1>6. PICK f2 : f2 = [f1 EXCEPT !.pad = pad]
  OBVIOUS
<1>7. PICK f3 : f3 = [f2 EXCEPT !.priority = priority]
  OBVIOUS
<1>8. PICK f4 : f4 = [f3 EXCEPT !.stream = stream]
  OBVIOUS
<1>9. PICK f5 : f5 = [f4 EXCEPT !.number = number]
  OBVIOUS
<1>10. [f EXCEPT !.header = h, !.pad = pad, !.priority = priority, !.stream = stream, !.number = number] = f5
  BY <1>5, <1>6, <1>7, <1>8, <1>9
<1>11. f1 = FrameOf(h, f.pad, f.priority, f.stream, f.number, settings, data, raw)
  BY <1>4, <1>5 DEF FrameOf
<1>12. f2 = FrameOf(h, pad, f.priority, f.stream, f.number, settings, data, raw)
  BY <1>6, <1>11 DEF FrameOf
<1>13. f3 = FrameOf(h, pad, priority, f.stream, f.number, settings, data, raw)
  BY <1>7, <1>12 DEF FrameOf
<1>14. f4 = FrameOf(h, pad, priority, stream, f.number, settings, data, raw)
  BY <1>8, <1>13 DEF FrameOf
<1>15. f5 = FrameOf(h, pad, priority, stream, number, settings, data, raw)
  BY <1>9, <1>14 DEF FrameOf
<1>16. f.raw = FALSE
  BY DEF Frame
<1> QED
  BY <1>1, <1>2, <1>3, <1>10, <1>15, <1>16

LEMMA ArrivingFields ==
    ASSUME NEW f \in Frame
    PROVE  /\ Arriving(f).length = Len(Payload(f)) /\ Arriving(f).type = f.header.type
           /\ Arriving(f).flags = f.header.flags /\ Arriving(f).stream = Low31(f.header.stream)
           /\ Arriving(f) = [length |-> Len(Payload(f)), type |-> f.header.type,
                             flags |-> f.header.flags, stream |-> Low31(f.header.stream)]
<1>1. PICK h, length, stream :
        h = f.header /\ length = Len(Payload(f)) /\ stream = Low31(f.header.stream)
  OBVIOUS
<1>2. h = [length |-> h.length, type |-> h.type, flags |-> h.flags, stream |-> h.stream]
  BY <1>1 DEF Frame, Header
<1>3. Arriving(f) = [h EXCEPT !.length = length, !.stream = stream]
  BY <1>1, Zenon DEF Arriving
<1>4. PICK h1 : h1 = [h EXCEPT !.length = length]
  OBVIOUS
<1>5. h1 = [length |-> length, type |-> h.type, flags |-> h.flags, stream |-> h.stream]
  BY <1>2, <1>4
<1>6. [h EXCEPT !.length = length, !.stream = stream] = [h1 EXCEPT !.stream = stream]
  BY <1>4
<1>7. [h1 EXCEPT !.stream = stream]
      = [length |-> length, type |-> h.type, flags |-> h.flags, stream |-> stream]
  BY <1>5
<1> QED
  BY <1>1, <1>3, <1>6, <1>7

LEMMA UnmarshalByType ==
    ASSUME NEW h, NEW p, Len(p) = h.length
    PROVE  /\ h.type = DATA => Unmarshal(h, p) =
                Accept(Fits(h, 0, p), DataFrame(h, PadLength(h, p), Content(h, 0, p)))
           /\ h.type = HEADERS => Unmarshal(h, p) = ParseHeaders(h, p)
           /\ h.type = PRIORITY => Unmarshal(h, p) =
                Accept(Len(p) = PriorityLength, PriorityFrame(h, ParsePriority(p)))
           /\ h.type = RST_STREAM => Unmarshal(h, p) =
                Accept(Len(p) = 4, NumberFrame(h, ReadUint32(p)))
           /\ h.type = SETTINGS => Unmarshal(h, p) =
                Accept(Len(p) % SettingLength = 0,
                  SettingsFrame(h, [i \in 1..(Len(p) \div SettingLength) |->
                     ParseSetting(SubSeq(p, SettingLength * (i - 1) + 1, SettingLength * i))]))
           /\ h.type = PUSH_PROMISE => Unmarshal(h, p) =
                Accept(Fits(h, 4, p),
                  PushPromiseFrame(h, PadLength(h, p), Low31(ReadUint32(FixedPart(h, 4, p))),
                                   Content(h, 4, p)))
           /\ h.type = PING => Unmarshal(h, p) = Accept(Len(p) = PingLength, OctetsFrame(h, p))
           /\ h.type = GOAWAY => Unmarshal(h, p) =
                Accept(Len(p) >= 8,
                  GoAwayFrame(h, Low31(ReadUint32(p)), ReadUint32(SubSeq(p, 5, 8)), SubSeq(p, 9, Len(p))))
           /\ h.type = WINDOW_UPDATE => Unmarshal(h, p) =
                Accept(Len(p) = 4, NumberFrame(h, Low31(ReadUint32(p))))
           /\ h.type = CONTINUATION => Unmarshal(h, p) = {OctetsFrame(h, p)}
<1> USE DEF Unmarshal, DATA, HEADERS, PRIORITY, RST_STREAM, SETTINGS, PUSH_PROMISE, PING, GOAWAY,
    WINDOW_UPDATE, CONTINUATION
<1> QED
  BY DEF DataFrame, PushPromiseFrame, GoAwayFrame, PriorityFrame, NumberFrame, SettingsFrame,
     OctetsFrame

\* The parser reads what Payload and encode wrote, as the canonical form of the frame.
Reads(f) ==
    /\ Payload(f) \in Seq(Octet)
    /\ Unmarshal(Arriving(f), Payload(f)) = {Canonical(f)}

LEMMA PayloadByType ==
    ASSUME NEW f, ~f.raw
    PROVE  /\ f.header.type = DATA => Payload(f) = Padded(f, f.data)
           /\ f.header.type = HEADERS => Payload(f) =
                Padded(f, (IF HasFlag(f.header, FlagPriority) THEN PriorityOctets(f.priority)
                           ELSE <<>>) \o f.data)
           /\ f.header.type = PRIORITY => Payload(f) = PriorityOctets(f.priority)
           /\ f.header.type = RST_STREAM => Payload(f) = PutUint32(f.number)
           /\ f.header.type = SETTINGS => Payload(f) = SettingsOctets(f.settings)
           /\ f.header.type = PUSH_PROMISE =>
                Payload(f) = Padded(f, PutUint32(Low31(f.stream)) \o f.data)
           /\ f.header.type = PING => Payload(f) = f.data
           /\ f.header.type = GOAWAY =>
                Payload(f) = GoAwayOctets(f.stream, f.number, f.data)
           /\ f.header.type = WINDOW_UPDATE => Payload(f) = PutUint32(Low31(f.number))
           /\ f.header.type = CONTINUATION => Payload(f) = f.data
BY DEF Payload, DATA, HEADERS, PRIORITY, RST_STREAM, SETTINGS, PUSH_PROMISE, PING, GOAWAY,
   WINDOW_UPDATE, CONTINUATION

LEMMA TypesDiffer ==
    /\ DATA # HEADERS /\ DATA # PRIORITY /\ DATA # PUSH_PROMISE /\ DATA # WINDOW_UPDATE
    /\ HEADERS # PRIORITY /\ HEADERS # WINDOW_UPDATE
    /\ \A type \in {PRIORITY, RST_STREAM, SETTINGS, PING, GOAWAY, WINDOW_UPDATE, CONTINUATION} :
          type \notin {DATA, HEADERS, PUSH_PROMISE}
    /\ \A type \in {DATA, RST_STREAM, SETTINGS, PUSH_PROMISE, PING, GOAWAY, WINDOW_UPDATE, CONTINUATION} :
          type # PRIORITY /\ type # HEADERS
    /\ \A type \in {DATA, HEADERS, PRIORITY, RST_STREAM, SETTINGS, PUSH_PROMISE, PING, GOAWAY, CONTINUATION} :
          type # WINDOW_UPDATE
BY DEF DATA, HEADERS, PRIORITY, RST_STREAM, SETTINGS, PUSH_PROMISE, PING, GOAWAY, WINDOW_UPDATE,
   CONTINUATION

LEMMA DataReads ==
    ASSUME NEW f, Usual(f), ~f.raw, f.header.type = DATA
    PROVE  Reads(f)
<1>1. PICK p, h : p = Payload(f) /\ h = Arriving(f)
  OBVIOUS
<1>2. /\ f \in Frame /\ f.data \in Seq(Octet) /\ f.stream = 0 /\ f.number = 0 /\ f.settings = <<>>
  BY DEF Usual, Frame, DATA, PUSH_PROMISE, GOAWAY, RST_STREAM, WINDOW_UPDATE, SETTINGS
<1>3. h.type = DATA /\ h.flags = f.header.flags /\ Len(p) = h.length
  BY <1>1, <1>2, ArrivingFields
<1>4. p = Padded(f, <<>> \o f.data)
  BY <1>1, <1>2, PayloadByType, ConcatEmptySeq
<1> PICK none : none = <<>>
  OBVIOUS
<1>5. none \in Seq(Octet) /\ 0 = Len(none)
  OBVIOUS
<1>6. Unpads(h, 0, p, f.pad, none, f.data)
  <2>1. p = Padded(f, none \o f.data)
    BY <1>4
  <2> QED
    BY <1>2, <1>3, <1>5, <2>1, PaddedReads
<1>7. PICK pad : pad = PadLength(h, p)
  OBVIOUS
<1>8. PICK g : g = DataFrame(h, pad, f.data)
  OBVIOUS
<1>9. g = FrameOf(h, pad, NoPriority, 0, 0, <<>>, f.data, FALSE)
  BY <1>8, ParsedFields
<1>10. Unmarshal(h, p) = {g}
  BY <1>3, <1>6, <1>7, <1>8, UnmarshalByType, ZenonT(30) DEF Accept, Unpads
<1>11. IsPadded(h) = IsPadded(f.header)
  BY <1>3 DEF IsPadded, HasFlag
<1>12. ~HasPriority(f.header) /\ f.header.type # WINDOW_UPDATE /\ Low31(f.stream) = 0
  BY <1>2, TypesDiffer, Low31Zero DEF HasPriority
<1>13. pad = IF HasPadding(f.header) THEN f.pad ELSE 0
  BY <1>6, <1>7, <1>11 DEF Unpads, HasPadding
<1>14. Canonical(f) = FrameOf(h, pad, NoPriority, 0, 0, <<>>, f.data, FALSE)
  BY <1>1, <1>2, <1>12, <1>13, CanonicalFields
<1> QED
  BY <1>1, <1>6, <1>9, <1>10, <1>14 DEF Reads, Unpads

LEMMA HeadersReads ==
    ASSUME NEW f, Usual(f), ~f.raw, f.header.type = HEADERS
    PROVE  Reads(f)
<1>1. PICK p, h : p = Payload(f) /\ h = Arriving(f)
  OBVIOUS
<1>2. /\ f \in Frame /\ f.data \in Seq(Octet) /\ f.stream = 0 /\ f.number = 0 /\ f.settings = <<>>
      /\ f.priority \in Priority
  BY DEF Usual, Frame, HEADERS, PUSH_PROMISE, GOAWAY, RST_STREAM, WINDOW_UPDATE, SETTINGS
<1>3. h.type = HEADERS /\ h.flags = f.header.flags /\ Len(p) = h.length
  BY <1>1, <1>2, ArrivingFields
<1>4. IsPadded(h) = IsPadded(f.header) /\ HasFlag(h, FlagPriority) = HasFlag(f.header, FlagPriority)
  BY <1>3 DEF IsPadded, HasFlag
<1>5. PICK fixed, n : /\ fixed = (IF HasFlag(h, FlagPriority) THEN PriorityOctets(f.priority) ELSE <<>>)
                      /\ n = Len(fixed)
  OBVIOUS
<1>6. fixed \in Seq(Octet) /\ n = IF HasFlag(h, FlagPriority) THEN PriorityLength ELSE 0
  BY <1>2, <1>5, PriorityReads
<1>7. Unpads(h, n, p, f.pad, fixed, f.data)
  <2>1. p = Padded(f, fixed \o f.data)
    BY <1>1, <1>4, <1>5, PayloadByType
  <2> QED
    BY <1>2, <1>3, <1>5, <1>6, <2>1, PaddedReads
<1>8. PICK pad, priority :
        /\ pad = PadLength(h, p)
        /\ priority = (IF n = 0 THEN NoPriority ELSE ParsePriority(fixed))
  OBVIOUS
<1>9. PICK g : g = HeadersFrame(h, pad, priority, f.data)
  OBVIOUS
<1>91. g = FrameOf(h, pad, priority, 0, 0, <<>>, f.data, FALSE)
  BY <1>9, ParsedFields
<1>10. Unmarshal(h, p) = {g}
  <2>1. Unmarshal(h, p) = ParseHeaders(h, p)
    BY <1>3, UnmarshalByType
  <2>2. ParseHeaders(h, p) = {HeadersFrame(h, pad, priority, f.data)}
    BY <1>6, <1>7, <1>8 DEF ParseHeaders, Accept, Unpads, HeadersFrame
  <2> QED
    BY <1>9, <2>1, <2>2
<1>11. (HasPriority(f.header) <=> HasFlag(h, FlagPriority)) /\ f.header.type # WINDOW_UPDATE
       /\ Low31(f.stream) = 0
  BY <1>2, <1>4, TypesDiffer, Low31Zero DEF HasPriority
<1>12. pad = IF HasPadding(f.header) THEN f.pad ELSE 0
  BY <1>4, <1>7, <1>8 DEF Unpads, HasPadding
<1>13. priority = IF HasPriority(f.header) THEN CanonicalPriority(f.priority) ELSE NoPriority
  BY <1>2, <1>5, <1>6, <1>8, <1>11, PriorityReads DEF PriorityLength
<1>14. Canonical(f) = FrameOf(h, pad, priority, 0, 0, <<>>, f.data, FALSE)
  BY <1>1, <1>2, <1>11, <1>12, <1>13, CanonicalFields
<1> QED
  BY <1>1, <1>7, <1>91, <1>10, <1>14 DEF Reads, Unpads

LEMMA PushPromiseReads ==
    ASSUME NEW f, Usual(f), ~f.raw, f.header.type = PUSH_PROMISE
    PROVE  Reads(f)
<1>1. PICK p, h : p = Payload(f) /\ h = Arriving(f)
  OBVIOUS
<1>2. /\ f \in Frame /\ f.data \in Seq(Octet) /\ f.stream \in Nat /\ f.number = 0 /\ f.settings = <<>>
  BY Sizes DEF Usual, Frame, PUSH_PROMISE, GOAWAY, RST_STREAM, WINDOW_UPDATE, SETTINGS
<1>3. h.type = PUSH_PROMISE /\ h.flags = f.header.flags /\ Len(p) = h.length
  BY <1>1, <1>2, ArrivingFields
<1>4. IsPadded(h) = IsPadded(f.header)
  BY <1>3 DEF IsPadded, HasFlag
<1>5. PICK stream, fixed, n : stream = Low31(f.stream) /\ fixed = PutUint32(stream) /\ n = 4
  OBVIOUS
<1>6. /\ fixed \in Seq(Octet) /\ n = Len(fixed) /\ ReadUint32(fixed) = stream /\ Low31(stream) = stream
  BY <1>2, <1>5, Low31Small, NumberThen, EmptySeq
<1>7. Unpads(h, n, p, f.pad, fixed, f.data)
  <2>1. p = Padded(f, fixed \o f.data)
    BY <1>1, <1>5, PayloadByType
  <2> QED
    BY <1>2, <1>3, <1>6, <2>1, PaddedReads
<1>8. PICK pad : pad = PadLength(h, p)
  OBVIOUS
<1>9. PICK g : g = PushPromiseFrame(h, pad, stream, f.data)
  OBVIOUS
<1>91. g = FrameOf(h, pad, NoPriority, stream, 0, <<>>, f.data, FALSE)
  BY <1>9, ParsedFields
<1>10. Unmarshal(h, p) = {g}
  <2>1. Unmarshal(h, p) =
          Accept(Fits(h, n, p),
            PushPromiseFrame(h, PadLength(h, p), Low31(ReadUint32(FixedPart(h, n, p))), Content(h, n, p)))
    BY <1>3, <1>5, UnmarshalByType
  <2>2. Low31(ReadUint32(FixedPart(h, n, p))) = stream
    BY <1>6, <1>7 DEF Unpads
  <2> QED
    BY <1>7, <1>8, <1>9, <2>1, <2>2 DEF Accept, Unpads
<1>11. ~HasPriority(f.header) /\ f.header.type # WINDOW_UPDATE
  BY TypesDiffer DEF HasPriority
<1>12. pad = IF HasPadding(f.header) THEN f.pad ELSE 0
  BY <1>4, <1>7, <1>8 DEF Unpads, HasPadding
<1>13. Canonical(f) = FrameOf(h, pad, NoPriority, stream, 0, <<>>, f.data, FALSE)
  BY <1>1, <1>2, <1>5, <1>11, <1>12, CanonicalFields
<1> QED
  BY <1>1, <1>7, <1>91, <1>10, <1>13 DEF Reads, Unpads

LEMMA FixedReads ==
    ASSUME NEW f, Usual(f), ~f.raw, f.header.type \in {PRIORITY, RST_STREAM, WINDOW_UPDATE}
    PROVE  Reads(f)
<1>1. PICK p, h : p = Payload(f) /\ h = Arriving(f)
  OBVIOUS
<1>2. /\ f \in Frame /\ f.data = <<>> /\ f.stream = 0 /\ f.number \in 0..MaxUint32 /\ f.settings = <<>>
      /\ f.priority \in Priority /\ f.number \in Nat
  <2>1. /\ f.header.type \notin {PUSH_PROMISE, GOAWAY} /\ f.header.type # SETTINGS
        /\ f.header.type \in {PRIORITY, RST_STREAM, SETTINGS, WINDOW_UPDATE}
    BY DEF PRIORITY, PUSH_PROMISE, GOAWAY, RST_STREAM, WINDOW_UPDATE, SETTINGS
  <2>2. f \in Frame /\ f.data = <<>> /\ f.stream = 0 /\ f.settings = <<>>
    BY <2>1 DEF Usual
  <2>3. f.number \in 0..MaxUint32 /\ f.priority \in Priority
    BY <2>2 DEF Frame
  <2> QED
    BY <2>2, <2>3, Sizes
<1>3. h.type = f.header.type /\ Len(p) = h.length
  BY <1>1, <1>2, ArrivingFields
<1>4. ~HasPadding(f.header) /\ Low31(f.stream) = 0
  BY <1>2, TypesDiffer, Low31Zero DEF HasPadding
<1>5. CASE f.header.type = PRIORITY
  <2>1. PICK priority, g : priority = CanonicalPriority(f.priority) /\ g = PriorityFrame(h, priority)
    OBVIOUS
  <2>2. p \in Seq(Octet) /\ Len(p) = PriorityLength /\ ParsePriority(p) = priority
    BY <1>1, <1>2, <1>5, <2>1, PayloadByType, PriorityReads
  <2>3. Unmarshal(h, p) = {g}
    <3>1. Unmarshal(h, p) = Accept(Len(p) = PriorityLength, PriorityFrame(h, ParsePriority(p)))
      BY <1>3, <1>5, UnmarshalByType
    <3> QED
      BY <2>1, <2>2, <3>1 DEF Accept
  <2>4. HasPriority(f.header) /\ f.header.type # WINDOW_UPDATE /\ f.number = 0
    BY <1>5, TypesDiffer DEF HasPriority, Usual, PRIORITY, RST_STREAM, WINDOW_UPDATE, GOAWAY
  <2>5. Canonical(f) = FrameOf(h, 0, priority, 0, 0, <<>>, <<>>, FALSE)
    BY <1>1, <1>2, <1>4, <2>1, <2>4, CanonicalFields
  <2>6. g = FrameOf(h, 0, priority, 0, 0, <<>>, <<>>, FALSE)
    BY <2>1, ParsedFields
  <2> QED
    BY <1>1, <2>2, <2>3, <2>5, <2>6 DEF Reads
<1>6. CASE f.header.type = RST_STREAM
  <2>1. PICK number, g : number = f.number /\ g = NumberFrame(h, number)
    OBVIOUS
  <2>2. p \in Seq(Octet) /\ Len(p) = 4 /\ ReadUint32(p) = number
    BY <1>1, <1>2, <1>6, <2>1, PayloadByType, NumberThen, EmptySeq
  <2>3. Unmarshal(h, p) = {g}
    <3>1. Unmarshal(h, p) = Accept(Len(p) = 4, NumberFrame(h, ReadUint32(p)))
      BY <1>3, <1>6, UnmarshalByType
    <3> QED
      BY <2>1, <2>2, <3>1 DEF Accept
  <2>4. ~HasPriority(f.header) /\ f.header.type # WINDOW_UPDATE
    BY <1>6, TypesDiffer DEF HasPriority
  <2>5. Canonical(f) = FrameOf(h, 0, NoPriority, 0, number, <<>>, <<>>, FALSE)
    BY <1>1, <1>2, <1>4, <2>1, <2>4, CanonicalFields
  <2>6. g = FrameOf(h, 0, NoPriority, 0, number, <<>>, <<>>, FALSE)
    BY <2>1, ParsedFields
  <2> QED
    BY <1>1, <2>2, <2>3, <2>5, <2>6 DEF Reads
<1>7. CASE f.header.type = WINDOW_UPDATE
  <2>1. PICK number, g : number = Low31(f.number) /\ g = NumberFrame(h, number)
    OBVIOUS
  <2>2. number \in 0..MaxUint32 /\ Low31(number) = number
    BY <1>2, <2>1, Low31Small
  <2>3. p \in Seq(Octet) /\ Len(p) = 4 /\ ReadUint32(p) = number
    BY <1>1, <1>7, <2>1, <2>2, PayloadByType, NumberThen, EmptySeq
  <2>4. Unmarshal(h, p) = {g}
    <3>1. Unmarshal(h, p) = Accept(Len(p) = 4, NumberFrame(h, Low31(ReadUint32(p))))
      BY <1>3, <1>7, UnmarshalByType
    <3> QED
      BY <2>1, <2>2, <2>3, <3>1 DEF Accept
  <2>5. ~HasPriority(f.header)
    BY <1>7, TypesDiffer DEF HasPriority
  <2>6. Canonical(f) = FrameOf(h, 0, NoPriority, 0, number, <<>>, <<>>, FALSE)
    BY <1>1, <1>2, <1>4, <1>7, <2>1, <2>5, CanonicalFields
  <2>7. g = FrameOf(h, 0, NoPriority, 0, number, <<>>, <<>>, FALSE)
    BY <2>1, ParsedFields
  <2> QED
    BY <1>1, <2>3, <2>4, <2>6, <2>7 DEF Reads
<1> QED
  BY <1>5, <1>6, <1>7

LEMMA OctetsReads ==
    ASSUME NEW f, Usual(f), ~f.raw, f.header.type \in {PING, CONTINUATION}
    PROVE  Reads(f)
<1>1. PICK p, h, g : p = Payload(f) /\ h = Arriving(f) /\ g = OctetsFrame(h, p)
  OBVIOUS
<1>2. /\ f \in Frame /\ f.stream = 0 /\ f.number = 0 /\ f.settings = <<>> /\ f.data \in Seq(Octet)
      /\ f.header.type = PING => Len(f.data) = PingLength
  <2>1. /\ f.header.type \notin {PUSH_PROMISE, GOAWAY} /\ f.header.type # SETTINGS
        /\ f.header.type \notin {RST_STREAM, GOAWAY, WINDOW_UPDATE}
    BY DEF PING, CONTINUATION, PUSH_PROMISE, GOAWAY, RST_STREAM, WINDOW_UPDATE, SETTINGS
  <2>2. f \in Frame
    BY DEF Usual
  <2>3. f.data \in Seq(Octet)
    BY <2>2 DEF Frame
  <2> QED
    BY <2>1, <2>2, <2>3 DEF Usual
<1>3. h.type = f.header.type /\ Len(p) = h.length /\ p = f.data
  BY <1>1, <1>2, ArrivingFields, PayloadByType
<1>4. ~HasPadding(f.header) /\ ~HasPriority(f.header) /\ f.header.type # WINDOW_UPDATE /\ Low31(f.stream) = 0
  BY <1>2, TypesDiffer, Low31Zero DEF HasPadding, HasPriority
<1>5. Canonical(f) = FrameOf(h, 0, NoPriority, 0, 0, <<>>, p, FALSE)
  BY <1>1, <1>2, <1>3, <1>4, CanonicalFields
<1>6. g = FrameOf(h, 0, NoPriority, 0, 0, <<>>, p, FALSE)
  BY <1>1, ParsedFields
<1>7. CASE f.header.type = PING
  <2>0. h.type = PING /\ Len(p) = h.length
    BY <1>3, <1>7
  <2>1. Unmarshal(h, p) = Accept(Len(p) = PingLength, OctetsFrame(h, p))
    BY <2>0, UnmarshalByType
  <2>2. Unmarshal(h, p) = {g}
    BY <1>1, <1>2, <1>3, <1>7, <2>1 DEF Accept
  <2> QED
    BY <1>1, <1>2, <1>3, <1>5, <1>6, <2>2 DEF Reads
<1>8. CASE f.header.type = CONTINUATION
  <2>0. h.type = CONTINUATION /\ Len(p) = h.length
    BY <1>3, <1>8
  <2>1. Unmarshal(h, p) = {g}
    BY <1>1, <2>0, UnmarshalByType
  <2> QED
    BY <1>1, <1>2, <1>3, <1>5, <1>6, <2>1 DEF Reads
<1> QED
  BY <1>7, <1>8

LEMMA SettingsReads ==
    ASSUME NEW f, Usual(f), ~f.raw, f.header.type = SETTINGS
    PROVE  Reads(f)
<1>1. PICK p, h, settings : p = Payload(f) /\ h = Arriving(f) /\ settings = f.settings
  OBVIOUS
<1> DEFINE read == [i \in 1..(Len(p) \div SettingLength) |->
                      ParseSetting(SubSeq(p, SettingLength * (i - 1) + 1, SettingLength * i))]
<1>2. /\ f \in Frame /\ f.stream = 0 /\ f.number = 0 /\ settings \in Seq(Setting) /\ f.data = <<>>
  <2>1. /\ f.header.type \notin {PUSH_PROMISE, GOAWAY}
        /\ f.header.type \in {PRIORITY, RST_STREAM, SETTINGS, WINDOW_UPDATE}
        /\ f.header.type \notin {RST_STREAM, GOAWAY, WINDOW_UPDATE}
    BY DEF PUSH_PROMISE, GOAWAY, RST_STREAM, WINDOW_UPDATE, SETTINGS
  <2>2. f \in Frame
    BY DEF Usual
  <2>3. settings \in Seq(Setting)
    BY <1>1, <2>2 DEF Frame
  <2> QED
    BY <2>1, <2>2, <2>3 DEF Usual
<1>3. h.type = f.header.type /\ Len(p) = h.length /\ p = SettingsOctets(settings)
  BY <1>1, <1>2, ArrivingFields, PayloadByType
<1>4. p \in Seq(Octet) /\ Len(p) = SettingLength * Len(settings) /\ read = settings
  BY <1>2, <1>3, SettingsRead
<1>5. Len(p) % SettingLength = 0
  BY <1>2, <1>4, SixthPlaces, LenProperties DEF SettingLength
<1>6. ~HasPadding(f.header) /\ ~HasPriority(f.header) /\ f.header.type # WINDOW_UPDATE /\ Low31(f.stream) = 0
  BY <1>2, TypesDiffer, Low31Zero DEF HasPadding, HasPriority
<1>7. Canonical(f) = FrameOf(h, 0, NoPriority, 0, 0, settings, <<>>, FALSE)
  BY <1>1, <1>2, <1>6, CanonicalFields
<1>8. Unmarshal(h, p) = {SettingsFrame(h, settings)}
  <2>1. Unmarshal(h, p) = Accept(Len(p) % SettingLength = 0, SettingsFrame(h, read))
    BY <1>3, UnmarshalByType
  <2> HIDE DEF read
  <2> QED
    BY <1>4, <1>5, <2>1 DEF Accept
<1>9. SettingsFrame(h, settings) = FrameOf(h, 0, NoPriority, 0, 0, settings, <<>>, FALSE)
  BY ParsedFields
<1> QED
  BY <1>1, <1>4, <1>7, <1>8, <1>9 DEF Reads

LEMMA GoAwayReads ==
    ASSUME NEW f, Usual(f), ~f.raw, f.header.type = GOAWAY
    PROVE  Reads(f)
<1>1. PICK p, h, stream, number, data :
        /\ p = Payload(f) /\ h = Arriving(f)
        /\ stream = Low31(f.stream) /\ number = f.number /\ data = f.data
  OBVIOUS
<1>2. /\ f \in Frame /\ f.stream \in Nat /\ number \in 0..MaxUint32 /\ data \in Seq(Octet)
      /\ f.settings = <<>>
  <2>1. f \in Frame
    BY DEF Usual
  <2>2. f.stream \in Nat /\ number \in 0..MaxUint32 /\ data \in Seq(Octet)
    BY <1>1, <2>1, Sizes DEF Frame
  <2>3. GOAWAY # SETTINGS
    BY DEF GOAWAY, SETTINGS
  <2> QED
    BY <2>1, <2>2, <2>3 DEF Usual
<1>3. h.type = f.header.type /\ Len(p) = h.length /\ p = GoAwayOctets(f.stream, number, data)
  BY <1>1, <1>2, ArrivingFields, PayloadByType
<1>4. stream \in 0..MaxUint32 /\ Low31(stream) = stream
  BY <1>1, <1>2, Low31Small
<1>5. PICK a, b : a = PutUint32(stream) /\ b = PutUint32(number)
  OBVIOUS
<1>6. PICK front : front = a \o b
  OBVIOUS
<1>7. p = front \o data
  BY <1>1, <1>3, <1>5, <1>6 DEF GoAwayOctets
<1>8. /\ a \in Seq(Octet) /\ Len(a) = 4 /\ b \in Seq(Octet) /\ Len(b) = 4
      /\ ReadUint32(front) = stream /\ ReadUint32(b) = number
  BY <1>2, <1>4, <1>5, <1>6, NumberThen, EmptySeq
<1>9. Joined(Octet, front, a, b)
  BY <1>6, <1>8, ConcatJoins
<1>10. front \in Seq(Octet) /\ Len(front) = 8 /\ \A i \in 1..4 : front[4 + i] = b[i]
  BY <1>8, <1>9 DEF Joined
<1>11. Joined(Octet, p, front, data)
  BY <1>2, <1>7, <1>10, ConcatJoins
<1>12. /\ p \in Seq(Octet) /\ Len(p) = 8 + Len(data) /\ Len(data) \in Nat
       /\ \A i \in 1..8 : p[i] = front[i]
       /\ \A i \in 1..Len(data) : p[8 + i] = data[i]
  BY <1>10, <1>11 DEF Joined
<1>13. ReadUint32(p) = stream
  <2>1. ReadUint32(p) = ReadUint32(front)
    BY <1>12 DEF ReadUint32, ReadUint24, ReadUint16
  <2> QED
    BY <1>8, <2>1
<1>14. SubSeq(p, 5, 8) = b
  <2>1. PICK from, to : from = 4 /\ to = 8 /\ from + 1 = 5
    OBVIOUS
  <2>2. \A i \in 1..4 : p[from + i] = b[i]
    BY <1>10, <1>12, <2>1
  <2>3. SubSeq(p, from + 1, to) = b
    BY <1>8, <1>12, <2>1, <2>2, PartAt
  <2> QED
    BY <2>1, <2>3
<1>15. SubSeq(p, 9, Len(p)) = data
  <2>1. PICK from : from = 8 /\ from + 1 = 9
    OBVIOUS
  <2>2. SubSeq(p, from + 1, Len(p)) = data
    BY <1>2, <1>12, <2>1, PartAt
  <2> QED
    BY <2>1, <2>2
<1>16. Unmarshal(h, p) = {GoAwayFrame(h, stream, number, data)}
  <2>1. Unmarshal(h, p) = Accept(Len(p) >= 8,
          GoAwayFrame(h, Low31(ReadUint32(p)), ReadUint32(SubSeq(p, 5, 8)), SubSeq(p, 9, Len(p))))
    <3>1. h.type = GOAWAY /\ Len(p) = h.length
      BY <1>3
    <3> QED
      BY <3>1, UnmarshalByType
  <2>2. Low31(ReadUint32(p)) = stream /\ ReadUint32(SubSeq(p, 5, 8)) = number
    BY <1>4, <1>8, <1>13, <1>14
  <2>3. Len(p) >= 8
    BY <1>12
  <2> QED
    BY <1>15, <2>1, <2>2, <2>3 DEF Accept
<1>17. ~HasPadding(f.header) /\ ~HasPriority(f.header) /\ f.header.type # WINDOW_UPDATE
  BY TypesDiffer DEF HasPadding, HasPriority
<1>18. Canonical(f) = FrameOf(h, 0, NoPriority, stream, number, <<>>, data, FALSE)
  BY <1>1, <1>2, <1>17, CanonicalFields
<1>19. GoAwayFrame(h, stream, number, data) = FrameOf(h, 0, NoPriority, stream, number, <<>>, data, FALSE)
  BY ParsedFields
<1> QED
  BY <1>1, <1>12, <1>16, <1>18, <1>19 DEF Reads

LEMMA FramesAreRead ==
    ASSUME NEW f, Usual(f), ~f.raw
    PROVE  Reads(f)
<1>1. f.header.type \in {DATA, HEADERS, PRIORITY, RST_STREAM, SETTINGS, PUSH_PROMISE, PING, GOAWAY,
                         WINDOW_UPDATE, CONTINUATION}
  BY DEF Usual, KnownTypes, DATA, HEADERS, PRIORITY, RST_STREAM, SETTINGS, PUSH_PROMISE, PING, GOAWAY,
     WINDOW_UPDATE, CONTINUATION
<1> QED
  BY <1>1, DataReads, HeadersReads, PushPromiseReads, FixedReads, OctetsReads, SettingsReads, GoAwayReads

(***************************************************************************)
(* Headers, and whole frames                                               *)
(***************************************************************************)
LEMMA HeaderReads ==
    ASSUME NEW length \in 0..MaxUint24, NEW type \in Octet, NEW flags \in Octet, NEW stream \in Nat,
           NEW h, h = [length |-> length, type |-> type, flags |-> flags, stream |-> stream],
           NEW s \in MarshalHeader(h)
    PROVE  /\ s \in Seq(Octet) /\ Len(s) = HeaderLength
           /\ ParseHeader(s) = [length |-> length, type |-> type, flags |-> flags,
                                stream |-> Low31(stream)]
<1>1. h.length = length /\ h.type = type /\ h.flags = flags /\ h.stream = stream
  OBVIOUS
<1>2. PICK a, b, c, id : /\ a = PutUint24(length) /\ b = <<type, flags>>
                         /\ id = Low31(stream) /\ c = PutUint32(id)
  OBVIOUS
<1>3. PICK front : front = a \o b
  OBVIOUS
<1>4. s = front \o c
  BY <1>1, <1>2, <1>3 DEF MarshalHeader
<1>5. length \in Nat /\ id \in 0..MaxUint32 /\ id \in Nat /\ Low31(id) = id
  BY <1>2, Low31Small, Sizes
<1>6. /\ a \in Seq(Octet) /\ Len(a) = 3 /\ c \in Seq(Octet) /\ Len(c) = 4
      /\ b \in Seq(Octet) /\ Len(b) = 2 /\ b[1] = type /\ b[2] = flags
  <2>1. a \in Seq(Octet) /\ Len(a) = 3 /\ c \in Seq(Octet) /\ Len(c) = 4
    BY <1>2, <1>5, Put24, Put32
  <2>2. b \in Seq(Octet) /\ Len(b) = 2 /\ b[1] = type /\ b[2] = flags
    BY <1>2
  <2> QED
    BY <2>1, <2>2
<1>7. /\ front \in Seq(Octet) /\ Len(front) = 5
      /\ \A i \in 1..3 : front[i] = a[i]
      /\ \A i \in 1..2 : front[3 + i] = b[i]
  <2>1. Joined(Octet, front, a, b)
    BY <1>3, <1>6, ConcatJoins
  <2> QED
    BY <1>6, <2>1 DEF Joined
<1>8. /\ s \in Seq(Octet) /\ Len(s) = 9
      /\ \A i \in 1..5 : s[i] = front[i]
      /\ \A i \in 1..4 : s[5 + i] = c[i]
  <2>1. Joined(Octet, s, front, c)
    BY <1>4, <1>6, <1>7, ConcatJoins
  <2> QED
    BY <1>6, <1>7, <2>1 DEF Joined
<1>9. ReadUint24(s) = length
  <2>1. s[1] = a[1] /\ s[2] = a[2] /\ s[3] = a[3]
    BY <1>7, <1>8
  <2> QED
    BY <1>2, <2>1, Read24
<1>10. s[4] = type /\ s[5] = flags
  BY <1>6, <1>7, <1>8
<1>11. SubSeq(s, 6, 9) = c
  <2>1. PICK from, to : from = 5 /\ to = 9 /\ from + 1 = 6
    OBVIOUS
  <2>2. \A i \in 1..4 : s[from + i] = c[i]
    BY <1>8, <2>1
  <2>3. SubSeq(s, from + 1, to) = c
    BY <1>6, <1>8, <2>1, <2>2, PartAt
  <2> QED
    BY <2>1, <2>3
<1>12. ReadUint32(SubSeq(s, 6, 9)) = id
  BY <1>2, <1>5, <1>11, NumberThen, EmptySeq
<1> QED
  BY <1>2, <1>5, <1>8, <1>9, <1>10, <1>12 DEF ParseHeader, HeaderLength

\* Octets as Marshal makes them of a frame.
Carries(octets, f) ==
    /\ octets \in Seq(Octet) /\ Payload(f) \in Seq(Octet)
    /\ Len(octets) = HeaderLength + Len(Payload(f))
    /\ ParseHeader(SubSeq(octets, 1, HeaderLength)) = Arriving(f)
    /\ \A i \in 1..Len(Payload(f)) : octets[HeaderLength + i] = Payload(f)[i]

LEMMA MarshalCarries ==
    ASSUME NEW f, Usual(f), f.raw => f.header.length = Len(f.data) \/ f.header.length > MaxUint24,
           NEW octets \in Marshal(f)
    PROVE  Carries(octets, f)
<1>1. PICK p, n, h : /\ p = Payload(f) /\ n = Len(p)
                     /\ h = IF f.raw THEN f.header ELSE [f.header EXCEPT !.length = n]
  OBVIOUS
<1>2. f \in Frame /\ f.header \in Header /\ f.data \in Seq(Octet)
  BY DEF Usual, Frame
<1>3. p \in Seq(Octet) /\ n \in Nat
  <2>1. CASE f.raw
    BY <1>1, <1>2, <2>1, LenProperties DEF Payload
  <2>2. CASE ~f.raw
    BY <1>1, <2>2, FramesAreRead, LenProperties DEF Reads
  <2> QED
    BY <2>1, <2>2
<1>4. PICK s : s \in MarshalHeader(h) /\ octets = s \o p
  BY <1>1 DEF Marshal
<1>5. PICK type, flags, stream : type = f.header.type /\ flags = f.header.flags /\ stream = f.header.stream
  OBVIOUS
<1>6. type \in Octet /\ flags \in Octet /\ stream \in Nat /\ f.header.length \in Nat
  BY <1>2, <1>5, Sizes DEF Header
<1>7. ~(h.length > MaxUint24)
  BY <1>4 DEF MarshalHeader
<1>8. h = [length |-> n, type |-> type, flags |-> flags, stream |-> stream] /\ n \in 0..MaxUint24
  <2>1. f.header = [length |-> f.header.length, type |-> type, flags |-> flags, stream |-> stream]
    BY <1>2, <1>5 DEF Header
  <2>2. CASE f.raw
    <3>1. h = f.header /\ p = f.data
      BY <1>1, <2>2 DEF Payload
    <3>2. h.length = n
      BY <1>1, <1>7, <2>2, <3>1
    <3> QED
      BY <1>3, <1>7, <2>1, <3>1, <3>2, Sizes
  <2>3. CASE ~f.raw
    <3>1. h = [f.header EXCEPT !.length = n]
      BY <1>1, <2>3
    <3>2. h = [length |-> n, type |-> type, flags |-> flags, stream |-> stream]
      BY <2>1, <3>1
    <3> QED
      BY <1>3, <1>7, <3>2, Sizes
  <2> QED
    BY <2>2, <2>3
<1>9. /\ s \in Seq(Octet) /\ Len(s) = HeaderLength
      /\ ParseHeader(s) = [length |-> n, type |-> type, flags |-> flags, stream |-> Low31(stream)]
  BY <1>4, <1>6, <1>8, HeaderReads
<1>10. Joined(Octet, octets, s, p)
  BY <1>3, <1>4, <1>9, ConcatJoins
<1>11. SubSeq(octets, 1, HeaderLength) = s
  <2>1. PICK from, to : from = 0 /\ to = HeaderLength /\ from + 1 = 1 /\ to \in Nat
    BY DEF HeaderLength
  <2>2. /\ octets \in Seq(Octet) /\ to <= Len(octets) /\ to = from + Len(s)
        /\ \A i \in 1..Len(s) : octets[from + i] = s[i]
    BY <1>9, <1>10, <2>1 DEF Joined
  <2>3. SubSeq(octets, from + 1, to) = s
    BY <1>9, <2>1, <2>2, PartAt
  <2> QED
    BY <2>1, <2>3
<1>12. Arriving(f) = [length |-> n, type |-> type, flags |-> flags, stream |-> Low31(stream)]
  BY <1>1, <1>2, <1>5, ArrivingFields
<1> QED
  BY <1>1, <1>3, <1>9, <1>10, <1>11, <1>12 DEF Carries, Joined
=============================================================================
