------------------------- MODULE FrameParsingProofs -------------------------
(***************************************************************************)
(* What Unmarshal accepts, it keeps: for every header and every payload    *)
(* that fits its length, whatever the octets are.                          *)
(***************************************************************************)
EXTENDS FrameParsing, FrameCodecProofs

(***************************************************************************)
(* Parts of payloads                                                       *)
(***************************************************************************)
LEMMA NumberWrites ==
    ASSUME NEW s \in Seq(Octet), Len(s) >= 4
    PROVE  /\ ReadUint32(s) \in 0..MaxUint32 /\ PutUint32(ReadUint32(s)) = <<s[1], s[2], s[3], s[4]>>
           /\ s[1] \in Octet /\ s[2] \in Octet /\ s[3] \in Octet /\ s[4] \in Octet
<1>1. Len(s) \in Nat /\ \A i \in 1..Len(s) : s[i] \in Octet
  BY LenProperties
<1>2. s[1] \in Octet /\ s[2] \in Octet /\ s[3] \in Octet /\ s[4] \in Octet
  BY <1>1
<1> QED
  BY <1>2, Write32

LEMMA NumberIsNat ==
    ASSUME NEW s \in Seq(Octet), Len(s) >= 4
    PROVE  ReadUint32(s) \in Nat
<1>1. ReadUint32(s) \in 0..MaxUint32
  BY NumberWrites
<1> QED
  BY <1>1, Sizes

\* The first octet of four is above the other three.
LEMMA FirstOctet ==
    ASSUME NEW a \in Octet, NEW b \in Octet, NEW c \in Octet, NEW d \in Octet
    PROVE  ReadUint32(<<a, b, c, d>>) = a * (MaxUint24 + 1) + ReadUint24(<<b, c, d>>)
<1>1. /\ ReadUint32(<<a, b, c, d>>) = ((a * Base + b) * Base + c) * Base + d
      /\ ReadUint24(<<b, c, d>>) = (b * Base + c) * Base + d
  BY DEF ReadUint32, ReadUint24, ReadUint16
<1>2. CASE Base = 64
  BY <1>1, <1>2, SMT DEF MaxUint24, Octet
<1>3. CASE Base = 256
  BY <1>1, <1>3, SMT DEF MaxUint24, Octet
<1> QED
  BY <1>2, <1>3, BaseAssumption

\* Without the reserved bit, the other octets stay.
LEMMA Low31Writes ==
    ASSUME NEW s \in Seq(Octet), Len(s) >= 4
    PROVE  /\ PutUint32(Low31(ReadUint32(s))) = <<s[1] % (Base \div 2), s[2], s[3], s[4]>>
           /\ s[1] % (Base \div 2) \in Octet
<1>1. PICK a, b, c, d : a = s[1] /\ b = s[2] /\ c = s[3] /\ d = s[4]
  OBVIOUS
<1>2. a \in Octet /\ b \in Octet /\ c \in Octet /\ d \in Octet
  BY <1>1, NumberWrites
<1>3. PICK low, e : low = ReadUint24(<<b, c, d>>) /\ e = a % (Base \div 2)
  OBVIOUS
<1>4. low \in 0..MaxUint24
  BY <1>2, <1>3, Write24
<1>5. e \in Octet /\ (a * (MaxUint24 + 1) + low) % HighBit = e * (MaxUint24 + 1) + low
  BY <1>2, <1>3, <1>4, LowOctets
<1>6. ReadUint32(s) = a * (MaxUint24 + 1) + low
  <2>1. ReadUint32(s) = ReadUint32(<<a, b, c, d>>)
    BY <1>1 DEF ReadUint32, ReadUint24, ReadUint16
  <2> QED
    BY <1>2, <1>3, <2>1, FirstOctet
<1>7. Low31(ReadUint32(s)) = ReadUint32(<<e, b, c, d>>)
  <2>1. ReadUint32(<<e, b, c, d>>) = e * (MaxUint24 + 1) + low
    BY <1>2, <1>3, <1>5, FirstOctet
  <2> QED
    BY <1>5, <1>6, <2>1 DEF Low31
<1>8. PutUint32(ReadUint32(<<e, b, c, d>>)) = <<e, b, c, d>>
  <2>1. PICK t : t = <<e, b, c, d>>
    OBVIOUS
  <2>2. t[1] = e /\ t[2] = b /\ t[3] = c /\ t[4] = d
    BY <2>1
  <2>3. PutUint32(ReadUint32(t)) = <<t[1], t[2], t[3], t[4]>>
    BY <1>2, <1>5, <2>2, Write32
  <2> QED
    BY <2>1, <2>2, <2>3
<1> QED
  BY <1>1, <1>3, <1>5, <1>7, <1>8

LEMMA PriorityWrites ==
    ASSUME NEW s \in Seq(Octet), Len(s) = PriorityLength
    PROVE  PriorityOctets(ParsePriority(s)) = s
<1>1. PICK v, dep, last, whole :
        v = ReadUint32(s) /\ dep = Low31(v) /\ last = s[5] /\ whole = PriorityOctets(ParsePriority(s))
  OBVIOUS
<1>2. Len(s) = 5 /\ Len(s) >= 4 /\ last \in Octet
  <2>1. Len(s) = 5 /\ 5 \in 1..Len(s) /\ Len(s) >= 4
    BY DEF PriorityLength
  <2>2. s \in [1..Len(s) -> Octet]
    BY LenProperties
  <2> QED
    BY <1>1, <2>1, <2>2
<1>3. PICK number : number = <<s[1], s[2], s[3], s[4]>>
  OBVIOUS
<1>4. /\ v \in 0..MaxUint32 /\ v \in Nat /\ PutUint32(v) = number
      /\ s[1] \in Octet /\ s[2] \in Octet /\ s[3] \in Octet /\ s[4] \in Octet
  <2>1. /\ v \in 0..MaxUint32 /\ PutUint32(v) = <<s[1], s[2], s[3], s[4]>>
        /\ s[1] \in Octet /\ s[2] \in Octet /\ s[3] \in Octet /\ s[4] \in Octet
    BY <1>1, <1>2, NumberWrites
  <2> QED
    BY <1>3, <2>1, Sizes
<1>5. Low31(dep) = dep /\ dep \in Nat
  BY <1>1, <1>4, Low31Small
<1>6. v = dep + (IF v >= HighBit THEN HighBit ELSE 0)
  <2>1. CASE v >= HighBit
    <3>1. PICK x : x = v - HighBit /\ x \in Nat /\ x < HighBit /\ v = HighBit + x
      BY <1>4, <2>1, Sizes
    <3>2. dep = x
      BY <1>1, <3>1, Sizes, Modulo DEF Low31
    <3> QED
      BY <1>4, <2>1, <3>1, <3>2, Sizes
  <2>2. CASE v < HighBit
    <3>1. dep = v
      BY <1>1, <1>4, <2>2, Sizes, Modulo DEF Low31
    <3> QED
      BY <1>4, <2>2, <3>1, Sizes
  <2> QED
    BY <1>4, <2>1, <2>2, Sizes
<1>7. whole = number \o <<last>>
  <2>1. PICK p : p = ParsePriority(s)
    OBVIOUS
  <2>2. p.dep = dep /\ (p.exclusive <=> v >= HighBit) /\ p.weight = last
    BY <1>1, <2>1 DEF ParsePriority
  <2>3. Low31(p.dep) + (IF p.exclusive THEN HighBit ELSE 0) = v
    BY <1>5, <1>6, <2>2
  <2> QED
    BY <1>1, <1>4, <2>1, <2>2, <2>3 DEF PriorityOctets
<1>8. number \in Seq(Octet) /\ Len(number) = 4 /\ <<last>> \in Seq(Octet) /\ Len(<<last>>) = 1
      /\ <<last>>[1] = last /\ \A i \in 1..4 : number[i] = s[i]
  BY <1>2, <1>3, <1>4
<1>9. Joined(Octet, whole, number, <<last>>)
  BY <1>7, <1>8, ConcatJoins
<1>10. whole \in Seq(Octet) /\ Len(whole) = 5 /\ \A i \in 1..4 : whole[i] = s[i]
  BY <1>8, <1>9 DEF Joined
<1>11. whole[4 + 1] = last
  BY <1>8, <1>9 DEF Joined
<1>12. \A i \in 1..5 : whole[i] = s[i]
  BY <1>1, <1>10, <1>11
<1>13. whole = s
  BY <1>2, <1>10, <1>12, SeqEqual
<1> QED
  BY <1>1, <1>13

\* A part of a payload.
PartOf(part, p, from, to) ==
    /\ part \in Seq(Octet) /\ Len(part) = to - from
    /\ \A i \in 1..(to - from) : part[i] = p[from + i]

LEMMA SubSeqIsPart ==
    ASSUME NEW p \in Seq(Octet), NEW from \in Nat, NEW to \in Nat, from <= to, to <= Len(p)
    PROVE  PartOf(SubSeq(p, from + 1, to), p, from, to)
<1>1. /\ SubSeq(p, from + 1, to) \in Seq(Octet)
      /\ Len(SubSeq(p, from + 1, to)) = IF from <= to THEN to - from ELSE 0
      /\ \A i \in 1..(to - from) : SubSeq(p, from + 1, to)[i] = p[from + i]
  BY SubSequence
<1> QED
  BY <1>1 DEF PartOf

LEMMA FunctionLength ==
    ASSUME NEW S, NEW n \in Nat, NEW s \in [1..n -> S]
    PROVE  Len(s) = n
OBVIOUS

LEMMA SettingWrites ==
    ASSUME NEW s \in Seq(Octet), Len(s) = 6
    PROVE  SettingOctets(ParseSetting(s)) = s
<1>1. PICK t, v, id, whole :
        /\ t = SubSeq(s, 3, 6) /\ v = ReadUint32(t) /\ id = ReadUint16(s)
        /\ whole = SettingOctets(ParseSetting(s))
  OBVIOUS
<1>2. s[1] \in Octet /\ s[2] \in Octet
  <2>1. 1 \in 1..Len(s) /\ 2 \in 1..Len(s)
    OBVIOUS
  <2>2. s \in [1..Len(s) -> Octet]
    BY LenProperties
  <2> QED
    BY <2>1, <2>2
<1>3. t \in Seq(Octet) /\ Len(t) = 4 /\ Len(t) >= 4 /\ \A i \in 1..4 : t[i] = s[2 + i]
  <2>1. PICK from, to : from = 2 /\ to = 6 /\ from + 1 = 3 /\ to - from = 4
    OBVIOUS
  <2>2. from \in Nat /\ to \in Nat /\ from <= to /\ to <= Len(s)
    BY <2>1
  <2>3. PartOf(SubSeq(s, from + 1, to), s, from, to)
    BY <2>2, SubSeqIsPart
  <2>4. PartOf(t, s, from, to)
    BY <1>1, <2>1, <2>3
  <2> QED
    BY <2>1, <2>4 DEF PartOf
<1>4. PutUint16(id) = <<s[1], s[2]>>
  BY <1>1, <1>2, Write16
<1>5. PutUint32(v) = <<t[1], t[2], t[3], t[4]>> /\ t[1] \in Octet /\ t[2] \in Octet
      /\ t[3] \in Octet /\ t[4] \in Octet
  BY <1>1, <1>3, NumberWrites
<1>6. PICK a, b : a = PutUint16(id) /\ b = PutUint32(v)
  OBVIOUS
<1>7. whole = a \o b
  BY <1>1, <1>6 DEF SettingOctets, ParseSetting
<1>8. /\ a \in Seq(Octet) /\ Len(a) = 2 /\ \A i \in 1..2 : a[i] = s[i]
      /\ b \in Seq(Octet) /\ Len(b) = 4 /\ \A i \in 1..4 : b[i] = s[2 + i]
  <2>1. a \in Seq(Octet) /\ Len(a) = 2 /\ \A i \in 1..2 : a[i] = s[i]
    BY <1>2, <1>4, <1>6
  <2>2. b \in Seq(Octet) /\ Len(b) = 4 /\ \A i \in 1..4 : b[i] = t[i]
    BY <1>5, <1>6
  <2> QED
    BY <1>3, <2>1, <2>2
<1>9. Joined(Octet, whole, a, b)
  BY <1>7, <1>8, ConcatJoins
<1>10. /\ whole \in Seq(Octet) /\ Len(whole) = 6
       /\ \A i \in 1..2 : whole[i] = a[i]
       /\ \A i \in 1..4 : whole[2 + i] = b[i]
  BY <1>8, <1>9 DEF Joined
<1>11. ASSUME NEW i \in 1..6 PROVE whole[i] = s[i]
  <2>1. CASE i <= 2
    BY <1>8, <1>10, <2>1
  <2>2. CASE i > 2
    <3>1. PICK j : j = i - 2 /\ j \in 1..4 /\ 2 + j = i
      BY <2>2
    <3> QED
      BY <1>8, <1>10, <3>1
  <2> QED
    BY <2>1, <2>2
<1>12. whole = s
  BY <1>10, <1>11, SeqEqual
<1> QED
  BY <1>1, <1>12

LEMMA Sixths ==
    /\ \A n \in Nat : n % 6 = 0 => n = 6 * (n \div 6) /\ n \div 6 \in Nat
    /\ \A k \in Nat \ {0} : 6 * ((1 + ((k - 1) \div 6)) - 1) + (1 + ((k - 1) % 6)) = k
OBVIOUS

LEMMA SettingsWrite ==
    ASSUME NEW p \in Seq(Octet), Len(p) % SettingLength = 0, NEW settings,
           settings = [i \in 1..(Len(p) \div SettingLength) |->
                         ParseSetting(SubSeq(p, SettingLength * (i - 1) + 1, SettingLength * i))]
    PROVE  SettingsOctets(settings) = p
<1>1. PICK n : n = Len(p) \div 6
  OBVIOUS
<1>2. n \in Nat /\ Len(p) = 6 * n
  BY <1>1, Sixths, LenProperties DEF SettingLength
<1>3. settings = [i \in 1..n |-> ParseSetting(SubSeq(p, 6 * (i - 1) + 1, 6 * i))]
  BY <1>1 DEF SettingLength
<1>4. Len(settings) = n
  <2> DEFINE e(i) == ParseSetting(SubSeq(p, 6 * (i - 1) + 1, 6 * i))
             S == {e(i) : i \in 1..n}
  <2>1. settings = [i \in 1..n |-> e(i)]
    BY <1>3
  <2> HIDE DEF e
  <2>2. settings \in [1..n -> S]
    BY <2>1
  <2> HIDE DEF S
  <2> QED
    BY <1>2, <2>2, FunctionLength
<1>5. ASSUME NEW k \in 1..(6 * n)
      PROVE  SettingOctets(settings[1 + ((k - 1) \div 6)])[1 + ((k - 1) % 6)] = p[k]
  <2>1. PICK i, j : i = 1 + ((k - 1) \div 6) /\ j = 1 + ((k - 1) % 6)
    OBVIOUS
  <2>2. i \in 1..n /\ j \in 1..6
    BY <1>2, <2>1, SixthPlaces
  <2>3. k \in Nat \ {0} /\ 6 * (i - 1) + j = k
    BY <1>2, <2>1, Sixths
  <2>4. PICK from, to, part : from = 6 * (i - 1) /\ to = 6 * i /\ part = SubSeq(p, from + 1, to)
    OBVIOUS
  <2>5. from \in Nat /\ to \in Nat /\ to - from = 6 /\ from <= to /\ to <= Len(p)
    BY <1>2, <2>2, <2>4
  <2>6. part \in Seq(Octet) /\ Len(part) = 6 /\ \A m \in 1..6 : part[m] = p[from + m]
    <3>1. PartOf(part, p, from, to)
      BY <2>4, <2>5, SubSeqIsPart
    <3> QED
      BY <2>5, <3>1 DEF PartOf
  <2>7. settings[i] = ParseSetting(part)
    BY <1>3, <2>2, <2>4
  <2>8. SettingOctets(settings[i]) = part
    BY <2>6, <2>7, SettingWrites
  <2>9. part[j] = p[k]
    BY <2>2, <2>3, <2>4, <2>6
  <2> QED
    BY <2>1, <2>8, <2>9
<1>6. SettingsOctets(settings) = [k \in 1..(6 * n) |-> p[k]]
  BY <1>4, <1>5 DEF SettingsOctets, SettingLength
<1>7. p = [k \in 1..(6 * n) |-> p[k]]
  BY <1>2, LenProperties
<1> QED
  BY <1>6, <1>7

\* Where the octets of a padded payload come from.
Echoes(w, p, h, n, fixed) ==
    /\ w \in Seq(Octet) /\ Len(w) = Len(p)
    /\ \A i \in 1..Len(p) :
          w[i] = IF IsPadded(h) /\ i > Len(p) - p[1] THEN 0
                 ELSE IF i > PadOffset(h) /\ i <= PadOffset(h) + n THEN fixed[i - PadOffset(h)]
                 ELSE p[i]

\* The pad length that Fits allows.
LEMMA PadFits ==
    ASSUME NEW h, NEW n \in Nat, NEW p \in Seq(Octet), Fits(h, n, p)
    PROVE  /\ PadOffset(h) \in Nat /\ PadLength(h, p) \in Octet /\ PadLength(h, p) \in Nat
           /\ PadOffset(h) = (IF IsPadded(h) THEN 1 ELSE 0)
           /\ PadLength(h, p) = (IF IsPadded(h) THEN p[1] ELSE 0)
           /\ Len(p) \in Nat
           /\ Len(p) >= PadOffset(h) + n + PadLength(h, p)
<1>1. Len(p) \in Nat /\ p \in [1..Len(p) -> Octet]
  BY LenProperties
<1>2. IsPadded(h) => p[1] \in Octet
  <2>1. IsPadded(h) => Len(p) >= 1 + n
    BY DEF Fits, PadOffset
  <2>2. IsPadded(h) => 1 \in 1..Len(p)
    BY <1>1, <2>1
  <2> QED
    BY <1>1, <2>2
<1>3. 0 \in Octet /\ Octet \subseteq Nat
  BY Sizes, OctetIsSmall DEF Octet
<1> QED
  BY <1>1, <1>2, <1>3 DEF PadOffset, PadLength, Fits

LEMMA FixedPartIs ==
    ASSUME NEW h, NEW n \in Nat, NEW p \in Seq(Octet), Fits(h, n, p)
    PROVE  /\ FixedPart(h, n, p) \in Seq(Octet) /\ Len(FixedPart(h, n, p)) = n
           /\ \A i \in 1..n : FixedPart(h, n, p)[i] = p[PadOffset(h) + i]
<1>1. PICK from, to, part :
        from = PadOffset(h) /\ to = PadOffset(h) + n /\ part = FixedPart(h, n, p)
  OBVIOUS
<1>2. from \in Nat /\ to \in Nat /\ to - from = n /\ from <= to /\ to <= Len(p)
  BY <1>1, PadFits
<1>3. part = SubSeq(p, from + 1, to)
  BY <1>1 DEF FixedPart
<1>4. part \in Seq(Octet) /\ Len(part) = n /\ \A i \in 1..n : part[i] = p[from + i]
  BY <1>2, <1>3, SubSequence
<1> QED
  BY <1>1, <1>4

LEMMA ContentIs ==
    ASSUME NEW h, NEW n \in Nat, NEW p \in Seq(Octet), Fits(h, n, p)
    PROVE  /\ Content(h, n, p) \in Seq(Octet)
           /\ PadOffset(h) + n + Len(Content(h, n, p)) + PadLength(h, p) = Len(p)
           /\ \A i \in 1..Len(Content(h, n, p)) : Content(h, n, p)[i] = p[PadOffset(h) + n + i]
<1>1. PICK from, to, part :
        from = PadOffset(h) + n /\ to = Len(p) - PadLength(h, p) /\ part = Content(h, n, p)
  OBVIOUS
<1>2. /\ from \in Nat /\ to \in Nat /\ from <= to /\ to <= Len(p)
      /\ PadLength(h, p) \in Nat /\ Len(p) \in Nat
  BY <1>1, PadFits
<1>3. part = SubSeq(p, from + 1, to)
  BY <1>1 DEF Content
<1>4. part \in Seq(Octet) /\ Len(part) = to - from /\ \A i \in 1..(to - from) : part[i] = p[from + i]
  BY <1>2, <1>3, SubSeqIsPart DEF PartOf
<1>5. from + Len(part) + PadLength(h, p) = Len(p)
  <2>1. Len(part) = Len(p) - PadLength(h, p) - from
    BY <1>1, <1>2, <1>4
  <2> QED
    BY <1>2, <2>1
<1> QED
  BY <1>1, <1>4, <1>5

\* A payload with a pad length is written again with zeros for its padding.
LEMMA PaddedWrites ==
    ASSUME NEW h, NEW n \in Nat, NEW p \in Seq(Octet), Fits(h, n, p),
           NEW fixed \in Seq(Octet), Len(fixed) = n,
           NEW f, f.header = h, f.pad = PadLength(h, p),
           NEW w, w = Padded(f, fixed \o Content(h, n, p))
    PROVE  Echoes(w, p, h, n, fixed)
<1>1. PICK rest, pad, content :
        rest = Content(h, n, p) /\ pad = PadLength(h, p) /\ content = fixed \o rest
  OBVIOUS
<1>2. /\ rest \in Seq(Octet) /\ Len(rest) \in Nat /\ PadOffset(h) + n + Len(rest) + pad = Len(p)
      /\ \A i \in 1..Len(rest) : rest[i] = p[PadOffset(h) + n + i]
  BY <1>1, ContentIs, LenProperties
<1>3. /\ pad \in Octet /\ pad \in Nat /\ Len(p) \in Nat
      /\ PadOffset(h) = (IF IsPadded(h) THEN 1 ELSE 0) /\ pad = (IF IsPadded(h) THEN p[1] ELSE 0)
  BY <1>1, PadFits
<1>4. /\ content \in Seq(Octet) /\ Len(content) = n + Len(rest)
      /\ \A i \in 1..n : content[i] = fixed[i]
      /\ \A i \in 1..Len(rest) : content[n + i] = rest[i]
  <2>1. Joined(Octet, content, fixed, rest)
    BY <1>1, <1>2, ConcatJoins
  <2> QED
    BY <2>1 DEF Joined
<1>5. CASE ~IsPadded(h)
  <2>1. w = content /\ PadOffset(h) = 0 /\ pad = 0
    BY <1>1, <1>3, <1>5 DEF Padded
  <2>2. Len(w) = Len(p)
    BY <1>2, <1>4, <2>1
  <2>3. ASSUME NEW i \in 1..Len(p) PROVE w[i] = IF i > 0 /\ i <= 0 + n THEN fixed[i - 0] ELSE p[i]
    <3>1. CASE i <= n
      <4>1. i \in 1..n /\ i - 0 = i /\ i > 0 /\ i <= 0 + n
        BY <3>1
      <4> QED
        BY <1>4, <2>1, <4>1
    <3>2. CASE i > n
      <4>1. PICK j : j = i - n /\ j \in 1..Len(rest) /\ n + j = i /\ 0 + n + j = i
        BY <1>2, <1>4, <2>1, <2>2, <3>2
      <4>2. ~(i <= 0 + n)
        BY <3>2
      <4>3. w[i] = rest[j]
        BY <1>4, <2>1, <4>1
      <4>4. rest[j] = p[i]
        BY <1>2, <2>1, <4>1
      <4> QED
        BY <4>2, <4>3, <4>4
    <3> QED
      BY <3>1, <3>2
  <2> QED
    BY <1>4, <1>5, <2>1, <2>2, <2>3 DEF Echoes
<1>6. CASE IsPadded(h)
  <2>1. PICK lead, pads : lead = <<pad>> /\ pads = [i \in 1..pad |-> 0]
    OBVIOUS
  <2>2. PICK front : front = lead \o content
    OBVIOUS
  <2>3. w = front \o pads
    <3>1. f.pad = pad
      BY <1>1
    <3> QED
      BY <1>1, <1>6, <2>1, <2>2, <3>1 DEF Padded
  <2>4. /\ lead \in Seq(Octet) /\ Len(lead) = 1 /\ lead[1] = pad
    BY <1>3, <2>1
  <2>5. pads \in Seq(Octet) /\ Len(pads) = pad /\ \A i \in 1..pad : pads[i] = 0
    <3>1. 0 \in Octet
      BY Sizes DEF Octet
    <3>2. pads \in [1..pad -> Octet] /\ \A i \in 1..pad : pads[i] = 0
      BY <2>1, <3>1
    <3> QED
      BY <1>3, <3>2, SMTT(20)
  <2>6. /\ front \in Seq(Octet) /\ Len(front) = 1 + (n + Len(rest)) /\ front[1] = pad
        /\ \A i \in 1..(n + Len(rest)) : front[1 + i] = content[i]
    <3>1. Joined(Octet, front, lead, content)
      BY <1>4, <2>2, <2>4, ConcatJoins
    <3>2. /\ front \in Seq(Octet) /\ Len(front) = 1 + (n + Len(rest))
          /\ \A i \in 1..1 : front[i] = lead[i]
          /\ \A i \in 1..(n + Len(rest)) : front[1 + i] = content[i]
      BY <1>4, <2>4, <3>1 DEF Joined
    <3> QED
      BY <2>4, <3>2
  <2>7. /\ w \in Seq(Octet) /\ Len(w) = Len(front) + pad
        /\ \A i \in 1..Len(front) : w[i] = front[i]
        /\ \A i \in 1..pad : w[Len(front) + i] = 0
    <3>1. Joined(Octet, w, front, pads)
      BY <2>3, <2>5, <2>6, ConcatJoins
    <3> QED
      BY <2>5, <3>1 DEF Joined
  <2>8. pad = p[1] /\ PadOffset(h) = 1 /\ Len(front) = Len(p) - pad /\ Len(w) = Len(p)
    BY <1>2, <1>3, <1>6, <2>6, <2>7
  <2>9. ASSUME NEW i \in 1..Len(p)
        PROVE  w[i] = IF i > Len(p) - pad THEN 0
                      ELSE IF i > 1 /\ i <= 1 + n THEN fixed[i - 1] ELSE p[i]
    <3>1. CASE i > Len(p) - pad
      <4>1. PICK x, m, j : x = Len(front) /\ m = Len(p) /\ j = i - x
        OBVIOUS
      <4>2. m \in Nat /\ pad \in Nat /\ x = m - pad /\ i > m - pad /\ i \in 1..m
        BY <1>3, <2>8, <3>1, <4>1
      <4>3. j \in 1..pad /\ x + j = i
        BY <4>1, <4>2
      <4> QED
        BY <2>7, <3>1, <4>1, <4>3
    <3>2. CASE i = 1
      <4>1. 1 \in 1..Len(front) /\ ~(i > Len(p) - pad) /\ ~(i > 1)
        BY <1>2, <2>6, <2>8, <3>2
      <4> QED
        BY <2>6, <2>7, <2>8, <3>2, <4>1
    <3>3. CASE i > 1 /\ i <= 1 + n
      <4>1. PICK j : j = i - 1 /\ j \in 1..n /\ j \in 1..(n + Len(rest)) /\ 1 + j = i
        BY <1>2, <3>3
      <4>2. i \in 1..Len(front) /\ ~(i > Len(p) - pad)
        BY <1>2, <1>3, <2>6, <2>8, <3>3, SMTT(20)
      <4>3. w[i] = content[j]
        BY <2>6, <2>7, <4>1, <4>2
      <4> QED
        BY <1>4, <3>3, <4>1, <4>2, <4>3
    <3>4. CASE i > 1 + n /\ ~(i > Len(p) - pad)
      <4>0. PICK j : j = i - (1 + n)
        OBVIOUS
      <4>1. j \in 1..Len(rest) /\ 1 + n + j = i
        <5>1. 1 + n + Len(rest) + pad = Len(p)
          BY <1>2, <2>8
        <5> QED
          BY <1>2, <1>3, <3>4, <4>0, <5>1
      <4>2. PICK k : k = n + j /\ k \in 1..(n + Len(rest)) /\ 1 + k = i
        BY <1>2, <4>1
      <4>3. i \in 1..Len(front) /\ ~(i <= 1 + n)
        BY <1>3, <2>6, <2>8, <3>4
      <4>4. w[i] = content[k]
        BY <2>6, <2>7, <4>2, <4>3
      <4>5. content[k] = rest[j]
        BY <1>4, <4>1, <4>2
      <4>6. rest[j] = p[i]
        BY <1>2, <2>8, <4>1
      <4> QED
        BY <3>4, <4>3, <4>4, <4>5, <4>6
    <3> QED
      BY <1>3, <3>1, <3>2, <3>3, <3>4
  <2> QED
    BY <1>6, <2>7, <2>8, <2>9 DEF Echoes
<1> QED
  BY <1>5, <1>6

(***************************************************************************)
(* Init and Next                                                           *)
(***************************************************************************)
Typed ==
    /\ header \in Header /\ header.stream < HighBit
    /\ payload \in Seq(Octet) /\ header.length = Len(payload)
    /\ Len(payload) <= MaxLength

LEMMA InitTyped == Init => Typed
BY ParsingAssumption, Sizes DEF Init, Typed

LEMMA GrowTyped ==
    ASSUME Typed, Grow
    PROVE  Typed'
<1>1. PICK octet \in Values : payload' = Append(payload, octet)
  BY DEF Grow
<1>2. Len(payload) \in Nat /\ payload \in Seq(Octet) /\ octet \in Octet /\ Len(payload) < MaxLength
  BY ParsingAssumption, LenProperties DEF Typed, Grow
<1>3. payload' \in Seq(Octet) /\ Len(payload') = Len(payload) + 1
  BY <1>1, <1>2, AppendProperties
<1>4. Len(payload) + 1 \in 0..MaxUint32 /\ Len(payload) + 1 <= MaxLength
  BY <1>2, ParsingAssumption, Sizes
<1>5. PICK n : n = Len(payload) + 1
  OBVIOUS
<1>6. header' = [header EXCEPT !.length = n]
  BY <1>5 DEF Grow, Typed
<1>7. header' \in Header /\ header'.length = n /\ header'.stream = header.stream
  BY <1>4, <1>5, <1>6 DEF Typed, Header
<1> QED
  BY <1>3, <1>4, <1>5, <1>7 DEF Typed

(***************************************************************************)
(* What is accepted                                                        *)
(***************************************************************************)
Kept(w) ==
    /\ w \in Seq(Octet) /\ Len(w) = Len(payload)
    /\ \A i \in 1..Len(payload) :
          /\ IsPadding(i) => w[i] = 0
          /\ ~IsPadding(i) /\ IsReserved(i) => w[i] = payload[i] % (Base \div 2)
          /\ ~IsPadding(i) /\ ~IsReserved(i) => w[i] = payload[i]

Faithful(f) == f.header = header /\ Kept(Payload(f))

LEMMA ReservedOctets ==
    /\ header.type = PUSH_PROMISE => \A i : IsReserved(i) <=> i = PadOffset(header) + 1
    /\ header.type \in {GOAWAY, WINDOW_UPDATE} => \A i : IsReserved(i) <=> i = 1
    /\ header.type \notin {PUSH_PROMISE, GOAWAY, WINDOW_UPDATE} => \A i : ~IsReserved(i)
BY DEF IsReserved, PUSH_PROMISE, GOAWAY, WINDOW_UPDATE

LEMMA NoPaddingOctets ==
    ASSUME header.type \notin {DATA, HEADERS, PUSH_PROMISE}
    PROVE  \A i : ~IsPadding(i)
BY DEF IsPadding, HasPadding

\* The octets of the fixed part, and no others, may have a reserved bit.
FixedKept(n, fixed) ==
    /\ \A i \in 1..Len(payload) :
          IsReserved(i) => i > PadOffset(header) /\ i <= PadOffset(header) + n
    /\ \A i \in 1..n :
          fixed[i] = IF IsReserved(PadOffset(header) + i)
                     THEN payload[PadOffset(header) + i] % (Base \div 2)
                     ELSE payload[PadOffset(header) + i]

LEMMA PaddedIsKept ==
    ASSUME Typed, header.type \in {DATA, HEADERS, PUSH_PROMISE}, NEW n \in Nat, NEW fixed \in Seq(Octet),
           Len(fixed) = n, Fits(header, n, payload), FixedKept(n, fixed),
           NEW f, f.header = header, f.pad = PadLength(header, payload),
           Payload(f) = Padded(f, fixed \o Content(header, n, payload))
    PROVE  Faithful(f)
<1>1. PICK w : w = Payload(f)
  OBVIOUS
<1>2. payload \in Seq(Octet)
  BY DEF Typed
<1>3. Echoes(w, payload, header, n, fixed)
  BY <1>1, <1>2, PaddedWrites
<1>4. \A i : IsPadding(i) <=> IsPadded(header) /\ i > Len(payload) - payload[1]
  BY DEF IsPadding, HasPadding
<1>5. PadOffset(header) \in Nat
  BY DEF PadOffset
<1>6. ASSUME NEW i \in 1..Len(payload)
      PROVE  /\ IsPadding(i) => w[i] = 0
             /\ ~IsPadding(i) /\ IsReserved(i) => w[i] = payload[i] % (Base \div 2)
             /\ ~IsPadding(i) /\ ~IsReserved(i) => w[i] = payload[i]
  <2>1. CASE IsPadding(i)
    BY <1>3, <1>4, <2>1 DEF Echoes
  <2>2. CASE ~IsPadding(i) /\ i > PadOffset(header) /\ i <= PadOffset(header) + n
    <3>1. PICK j : j = i - PadOffset(header)
      OBVIOUS
    <3>2. j \in 1..n /\ PadOffset(header) + j = i
      BY <1>5, <2>2, <3>1
    <3>3. w[i] = fixed[j]
      BY <1>3, <1>4, <2>2, <3>1 DEF Echoes
    <3> QED
      BY <2>2, <3>2, <3>3 DEF FixedKept
  <2>3. CASE ~IsPadding(i) /\ ~(i > PadOffset(header) /\ i <= PadOffset(header) + n)
    <3>1. w[i] = payload[i]
      BY <1>3, <1>4, <2>3 DEF Echoes
    <3> QED
      BY <2>3, <3>1 DEF FixedKept
  <2> QED
    BY <2>1, <2>2, <2>3
<1>7. w \in Seq(Octet) /\ Len(w) = Len(payload)
  BY <1>3 DEF Echoes
<1> QED
  BY <1>1, <1>6, <1>7 DEF Faithful, Kept

LEMMA DataKept ==
    ASSUME Typed, header.type = DATA, NEW f \in Unmarshal(header, payload)
    PROVE  Faithful(f)
<1>1. PICK pad, data : pad = PadLength(header, payload) /\ data = Content(header, 0, payload)
  OBVIOUS
<1>2. f \in Accept(Fits(header, 0, payload), DataFrame(header, pad, data))
  BY <1>1, UnmarshalByType DEF Typed
<1>3. Fits(header, 0, payload) /\ f = DataFrame(header, pad, data)
  BY <1>2 DEF Accept
<1>4. f.header = header /\ f.pad = pad /\ f.data = data /\ ~f.raw
  BY <1>3, ParsedFields DEF FrameOf
<1>5. data \in Seq(Octet)
  BY <1>1, <1>3, ContentIs DEF Typed
<1>6. PICK fixed : fixed = <<>>
  OBVIOUS
<1>7. fixed \in Seq(Octet) /\ Len(fixed) = 0 /\ fixed \o data = data
  BY <1>5, <1>6, ConcatEmptySeq
<1>8. Payload(f) = Padded(f, fixed \o Content(header, 0, payload))
  <2>1. f.header.type = DATA
    BY <1>4
  <2>2. Payload(f) = Padded(f, f.data)
    BY <1>4, <2>1, PayloadByType
  <2> QED
    BY <1>1, <1>4, <1>7, <2>2
<1>9. FixedKept(0, fixed)
  <2>1. \A i : ~IsReserved(i)
    BY ReservedOctets DEF DATA, PUSH_PROMISE, GOAWAY, WINDOW_UPDATE
  <2> QED
    BY <2>1 DEF FixedKept
<1> QED
  <2>1. PICK n : n = 0 /\ n \in Nat
    OBVIOUS
  <2>2. /\ fixed \in Seq(Octet) /\ Len(fixed) = n /\ Fits(header, n, payload) /\ FixedKept(n, fixed)
        /\ Payload(f) = Padded(f, fixed \o Content(header, n, payload))
    BY <1>3, <1>7, <1>8, <1>9, <2>1
  <2>3. header.type \in {DATA, HEADERS, PUSH_PROMISE} /\ f.pad = PadLength(header, payload)
    BY <1>1, <1>4
  <2> QED
    BY <1>4, <2>1, <2>2, <2>3, PaddedIsKept

LEMMA HeadersKept ==
    ASSUME Typed, header.type = HEADERS, NEW f \in Unmarshal(header, payload)
    PROVE  Faithful(f)
<1>1. PICK n, pad : /\ n = (IF HasFlag(header, FlagPriority) THEN PriorityLength ELSE 0)
                    /\ pad = PadLength(header, payload)
  OBVIOUS
<1>2. PICK data, priority :
        /\ data = Content(header, n, payload)
        /\ priority = (IF n = 0 THEN NoPriority ELSE ParsePriority(FixedPart(header, n, payload)))
  OBVIOUS
<1>3. f \in Accept(Fits(header, n, payload), HeadersFrame(header, pad, priority, data))
  BY <1>1, <1>2, UnmarshalByType, ZenonT(30) DEF Typed, ParseHeaders, HeadersFrame
<1>4. Fits(header, n, payload) /\ f = HeadersFrame(header, pad, priority, data)
  BY <1>3 DEF Accept
<1>5. f.header = header /\ f.pad = pad /\ f.priority = priority /\ f.data = data /\ ~f.raw
  BY <1>4, ParsedFields DEF FrameOf
<1>6. n \in Nat /\ payload \in Seq(Octet) /\ (HasFlag(header, FlagPriority) <=> n = PriorityLength)
      /\ (~HasFlag(header, FlagPriority) <=> n = 0)
  BY <1>1 DEF PriorityLength, Typed
<1>7. PICK fixed : fixed = IF HasFlag(f.header, FlagPriority) THEN PriorityOctets(f.priority) ELSE <<>>
  OBVIOUS
<1>8. Payload(f) = Padded(f, fixed \o Content(header, n, payload))
  <2>1. f.header.type = HEADERS
    BY <1>5
  <2>2. Payload(f) = Padded(f, fixed \o f.data)
    BY <1>5, <1>7, <2>1, PayloadByType
  <2> QED
    BY <1>2, <1>5, <2>2
<1>9. \A i : ~IsReserved(i)
  BY ReservedOctets DEF HEADERS, PUSH_PROMISE, GOAWAY, WINDOW_UPDATE
<1>10. fixed \in Seq(Octet) /\ Len(fixed) = n /\ FixedKept(n, fixed)
  <2>1. CASE HasFlag(header, FlagPriority)
    <3>1. PICK part : part = FixedPart(header, n, payload)
      OBVIOUS
    <3>2. /\ part \in Seq(Octet) /\ Len(part) = n
          /\ \A i \in 1..n : part[i] = payload[PadOffset(header) + i]
      BY <1>4, <1>6, <3>1, FixedPartIs
    <3>3. n # 0 /\ priority = ParsePriority(part)
      BY <1>2, <1>6, <2>1, <3>1 DEF PriorityLength
    <3>4. fixed = part
      BY <1>5, <1>6, <1>7, <2>1, <3>2, <3>3, PriorityWrites
    <3> QED
      BY <1>9, <3>2, <3>4 DEF FixedKept
  <2>2. CASE ~HasFlag(header, FlagPriority)
    <3>1. n = 0 /\ fixed = <<>>
      BY <1>5, <1>6, <1>7, <2>2
    <3> QED
      BY <1>9, <3>1 DEF FixedKept
  <2> QED
    BY <2>1, <2>2
<1> QED
  BY <1>1, <1>4, <1>5, <1>6, <1>8, <1>10, PaddedIsKept

LEMMA PushPromiseKept ==
    ASSUME Typed, header.type = PUSH_PROMISE, NEW f \in Unmarshal(header, payload)
    PROVE  Faithful(f)
<1>0. PICK n : n = 4 /\ n \in Nat
  OBVIOUS
<1>1. PICK pad, part, data : /\ pad = PadLength(header, payload)
                             /\ part = FixedPart(header, n, payload)
                             /\ data = Content(header, n, payload)
  OBVIOUS
<1>2. PICK id, stream : id = ReadUint32(part) /\ stream = Low31(id)
  OBVIOUS
<1>3. f \in Accept(Fits(header, n, payload), PushPromiseFrame(header, pad, stream, data))
  BY <1>0, <1>1, <1>2, UnmarshalByType, ZenonT(30) DEF Typed
<1>4. Fits(header, n, payload) /\ f = PushPromiseFrame(header, pad, stream, data)
  BY <1>3 DEF Accept
<1>5. f.header = header /\ f.pad = pad /\ f.stream = stream /\ f.data = data /\ ~f.raw
  BY <1>4, ParsedFields DEF FrameOf
<1>6. /\ part \in Seq(Octet) /\ Len(part) = 4 /\ Len(part) >= 4
      /\ \A i \in 1..4 : part[i] = payload[PadOffset(header) + i]
  <2>1. /\ part \in Seq(Octet) /\ Len(part) = n
        /\ \A i \in 1..n : part[i] = payload[PadOffset(header) + i]
    BY <1>0, <1>1, <1>4, FixedPartIs DEF Typed
  <2> QED
    BY <1>0, <2>1
<1>7. id \in Nat
  BY <1>2, <1>6, NumberIsNat
<1>8. PICK fixed : fixed = PutUint32(Low31(f.stream))
  OBVIOUS
<1>9. /\ fixed = <<part[1] % (Base \div 2), part[2], part[3], part[4]>>
      /\ part[1] % (Base \div 2) \in Octet
      /\ part[2] \in Octet /\ part[3] \in Octet /\ part[4] \in Octet
  <2>1. Low31(f.stream) = Low31(id)
    BY <1>2, <1>5, <1>7, Low31Small
  <2> QED
    BY <1>2, <1>6, <1>8, <2>1, Low31Writes, NumberWrites
<1>10. fixed \in Seq(Octet) /\ Len(fixed) = 4
  BY <1>9
<1>11. Payload(f) = Padded(f, fixed \o Content(header, n, payload))
  <2>1. f.header.type = PUSH_PROMISE
    BY <1>5
  <2>2. Payload(f) = Padded(f, fixed \o f.data)
    BY <1>5, <1>8, <2>1, PayloadByType
  <2> QED
    BY <1>1, <1>5, <2>2
<1>12. PICK offset : offset = PadOffset(header) /\ offset \in Nat
  BY DEF PadOffset
<1>13. \A i : IsReserved(i) <=> i = offset + 1
  BY <1>12, ReservedOctets
<1>14. FixedKept(n, fixed)
  <2>1. ASSUME NEW i \in 1..4
        PROVE  fixed[i] = IF IsReserved(offset + i) THEN payload[offset + i] % (Base \div 2)
                          ELSE payload[offset + i]
    <3>1. IsReserved(offset + i) <=> i = 1
      BY <1>12, <1>13
    <3>2. part[i] = payload[offset + i]
      BY <1>6, <1>12
    <3>3. fixed[i] = IF i = 1 THEN part[i] % (Base \div 2) ELSE part[i]
      BY <1>9
    <3> QED
      BY <3>1, <3>2, <3>3
  <2>2. \A i \in 1..Len(payload) : IsReserved(i) => i > offset /\ i <= offset + 4
    BY <1>12, <1>13
  <2> QED
    BY <1>0, <1>12, <2>1, <2>2 DEF FixedKept
<1> QED
  BY <1>0, <1>1, <1>4, <1>5, <1>10, <1>11, <1>14, PaddedIsKept

\* A payload without padding that is written as it was read.
LEMMA SameIsKept ==
    ASSUME Typed, header.type \notin {DATA, HEADERS, PUSH_PROMISE, GOAWAY, WINDOW_UPDATE},
           NEW f, f.header = header, Payload(f) = payload
    PROVE  Faithful(f)
<1>1. (\A i : ~IsReserved(i)) /\ (\A i : ~IsPadding(i))
  BY ReservedOctets, NoPaddingOctets
<1> QED
  BY <1>1 DEF Faithful, Kept, Typed

LEMMA FixedFramesKept ==
    ASSUME Typed, header.type \in {PRIORITY, RST_STREAM, SETTINGS, PING, CONTINUATION},
           NEW f \in Unmarshal(header, payload)
    PROVE  Faithful(f)
<1>1. payload \in Seq(Octet) /\ Len(payload) = header.length
  BY DEF Typed
<1>2. header.type \notin {DATA, HEADERS, PUSH_PROMISE, GOAWAY, WINDOW_UPDATE}
  BY DEF PRIORITY, RST_STREAM, SETTINGS, PING, CONTINUATION, DATA, HEADERS, PUSH_PROMISE, GOAWAY,
     WINDOW_UPDATE
<1>3. CASE header.type = PRIORITY
  <2>1. Len(payload) = PriorityLength /\ f = PriorityFrame(header, ParsePriority(payload))
    BY <1>1, <1>3, UnmarshalByType DEF Accept
  <2>2. f.header = header /\ f.priority = ParsePriority(payload) /\ ~f.raw
    BY <2>1, ParsedFields DEF FrameOf
  <2>3. f.header.type = PRIORITY
    BY <1>3, <2>2
  <2>4. Payload(f) = payload
    BY <1>1, <2>1, <2>2, <2>3, PayloadByType, PriorityWrites
  <2> QED
    BY <1>2, <2>2, <2>4, SameIsKept
<1>4. CASE header.type = RST_STREAM
  <2>0. f \in Accept(Len(payload) = 4, NumberFrame(header, ReadUint32(payload)))
    BY <1>1, <1>4, UnmarshalByType
  <2>1. Len(payload) = 4 /\ f = NumberFrame(header, ReadUint32(payload))
    BY <2>0 DEF Accept
  <2>2. f.header = header /\ f.number = ReadUint32(payload) /\ ~f.raw
    BY <2>1, ParsedFields DEF FrameOf
  <2>3. f.header.type = RST_STREAM
    BY <1>4, <2>2
  <2>4. Len(payload) >= 4
    BY <2>1
  <2>5. Payload(f) = <<payload[1], payload[2], payload[3], payload[4]>>
    BY <1>1, <2>2, <2>3, <2>4, PayloadByType, NumberWrites
  <2>6. payload = <<payload[1], payload[2], payload[3], payload[4]>>
    BY <1>1, <2>1, LenProperties
  <2> QED
    BY <1>2, <2>2, <2>5, <2>6, SameIsKept
<1>5. CASE header.type = SETTINGS
  <2>1. PICK settings :
          settings = [i \in 1..(Len(payload) \div SettingLength) |->
             ParseSetting(SubSeq(payload, SettingLength * (i - 1) + 1, SettingLength * i))]
    OBVIOUS
  <2>2. Len(payload) % SettingLength = 0 /\ f = SettingsFrame(header, settings)
    BY <1>1, <1>5, <2>1, UnmarshalByType DEF Accept
  <2>3. f.header = header /\ f.settings = settings /\ ~f.raw
    BY <2>2, ParsedFields DEF FrameOf
  <2>4. f.header.type = SETTINGS
    BY <1>5, <2>3
  <2>5. SettingsOctets(settings) = payload
    BY <1>1, <2>1, <2>2, SettingsWrite
  <2>6. Payload(f) = payload
    BY <2>3, <2>4, <2>5, PayloadByType
  <2> QED
    BY <1>2, <2>3, <2>6, SameIsKept
<1>6. CASE header.type \in {PING, CONTINUATION}
  <2>1. f = OctetsFrame(header, payload)
    BY <1>1, <1>6, UnmarshalByType DEF Accept
  <2>2. f.header = header /\ f.data = payload /\ ~f.raw
    BY <2>1, ParsedFields DEF FrameOf
  <2>3. f.header.type \in {PING, CONTINUATION}
    BY <1>6, <2>2
  <2>4. Payload(f) = payload
    BY <2>2, <2>3, PayloadByType
  <2> QED
    BY <1>2, <2>2, <2>4, SameIsKept
<1> QED
  BY <1>3, <1>4, <1>5, <1>6

LEMMA WindowUpdateKept ==
    ASSUME Typed, header.type = WINDOW_UPDATE, NEW f \in Unmarshal(header, payload)
    PROVE  Faithful(f)
<1>1. payload \in Seq(Octet) /\ Len(payload) = header.length
  BY DEF Typed
<1>2. PICK v : v = ReadUint32(payload)
  OBVIOUS
<1>3. f \in Accept(Len(payload) = 4, NumberFrame(header, Low31(ReadUint32(payload))))
  BY <1>1, UnmarshalByType
<1>4. Len(payload) = 4 /\ Len(payload) >= 4 /\ f = NumberFrame(header, Low31(v))
  <2>1. Len(payload) = 4 /\ f = NumberFrame(header, Low31(ReadUint32(payload)))
    BY <1>3 DEF Accept
  <2> QED
    BY <1>2, <2>1
<1>5. f.header = header /\ f.number = Low31(v) /\ ~f.raw
  BY <1>4, ParsedFields DEF FrameOf
<1>6. Low31(f.number) = Low31(v)
  <2>1. v \in Nat
    BY <1>1, <1>2, <1>4, NumberIsNat
  <2> QED
    BY <1>5, <2>1, Low31Small
<1>7. f.header.type = WINDOW_UPDATE
  BY <1>5
<1>8. PICK w : w = Payload(f)
  OBVIOUS
<1>9. /\ w = <<payload[1] % (Base \div 2), payload[2], payload[3], payload[4]>>
      /\ payload[1] % (Base \div 2) \in Octet
      /\ payload[2] \in Octet /\ payload[3] \in Octet /\ payload[4] \in Octet
  BY <1>1, <1>2, <1>4, <1>5, <1>6, <1>7, <1>8, PayloadByType, Low31Writes, NumberWrites
<1>10. (\A i : ~IsPadding(i)) /\ (\A i : IsReserved(i) <=> i = 1)
  BY ReservedOctets, NoPaddingOctets DEF WINDOW_UPDATE, DATA, HEADERS, PUSH_PROMISE
<1>11. w \in Seq(Octet) /\ Len(w) = Len(payload)
  BY <1>4, <1>9
<1>12. Kept(w)
  BY <1>4, <1>9, <1>10, <1>11 DEF Kept
<1> QED
  BY <1>5, <1>8, <1>12 DEF Faithful

LEMMA GoAwayKept ==
    ASSUME Typed, header.type = GOAWAY, NEW f \in Unmarshal(header, payload)
    PROVE  Faithful(f)
<1>1. payload \in Seq(Octet) /\ Len(payload) = header.length
  BY DEF Typed
<1>2. PICK n, part, debug :
        n = Len(payload) /\ part = SubSeq(payload, 5, 8) /\ debug = SubSeq(payload, 9, n)
  OBVIOUS
<1>3. PICK id, code : id = ReadUint32(payload) /\ code = ReadUint32(part)
  OBVIOUS
<1>4. f \in Accept(n >= 8, GoAwayFrame(header, Low31(id), code, debug))
  BY <1>1, <1>2, <1>3, UnmarshalByType, ZenonT(30)
<1>5. n >= 8 /\ f = GoAwayFrame(header, Low31(id), code, debug)
  BY <1>4 DEF Accept
<1>6. f.header = header /\ f.stream = Low31(id) /\ f.number = code /\ f.data = debug /\ ~f.raw
  BY <1>5, ParsedFields DEF FrameOf
<1>7. n \in Nat /\ Len(payload) >= 4
  BY <1>1, <1>2, <1>5, LenProperties
<1>8. part \in Seq(Octet) /\ Len(part) = 4 /\ Len(part) >= 4 /\ \A i \in 1..4 : part[i] = payload[4 + i]
  <2>1. PICK from, to : from = 4 /\ to = 8 /\ from + 1 = 5 /\ to - from = 4
    OBVIOUS
  <2>2. from \in Nat /\ to \in Nat /\ from <= to /\ to <= Len(payload)
    BY <1>2, <1>5, <2>1
  <2>3. PartOf(SubSeq(payload, from + 1, to), payload, from, to)
    BY <1>1, <2>2, SubSeqIsPart
  <2>4. PartOf(part, payload, from, to)
    BY <1>2, <2>1, <2>3
  <2> QED
    BY <2>1, <2>4 DEF PartOf
<1>9. debug \in Seq(Octet) /\ Len(debug) = n - 8 /\ \A i \in 1..(n - 8) : debug[i] = payload[8 + i]
  <2>1. PICK from : from = 8 /\ from + 1 = 9
    OBVIOUS
  <2>2. from \in Nat /\ from <= n /\ n <= Len(payload)
    BY <1>2, <1>5, <1>7, <2>1
  <2>3. PartOf(SubSeq(payload, from + 1, n), payload, from, n)
    BY <1>1, <1>7, <2>2, SubSeqIsPart
  <2>4. PartOf(debug, payload, from, n)
    BY <1>2, <2>1, <2>3
  <2> QED
    BY <2>1, <2>4 DEF PartOf
<1>10. PICK a, b, front, w :
         /\ a = PutUint32(Low31(f.stream)) /\ b = PutUint32(f.number)
         /\ front = a \o b /\ w = Payload(f)
  OBVIOUS
<1>11. /\ a = <<payload[1] % (Base \div 2), payload[2], payload[3], payload[4]>>
       /\ payload[1] % (Base \div 2) \in Octet
       /\ payload[2] \in Octet /\ payload[3] \in Octet /\ payload[4] \in Octet
  <2>1. id \in Nat
    BY <1>1, <1>3, <1>7, NumberIsNat
  <2>2. Low31(f.stream) = Low31(id)
    BY <1>6, <2>1, Low31Small
  <2> QED
    BY <1>1, <1>3, <1>7, <1>10, <2>2, Low31Writes, NumberWrites
<1>12. b = part
  <2>1. /\ b = <<part[1], part[2], part[3], part[4]>>
        /\ part[1] \in Octet /\ part[2] \in Octet /\ part[3] \in Octet /\ part[4] \in Octet
    BY <1>3, <1>6, <1>8, <1>10, NumberWrites
  <2>2. part = <<part[1], part[2], part[3], part[4]>>
    BY <1>8, LenProperties
  <2> QED
    BY <2>1, <2>2
<1>13. w = front \o debug
  <2>1. f.header.type = GOAWAY
    BY <1>6
  <2>2. Payload(f) = GoAwayOctets(f.stream, f.number, f.data)
    BY <1>6, <2>1, PayloadByType
  <2> QED
    BY <1>6, <1>10, <2>2 DEF GoAwayOctets
<1>14. a \in Seq(Octet) /\ Len(a) = 4
  BY <1>11
<1>15. /\ front \in Seq(Octet) /\ Len(front) = 8
       /\ \A i \in 1..4 : front[i] = a[i]
       /\ \A i \in 1..4 : front[4 + i] = part[i]
  <2>1. front = a \o part
    BY <1>10, <1>12
  <2>2. Joined(Octet, front, a, part)
    BY <1>8, <1>14, <2>1, ConcatJoins
  <2>3. /\ front \in Seq(Octet) /\ Len(front) = 4 + 4
        /\ \A i \in 1..4 : front[i] = a[i]
        /\ \A i \in 1..4 : front[4 + i] = part[i]
    BY <1>8, <1>14, <2>2 DEF Joined
  <2> QED
    BY <2>3
<1>16. /\ w \in Seq(Octet) /\ Len(w) = n
       /\ \A i \in 1..8 : w[i] = front[i]
       /\ \A i \in 1..(n - 8) : w[8 + i] = debug[i]
  <2>1. Joined(Octet, w, front, debug)
    BY <1>9, <1>13, <1>15, ConcatJoins
  <2> QED
    BY <1>7, <1>9, <1>15, <2>1 DEF Joined
<1>17. ASSUME NEW i \in 1..n
       PROVE  w[i] = IF i = 1 THEN payload[1] % (Base \div 2) ELSE payload[i]
  <2>1. CASE i <= 4
    <3>1. w[i] = a[i] /\ i \in 1..4
      BY <1>15, <1>16, <2>1
    <3> QED
      BY <1>11, <3>1
  <2>2. CASE i > 4 /\ i <= 8
    <3>1. PICK j : j = i - 4 /\ j \in 1..4 /\ 4 + j = i
      BY <2>2
    <3>2. i \in 1..8 /\ i # 1
      BY <2>2
    <3> QED
      BY <1>8, <1>15, <1>16, <3>1, <3>2
  <2>3. CASE i > 8
    <3>1. PICK j : j = i - 8 /\ j \in 1..(n - 8) /\ 8 + j = i
      BY <1>7, <2>3
    <3> QED
      BY <1>9, <1>16, <2>3, <3>1
  <2> QED
    BY <2>1, <2>2, <2>3
<1>18. (\A i : ~IsPadding(i)) /\ (\A i : IsReserved(i) <=> i = 1)
  BY ReservedOctets, NoPaddingOctets DEF GOAWAY, DATA, HEADERS, PUSH_PROMISE
<1>19. Kept(w)
  BY <1>2, <1>16, <1>17, <1>18 DEF Kept
<1> QED
  BY <1>6, <1>10, <1>19 DEF Faithful

LEMMA UnknownKept ==
    ASSUME Typed, header.type \notin KnownTypes, NEW f \in Unmarshal(header, payload)
    PROVE  Faithful(f)
<1>1. header.type \notin {DATA, HEADERS, PRIORITY, RST_STREAM, SETTINGS, PUSH_PROMISE, PING, GOAWAY,
                          WINDOW_UPDATE, CONTINUATION}
  BY DEF KnownTypes, DATA, HEADERS, PRIORITY, RST_STREAM, SETTINGS, PUSH_PROMISE, PING, GOAWAY,
     WINDOW_UPDATE, CONTINUATION
<1>2. f = [Blank(header) EXCEPT !.data = payload, !.raw = TRUE]
  BY <1>1 DEF Unmarshal, Typed
<1>3. f.header = header /\ f.data = payload /\ f.raw
  BY <1>2 DEF Blank
<1>4. Payload(f) = payload
  BY <1>3 DEF Payload
<1> QED
  BY <1>1, <1>3, <1>4, SameIsKept

LEMMA AcceptedIsKept ==
    ASSUME Typed, NEW f \in Unmarshal(header, payload)
    PROVE  Faithful(f)
<1>1. CASE header.type \in KnownTypes
  <2>1. header.type \in {DATA, HEADERS, PRIORITY, RST_STREAM, SETTINGS, PUSH_PROMISE, PING, GOAWAY,
                         WINDOW_UPDATE, CONTINUATION}
    BY <1>1 DEF KnownTypes, DATA, HEADERS, PRIORITY, RST_STREAM, SETTINGS, PUSH_PROMISE, PING, GOAWAY,
       WINDOW_UPDATE, CONTINUATION
  <2> QED
    BY <2>1, DataKept, HeadersKept, PushPromiseKept, FixedFramesKept, GoAwayKept, WindowUpdateKept
<1> QED
  BY <1>1, UnknownKept

\* Marshal takes it, and its header is the one that was read.
LEMMA KeptIsFaithful ==
    ASSUME Typed, NEW f, Faithful(f)
    PROVE  \E octets \in Marshal(f) :
              /\ ParseHeader(SubSeq(octets, 1, HeaderLength)) = header
              /\ Len(octets) = HeaderLength + Len(payload)
              /\ \A i \in 1..Len(payload) : octets[HeaderLength + i] = Payload(f)[i]
<1>1. PICK p, n, h : /\ p = Payload(f) /\ n = Len(p)
                     /\ h = IF f.raw THEN f.header ELSE [f.header EXCEPT !.length = n]
  OBVIOUS
<1>2. p \in Seq(Octet) /\ n = Len(payload) /\ n \in Nat /\ f.header = header
  BY <1>1, LenProperties DEF Faithful, Kept
<1>3. PICK type, flags, stream : type = header.type /\ flags = header.flags /\ stream = header.stream
  OBVIOUS
<1>4. /\ header = [length |-> n, type |-> type, flags |-> flags, stream |-> stream]
      /\ type \in Octet /\ flags \in Octet /\ stream \in Nat /\ stream < HighBit
      /\ n \in 0..MaxUint24
  <2>1. n <= MaxUint24
    BY <1>2, ParsingAssumption, Sizes DEF Typed
  <2>2. header.length = n /\ header \in Header /\ stream < HighBit
    BY <1>2, <1>3 DEF Typed
  <2> QED
    BY <1>2, <1>3, <2>1, <2>2, Sizes DEF Header
<1>5. h = header
  BY <1>1, <1>2, <1>4
<1>6. PICK s : s \in MarshalHeader(h)
  <2>1. ~(h.length > MaxUint24)
    BY <1>4, <1>5, Sizes
  <2> QED
    BY <2>1 DEF MarshalHeader
<1>7. Low31(stream) = stream
  BY <1>4, Sizes, Modulo DEF Low31
<1>8. /\ s \in Seq(Octet) /\ Len(s) = HeaderLength
      /\ ParseHeader(s) = header
  <2>1. h = [length |-> n, type |-> type, flags |-> flags, stream |-> stream]
    BY <1>4, <1>5
  <2>2. /\ s \in Seq(Octet) /\ Len(s) = HeaderLength
        /\ ParseHeader(s) = [length |-> n, type |-> type, flags |-> flags, stream |-> Low31(stream)]
    BY <1>4, <1>6, <2>1, HeaderReads
  <2> QED
    BY <1>4, <1>7, <2>2
<1>9. PICK octets : octets = s \o p
  OBVIOUS
<1>10. octets \in Marshal(f)
  BY <1>1, <1>6, <1>9 DEF Marshal
<1>11. Joined(Octet, octets, s, p)
  BY <1>2, <1>8, <1>9, ConcatJoins
<1>12. SubSeq(octets, 1, HeaderLength) = s
  <2>1. PICK from, to : from = 0 /\ to = HeaderLength /\ from + 1 = 1 /\ to \in Nat
    BY DEF HeaderLength
  <2>2. /\ octets \in Seq(Octet) /\ to <= Len(octets) /\ to = from + Len(s)
        /\ \A i \in 1..Len(s) : octets[from + i] = s[i]
    BY <1>8, <1>11, <2>1 DEF Joined
  <2>3. SubSeq(octets, from + 1, to) = s
    BY <1>8, <2>1, <2>2, PartAt
  <2> QED
    BY <2>1, <2>3
<1>13. Len(octets) = HeaderLength + Len(payload)
       /\ \A i \in 1..Len(payload) : octets[HeaderLength + i] = p[i]
  BY <1>1, <1>2, <1>8, <1>11 DEF Joined
<1> QED
  BY <1>1, <1>8, <1>10, <1>12, <1>13

LEMMA TypedIsFaithful == Typed => AcceptedIsFaithful
<1> SUFFICES ASSUME Typed, NEW f \in Unmarshal(header, payload)
             PROVE  \E octets \in Marshal(f) :
                       /\ ParseHeader(SubSeq(octets, 1, HeaderLength)) = header
                       /\ Len(octets) = HeaderLength + Len(payload)
                       /\ \A i \in DOMAIN payload :
                             CASE IsPadding(i)                   -> octets[HeaderLength + i] = 0
                               [] IsReserved(i) /\ ~IsPadding(i) ->
                                     octets[HeaderLength + i] = payload[i] % (Base \div 2)
                               [] OTHER -> octets[HeaderLength + i] = payload[i]
  BY DEF AcceptedIsFaithful
<1>1. Faithful(f)
  BY AcceptedIsKept
<1>2. PICK octets \in Marshal(f) :
        /\ ParseHeader(SubSeq(octets, 1, HeaderLength)) = header
        /\ Len(octets) = HeaderLength + Len(payload)
        /\ \A i \in 1..Len(payload) : octets[HeaderLength + i] = Payload(f)[i]
  BY <1>1, KeptIsFaithful
<1>3. DOMAIN payload = 1..Len(payload)
  BY LenProperties DEF Typed
<1>4. ASSUME NEW i \in 1..Len(payload)
      PROVE  CASE IsPadding(i)                   -> octets[HeaderLength + i] = 0
               [] IsReserved(i) /\ ~IsPadding(i) ->
                     octets[HeaderLength + i] = payload[i] % (Base \div 2)
               [] OTHER -> octets[HeaderLength + i] = payload[i]
  <2>1. octets[HeaderLength + i] = Payload(f)[i]
    BY <1>2
  <2>2. /\ IsPadding(i) => Payload(f)[i] = 0
        /\ ~IsPadding(i) /\ IsReserved(i) => Payload(f)[i] = payload[i] % (Base \div 2)
        /\ ~IsPadding(i) /\ ~IsReserved(i) => Payload(f)[i] = payload[i]
    BY <1>1 DEF Faithful, Kept
  <2> QED
    BY <2>1, <2>2
<1> QED
  BY <1>2, <1>3, <1>4

\* What Unmarshal accepts is the frame that the octets are: marshalled again
\* it has the same header and the same octets, but for padding and reserved
\* bits, whatever octets a peer puts into whatever frame (AcceptedIsFaithful).
THEOREM AcceptedFramesAreFaithful == Spec => []AcceptedIsFaithful
<1>1. Init => Typed
  BY InitTyped
<1>2. Typed /\ [Next]_vars => Typed'
  <2> SUFFICES ASSUME Typed, [Next]_vars PROVE Typed'
    OBVIOUS
  <2>1. CASE Grow
    BY <2>1, GrowTyped
  <2>2. CASE UNCHANGED vars
    BY <2>2 DEF Typed, vars
  <2> QED
    BY <2>1, <2>2 DEF Next
<1> QED
  BY <1>1, <1>2, TypedIsFaithful, PTL DEF Spec
=============================================================================
