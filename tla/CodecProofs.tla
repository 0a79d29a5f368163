---------------------------- MODULE CodecProofs -----------------------------
(***************************************************************************)
(* What the binary codec does with one packet, for every message: the      *)
(* decoder returns nothing before the last byte, and with it what          *)
(* PacketStream says the message should decode to, or an error, whatever   *)
(* follows (Behaves).  First the header, for any payload; then up the      *)
(* layers of the payload: integers and strings, lists, fields.             *)
(*                                                                         *)
(* SMT expands equations between concatenations byte by byte; where they   *)
(* are only substituted the leaves call Zenon.                             *)
(***************************************************************************)
EXTENDS PacketStream, TLAPS

-----------------------------------------------------------------------------
(* Sequences and numbers.                                                  *)

\* Sequences of the same length with the same elements are equal.
LEMMA SeqEqual ==
    ASSUME NEW S, NEW s \in Seq(S), NEW t \in Seq(S), Len(s) = Len(t), \A i \in 1..Len(s) : s[i] = t[i]
    PROVE  s = t
  OBVIOUS

\* Appending is associative: put_* calls may be grouped in any way.
LEMMA CatAssoc ==
    ASSUME NEW S, NEW s \in Seq(S), NEW t \in Seq(S), NEW u \in Seq(S)
    PROVE  (s \o t) \o u = s \o (t \o u)
  BY SMTT(20)

\* The front of a concatenation.
LEMMA CatFront ==
    ASSUME NEW S, NEW s \in Seq(S), NEW t \in Seq(S)
    PROVE  SubSeq(s \o t, 1, Len(s)) = s
  OBVIOUS

\* The back of a concatenation: what is left after the front is taken.
LEMMA CatBack ==
    ASSUME NEW S, NEW s \in Seq(S), NEW t \in Seq(S)
    PROVE  SubSeq(s \o t, Len(s) + 1, Len(s \o t)) = t
  OBVIOUS

\* Appending nothing changes nothing.
LEMMA CatEmpty ==
    ASSUME NEW S, NEW s \in Seq(S)
    PROVE  s \o <<>> = s /\ <<>> \o s = s
  OBVIOUS

\* Division with remainder.
LEMMA Divide ==
    ASSUME NEW n \in Nat, NEW b \in Nat, b > 0
    PROVE  /\ n \div b \in Nat /\ n % b \in 0..(b - 1)
           /\ n = (n % b) + (b * (n \div b))
  OBVIOUS

\* Products of naturals.
LEMMA Times ==
    ASSUME NEW a \in Nat, NEW b \in Nat, NEW c \in Nat
    PROVE  /\ a * b \in Nat
           /\ a * (b + c) = (a * b) + (a * c)
           /\ (a * b) * c = a * (b * c)
  OBVIOUS

\* Multiplication is monotone.
LEMMA TimesMono ==
    ASSUME NEW a \in Nat, NEW b \in Nat, NEW c \in Nat, b <= c
    PROVE  a * b <= a * c
<1>1. c - b \in Nat /\ c = b + (c - b)
  OBVIOUS
<1>2. a * c = (a * b) + (a * (c - b)) /\ a * (c - b) \in Nat /\ a * b \in Nat
  BY <1>1, Times
<1> QED
  BY <1>2

\* Quotient and remainder are unique.
LEMMA Remainder ==
    ASSUME NEW n \in Nat, NEW m \in Nat, NEW k \in Nat, NEW r \in 0..(m - 1), n = r + (m * k)
    PROVE  n % m = r /\ n \div m = k
<1> DEFINE r2 == n % m
           k2 == n \div m
<1>1. k2 \in Nat /\ r2 \in 0..(m - 1) /\ n = r2 + (m * k2)
  BY Divide
<1> HIDE DEF r2, k2
<1>2. ASSUME NEW x \in Nat, NEW y \in Nat, x < y PROVE m * y >= (m * x) + m /\ m * x \in Nat
  <2>1. m * (x + 1) <= m * y
    BY <1>2, TimesMono
  <2>2. m * (x + 1) = (m * x) + (m * 1) /\ m * x \in Nat
    BY Times
  <2> QED
    BY <2>1, <2>2
<1>3. CASE k < k2
  BY <1>1, <1>2, <1>3
<1>4. CASE k2 < k
  BY <1>1, <1>2, <1>4
<1>5. CASE k = k2
  BY <1>1, <1>5, Times DEF r2, k2
<1> QED
  BY <1>1, <1>3, <1>4, <1>5

\* The integer types have room for what the header holds.
LEMMA Sizes ==
    /\ Base \in Nat /\ Base >= 4
    /\ U16Values \in Nat /\ U16Values >= 16
    /\ U32Values \in Nat /\ U32Values >= 256
    /\ U64Values \in Nat /\ U64Values > 0
<1>1. Base \in Nat /\ Base >= 4
  BY BaseAssumption
<1>2. ASSUME NEW a \in Nat, NEW b \in Nat, a >= b PROVE a * a \in Nat /\ a * a >= b * b
  <2>1. a * b <= a * a /\ b * b <= b * a
    BY <1>2, TimesMono
  <2> QED
    BY <2>1, Times
<1>3. U16Values \in Nat /\ U16Values >= 16
  BY <1>1, <1>2 DEF U16Values
<1>4. U32Values \in Nat /\ U32Values >= 256
  BY <1>3, <1>2 DEF U32Values
<1>5. U64Values \in Nat /\ U64Values > 0
  BY <1>4, <1>2 DEF U64Values
<1> QED
  BY <1>1, <1>3, <1>4, <1>5

\* A number of two digits to the base b, low digit first.
LEMMA TwoDigits ==
    ASSUME NEW n \in Nat, NEW b \in Nat, b > 0
    PROVE  (n % b) + (b * ((n \div b) % b)) = n % (b * b)
<1> DEFINE q == n \div b
           lo == n % b
           hi == q % b
           k == q \div b
<1>1. n = lo + (b * q) /\ lo \in 0..(b - 1) /\ q \in Nat
  BY Divide
<1> HIDE DEF q, lo
<1>2. q = hi + (b * k) /\ hi \in 0..(b - 1) /\ k \in Nat
  BY <1>1, Divide
<1> HIDE DEF hi, k
<1>3. /\ b * q = (b * hi) + (b * (b * k)) /\ b * (b * k) = (b * b) * k
      /\ b * hi \in Nat /\ b * b \in Nat /\ (b * b) * k \in Nat
  BY <1>1, <1>2, Times
<1>4. n = (lo + (b * hi)) + ((b * b) * k)
  <2>1. n = lo + ((b * hi) + ((b * b) * k))
    BY <1>1, <1>3, Zenon
  <2> DEFINE x == b * hi
             y == (b * b) * k
  <2>2. x \in Nat /\ y \in Nat /\ lo \in Nat
    BY <1>1, <1>3
  <2> HIDE DEF x, y
  <2>3. n = lo + (x + y)
    BY <2>1 DEF x, y
  <2>4. n = (lo + x) + y
    BY <2>2, <2>3
  <2> QED
    BY <2>4 DEF x, y
<1>5. lo + (b * hi) \in 0..((b * b) - 1)
  <2>1. b * hi <= b * (b - 1)
    BY <1>2, TimesMono
  <2>2. b * b = (b * (b - 1)) + (b * 1)
    BY Times
  <2> QED
    BY <1>1, <1>2, <1>3, <2>1, <2>2
<1>6. n % (b * b) = lo + (b * hi)
  BY <1>3, <1>4, <1>5, <1>2, Remainder, Zenon
<1> QED
  BY <1>6 DEF lo, hi, q

\* A slice of a text is a text.
LEMMA TextSub ==
    ASSUME NEW s \in Text, NEW a \in 1..(Len(s) + 1), NEW b \in (a - 1)..Len(s)
    PROVE  /\ SubSeq(s, a, b) \in Text
           /\ Len(SubSeq(s, a, b)) = b - a + 1
           /\ \A i \in 1..(b - a + 1) : SubSeq(s, a, b)[i] = s[a + i - 1]
  BY DEF Text

\* CatAssoc for texts.
LEMMA TextAssoc ==
    ASSUME NEW s \in Text, NEW t \in Text, NEW u \in Text
    PROVE  (s \o t) \o u = s \o (t \o u)
  BY CatAssoc, SMTT(20) DEF Text

\* A text is its first k bytes and the others.
LEMMA TextSplit ==
    ASSUME NEW s \in Text, NEW k \in 0..Len(s)
    PROVE  s = SubSeq(s, 1, k) \o SubSeq(s, k + 1, Len(s))
<1> DEFINE a == SubSeq(s, 1, k)
           b == SubSeq(s, k + 1, Len(s))
<1>1. Len(s) \in Nat
  BY DEF Text
<1>2. /\ a \in Text /\ b \in Text
      /\ Len(a) = k /\ Len(b) = Len(s) - k
  BY <1>1 DEF Text
<1>3. \A i \in 1..k : a[i] = s[i]
  BY <1>1 DEF Text
<1>4. \A i \in 1..(Len(s) - k) : b[i] = s[k + i]
  BY <1>1 DEF Text
<1> HIDE DEF a, b
<1>5. ASSUME NEW i \in 1..Len(s) PROVE (a \o b)[i] = s[i]
  <2>1. CASE i <= k
    BY <2>1, <1>1, <1>2, <1>3 DEF Text
  <2>2. CASE i > k
    <3>1. i - k \in 1..(Len(s) - k) /\ i = k + (i - k)
      BY <2>2, <1>1
    <3>2. b[i - k] = s[k + (i - k)]
      BY <3>1, <1>4, Zenon
    <3>3. (a \o b)[i] = b[i - k]
      BY <2>2, <1>1, <1>2 DEF Text
    <3> QED
      BY <3>1, <3>2, <3>3
  <2>3. i <= k \/ i > k
    BY <1>1
  <2> QED
    BY <2>1, <2>2, <2>3, Zenon
<1>6. a \o b \in Text /\ Len(a \o b) = Len(s)
  BY <1>1, <1>2 DEF Text
<1>7. a \o b = s
  BY <1>5, <1>6, SeqEqual, Zenon DEF Text
<1> QED
  BY <1>7, Zenon DEF a, b

\* The texts of w bytes.  (An equation between a length and a number would hide
\* the length from the SMT solver.)
TextOf(w) == {s \in Text : w <= Len(s) /\ Len(s) <= w}

\* Lengths add up.
LEMMA CatOf ==
    ASSUME NEW v \in Nat, NEW w \in Nat, NEW s \in TextOf(v), NEW t \in TextOf(w)
    PROVE  s \o t \in TextOf(v + w)
  BY DEF TextOf, Text

-----------------------------------------------------------------------------
(* Integers: the bytes put_* writes, the numbers le_* reads.               *)

\* put_u16 writes two bytes.
LEMMA PutU16 ==
    ASSUME NEW n \in Nat
    PROVE  put_u16(n) \in TextOf(2)
<1>1. n % Base \in Byte /\ (n \div Base) \in Nat
  BY Sizes, Divide DEF Byte
<1>2. (n \div Base) % Base \in Byte
  BY <1>1, Sizes, Divide DEF Byte
<1> QED
  BY <1>1, <1>2 DEF put_u16, Text, TextOf

\* put_u32 writes four bytes.
LEMMA PutU32 ==
    ASSUME NEW n \in Nat
    PROVE  put_u32(n) \in TextOf(4)
<1> DEFINE q == n \div U16Values
<1>1. q \in Nat
  BY Sizes, Divide
<1>2. put_u16(n) \in TextOf(2) /\ put_u16(q) \in TextOf(2)
  BY <1>1, PutU16
<1>3. put_u16(n) \o put_u16(q) \in TextOf(2 + 2)
  BY <1>2, CatOf
<1> QED
  BY <1>3 DEF put_u32

\* put_u64 writes eight bytes.
LEMMA PutU64 ==
    ASSUME NEW n \in Nat
    PROVE  put_u64(n) \in TextOf(8)
<1> DEFINE q == n \div U32Values
<1>1. q \in Nat
  BY Sizes, Divide
<1>2. put_u32(n) \in TextOf(4) /\ put_u32(q) \in TextOf(4)
  BY <1>1, PutU32
<1>3. put_u32(n) \o put_u32(q) \in TextOf(4 + 4)
  BY <1>2, CatOf
<1> QED
  BY <1>3 DEF put_u64

\* Reading at the front of s what put_u16 wrote yields the number, wrapped.
LEMMA LeU16 ==
    ASSUME NEW n \in Nat, NEW s, \A i \in 1..2 : s[i] = put_u16(n)[i]
    PROVE  le_u16(s) = n % U16Values
<1>1. s[1] = n % Base /\ s[2] = (n \div Base) % Base
  BY DEF put_u16
<1> QED
  BY <1>1, TwoDigits, Sizes DEF le_u16, U16Values

\* The same for put_u32.
LEMMA LeU32 ==
    ASSUME NEW n \in Nat, NEW s \in Text, Len(s) >= 4, \A i \in 1..4 : s[i] = put_u32(n)[i]
    PROVE  le_u32(s) = n % U32Values
<1> DEFINE q == n \div U16Values
<1>1. q \in Nat
  BY Sizes, Divide
<1>2. \A i \in 1..2 : s[i] = put_u16(n)[i] /\ SubSeq(s, 3, 4)[i] = put_u16(q)[i]
  <2>1. put_u16(n) \in TextOf(2) /\ put_u16(q) \in TextOf(2)
    BY <1>1, PutU16
  <2>2. \A i \in 1..4 : s[i] = (put_u16(n) \o put_u16(q))[i]
    BY Zenon DEF put_u32
  <2> HIDE DEF q
  <2> QED
    BY <2>1, <2>2 DEF TextOf, Text
<1>3. le_u16(s) = n % U16Values /\ le_u16(SubSeq(s, 3, 4)) = q % U16Values
  BY <1>1, <1>2, LeU16, Zenon
<1>4. (n % U16Values) + (U16Values * (q % U16Values)) = n % (U16Values * U16Values)
  <2>1. U16Values \in Nat /\ U16Values > 0
    BY Sizes
  <2> QED
    BY <2>1, TwoDigits, Zenon
<1> QED
  BY <1>3, <1>4, Zenon DEF le_u32, U32Values

\* The same for put_u64.
LEMMA LeU64 ==
    ASSUME NEW n \in Nat, NEW s \in Text, Len(s) >= 8, \A i \in 1..8 : s[i] = put_u64(n)[i]
    PROVE  le_u64(s) = n % U64Values
<1> DEFINE q == n \div U32Values
<1>1. q \in Nat
  BY Sizes, Divide, SMTT(20)
<1>2. /\ SubSeq(s, 5, 8) \in TextOf(4)
      /\ \A i \in 1..4 : s[i] = put_u32(n)[i] /\ SubSeq(s, 5, 8)[i] = put_u32(q)[i]
  <2>1. put_u32(n) \in TextOf(4) /\ put_u32(q) \in TextOf(4)
    BY <1>1, PutU32
  <2>2. \A i \in 1..8 : s[i] = (put_u32(n) \o put_u32(q))[i]
    BY Zenon DEF put_u64
  <2> HIDE DEF q
  <2> QED
    BY <2>1, <2>2, SMTT(20) DEF TextOf, Text
<1>3. le_u32(s) = n % U32Values /\ le_u32(SubSeq(s, 5, 8)) = q % U32Values
  <2> DEFINE high == SubSeq(s, 5, 8)
  <2>1. high \in Text /\ Len(high) >= 4 /\ \A i \in 1..4 : high[i] = put_u32(q)[i]
    BY <1>2 DEF TextOf
  <2> HIDE DEF q, high
  <2>2. le_u32(high) = q % U32Values
    BY <1>1, <2>1, LeU32, Zenon
  <2>3. le_u32(s) = n % U32Values
    <3>1. Len(s) >= 4 /\ \A i \in 1..4 : s[i] = put_u32(n)[i]
      BY <1>2 DEF Text
    <3> QED
      BY <3>1, LeU32
  <2> QED
    BY <2>2, <2>3 DEF high
<1>4. (n % U32Values) + (U32Values * (q % U32Values)) = n % (U32Values * U32Values)
  <2>1. U32Values \in Nat /\ U32Values > 0
    BY Sizes
  <2> QED
    BY <2>1, TwoDigits, Zenon
<1> QED
  BY <1>3, <1>4, Zenon DEF le_u64, U64Values

-----------------------------------------------------------------------------
(* Packets: the header in front of a payload.                              *)

\* The twelve bytes in front of a payload.
Header(code, len) == ((MAGIC \o put_u16(code)) \o put_u16(0)) \o put_u32(len)

\* They are twelve.
LEMMA HeaderText ==
    ASSUME NEW code \in Nat, NEW len \in Nat
    PROVE  Header(code, len) \in TextOf(12)
<1>1. MAGIC \in TextOf(4)
  BY Sizes DEF MAGIC, TextOf, Text, Byte
<1>2. put_u16(code) \in TextOf(2) /\ put_u16(0) \in TextOf(2) /\ put_u32(len) \in TextOf(4)
  BY PutU16, PutU32
<1>3. MAGIC \o put_u16(code) \in TextOf(4 + 2)
  BY <1>1, <1>2, CatOf
<1>4. (MAGIC \o put_u16(code)) \o put_u16(0) \in TextOf(6 + 2)
  BY <1>2, <1>3, CatOf
<1>5. ((MAGIC \o put_u16(code)) \o put_u16(0)) \o put_u32(len) \in TextOf(8 + 4)
  BY <1>2, <1>4, CatOf
<1> QED
  BY <1>5 DEF Header

\* A number that fits does not wrap.
LEMMA SmallMod ==
    ASSUME NEW w \in Nat, w > 0, NEW x \in 0..(w - 1)
    PROVE  x \in Nat /\ x % w = x
  OBVIOUS

\* Where the parts of a header lie.
LEMMA HeaderParts ==
    ASSUME NEW code \in Nat, NEW len \in Nat
    PROVE  /\ \A i \in 1..4 : Header(code, len)[i] = MAGIC[i] /\ Header(code, len)[8 + i] = put_u32(len)[i]
           /\ \A i \in 1..2 : Header(code, len)[4 + i] = put_u16(code)[i]
<1> DEFINE mt == put_u16(code)
           fl == put_u16(0)
           pl == put_u32(len)
           x == MAGIC \o mt
           y == x \o fl
           z == y \o pl
<1>1. MAGIC \in TextOf(4)
  BY Sizes DEF MAGIC, TextOf, Text, Byte
<1>2. mt \in TextOf(2) /\ fl \in TextOf(2) /\ pl \in TextOf(4)
  BY PutU16, PutU32
<1> HIDE DEF mt, fl, pl
<1>3. x \in TextOf(6) /\ (\A i \in 1..4 : x[i] = MAGIC[i]) /\ \A i \in 1..2 : x[4 + i] = mt[i]
  BY <1>1, <1>2 DEF TextOf, Text
<1> HIDE DEF x
<1>4. y \in TextOf(8) /\ \A i \in 1..6 : y[i] = x[i]
  BY <1>2, <1>3 DEF TextOf, Text
<1> HIDE DEF y
<1>5. (\A i \in 1..8 : z[i] = y[i]) /\ \A i \in 1..4 : z[8 + i] = pl[i]
  BY <1>2, <1>4, SMTT(20) DEF TextOf, Text
<1> HIDE DEF z
<1>6. (\A i \in 1..4 : z[i] = MAGIC[i] /\ z[8 + i] = pl[i]) /\ \A i \in 1..2 : z[4 + i] = mt[i]
  <2>1. (\A i \in 1..4 : i \in 1..6 /\ i \in 1..8) /\ \A i \in 1..2 : 4 + i \in 1..6 /\ 4 + i \in 1..8
    OBVIOUS
  <2> QED
    BY <1>3, <1>4, <1>5, <2>1, Zenon
<1> QED
  BY <1>6, Zenon DEF mt, fl, pl, x, y, z, Header

\* SeqEqual for texts of w bytes.
LEMMA TextOfEqual ==
    ASSUME NEW w \in Nat, NEW s \in TextOf(w), NEW t \in TextOf(w), \A i \in 1..w : s[i] = t[i]
    PROVE  s = t
<1>1. s \in Seq(Byte) /\ t \in Seq(Byte) /\ Len(s) = Len(t) /\ Len(s) = w
  BY DEF TextOf, Text
<1> QED
  BY <1>1, SeqEqual, Zenon

\* What the decoder reads in a header is what the encoder wrote.
LEMMA HeaderBack ==
    ASSUME NEW code \in 0..(U16Values - 1), NEW len \in 0..(U32Values - 1),
           NEW b \in Text, Len(b) >= 12, \A i \in 1..12 : b[i] = Header(code, len)[i]
    PROVE  SubSeq(b, 1, 4) = MAGIC /\ msg_type(b) = code /\ payload_len(b) = len
<1>0. code \in Nat /\ code % U16Values = code /\ len \in Nat /\ len % U32Values = len
  <2>1. U16Values \in Nat /\ U16Values > 0 /\ U32Values \in Nat /\ U32Values > 0
    BY Sizes
  <2> QED
    BY <2>1, SmallMod, Zenon
<1>1. MAGIC \in TextOf(4)
  BY Sizes DEF MAGIC, TextOf, Text, Byte
<1>2. /\ \A i \in 1..4 : b[i] = MAGIC[i] /\ b[8 + i] = put_u32(len)[i]
      /\ \A i \in 1..2 : b[4 + i] = put_u16(code)[i]
  <2>1. (\A i \in 1..4 : i \in 1..12 /\ 8 + i \in 1..12) /\ \A i \in 1..2 : 4 + i \in 1..12
    OBVIOUS
  <2> QED
    BY <1>0, <2>1, HeaderParts, Zenon
<1>3. /\ SubSeq(b, 5, 6) \in Text /\ \A i \in 1..2 : SubSeq(b, 5, 6)[i] = b[4 + i]
      /\ SubSeq(b, 9, 12) \in TextOf(4) /\ \A i \in 1..4 : SubSeq(b, 9, 12)[i] = b[8 + i]
  <2>1. SubSeq(b, 5, 6) \in Text /\ \A i \in 1..2 : SubSeq(b, 5, 6)[i] = b[4 + i]
    BY SMTT(20) DEF Text
  <2>2. SubSeq(b, 9, 12) \in TextOf(4) /\ \A i \in 1..4 : SubSeq(b, 9, 12)[i] = b[8 + i]
    BY SMTT(20) DEF Text, TextOf
  <2> QED
    BY <2>1, <2>2, Zenon
<1>4. SubSeq(b, 1, 4) = MAGIC
  <2> DEFINE s == SubSeq(b, 1, 4)
  <2>1. s \in TextOf(4) /\ \A i \in 1..4 : s[i] = b[i]
    BY SMTT(20) DEF Text, TextOf
  <2>2. \A i \in 1..4 : s[i] = MAGIC[i]
    BY <1>2, <2>1, Zenon
  <2> HIDE DEF s
  <2>3. s = MAGIC
    BY <1>1, <2>1, <2>2, TextOfEqual, Zenon
  <2> QED
    BY <2>3, Zenon DEF s
<1>5. msg_type(b) = code
  <2>1. \A i \in 1..2 : SubSeq(b, 5, 6)[i] = put_u16(code)[i]
    BY <1>2, <1>3, Zenon
  <2> QED
    BY <1>0, <2>1, LeU16, Zenon DEF msg_type
<1>6. payload_len(b) = len
  <2> DEFINE s == SubSeq(b, 9, 12)
  <2>1. s \in Text /\ Len(s) >= 4 /\ \A i \in 1..4 : s[i] = put_u32(len)[i]
    BY <1>2, <1>3, Zenon DEF TextOf
  <2> HIDE DEF s
  <2>2. le_u32(s) = len % U32Values
    BY <1>0, <2>1, LeU32, Zenon
  <2> QED
    BY <1>0, <2>2, Zenon DEF payload_len, s
<1> QED
  BY <1>4, <1>5, <1>6

\* A packet is its header and its payload.
LEMMA Packed ==
    ASSUME NEW code \in Nat, NEW payload \in Text
    PROVE  /\ encode_packet(code, payload) = Header(code, Len(payload)) \o payload
           /\ Header(code, Len(payload)) \in TextOf(12)
           /\ encode_packet(code, payload) \in Text
           /\ Len(encode_packet(code, payload)) = 12 + Len(payload)
           /\ Len(payload) \in Nat
<1>1. Len(payload) \in Nat /\ payload \in TextOf(Len(payload))
  BY DEF TextOf, Text
<1>2. encode_packet(code, payload) = Header(code, Len(payload)) \o payload
  BY Zenon DEF encode_packet, Header
<1>3. Header(code, Len(payload)) \in TextOf(12)
  BY <1>1, HeaderText
<1>4. 12 \in Nat
  OBVIOUS
<1>5. Header(code, Len(payload)) \o payload \in TextOf(12 + Len(payload))
  BY <1>1, <1>3, <1>4, CatOf, Zenon
<1>6. ASSUME NEW w \in Nat, NEW p \in TextOf(w) PROVE p \in Text /\ Len(p) = w
  BY DEF TextOf, Text
<1>7. 12 + Len(payload) \in Nat
  BY <1>1
<1> QED
  BY <1>1, <1>2, <1>3, <1>5, <1>6, <1>7, Zenon

\* Any buffer that begins with the header of a packet.
LEMMA HeaderOf ==
    ASSUME NEW code \in 0..(U16Values - 1), NEW payload \in Text, Len(payload) < U32Values,
           NEW b \in Text, Len(b) >= 12, \A i \in 1..12 : b[i] = encode_packet(code, payload)[i]
    PROVE  SubSeq(b, 1, 4) = MAGIC /\ msg_type(b) = code /\ payload_len(b) = Len(payload)
<1> DEFINE len == Len(payload)
           h == Header(code, len)
<1>0. code \in Nat
  BY Sizes
<1>1. encode_packet(code, payload) = h \o payload /\ h \in TextOf(12) /\ len \in Nat
  BY <1>0, Packed, Zenon
<1>2. len \in 0..(U32Values - 1)
  BY <1>1, Sizes
<1> HIDE DEF h, len
<1>3. \A i \in 1..12 : (h \o payload)[i] = h[i]
  BY <1>1, SMTT(20) DEF TextOf, Text
<1>4. \A i \in 1..12 : b[i] = h[i]
  BY <1>1, <1>3, Zenon
<1> QED
  BY <1>2, <1>4, HeaderBack, Zenon DEF h, len

\* A packet is not decoded before its last byte.
LEMMA Incomplete ==
    ASSUME NEW code \in 0..(U16Values - 1), NEW payload \in Text, Len(payload) < U32Values,
           NEW p, p = encode_packet(code, payload), NEW k \in 0..(Len(p) - 1)
    PROVE  decode_packet(SubSeq(p, 1, k)) = None
<1> DEFINE b == SubSeq(p, 1, k)
<1>0. code \in Nat
  BY Sizes
<1>1. p \in Text /\ Len(p) = 12 + Len(payload) /\ Len(payload) \in Nat
  BY <1>0, Packed, Zenon
<1>2. b \in Text /\ Len(b) = k /\ \A i \in 1..k : b[i] = p[i]
  <2>1. 1 \in 1..(Len(p) + 1) /\ k \in (1 - 1)..Len(p) /\ k - 1 + 1 = k /\ \A i \in 1..k : 1 + i - 1 = i
    BY <1>1
  <2>2. b \in Text /\ Len(b) = k - 1 + 1 /\ \A i \in 1..(k - 1 + 1) : b[i] = p[1 + i - 1]
    BY <1>1, <2>1, TextSub, ZenonT(40)
  <2> QED
    BY <2>1, <2>2, Zenon
<1> HIDE DEF b
<1>3. CASE k < 12
  <2>1. Len(b) < HEADER_LEN
    BY <1>2, <1>3 DEF HEADER_LEN
  <2> QED
    BY <2>1, Zenon DEF decode_packet, b
<1>4. CASE k >= 12
  <2>1. Len(b) >= 12 /\ \A i \in 1..12 : b[i] = encode_packet(code, payload)[i]
    <3>1. \A i \in 1..12 : i \in 1..k
      BY <1>1, <1>4
    <3>2. Len(b) >= 12
      BY <1>2, <1>4
    <3> QED
      BY <1>2, <3>1, <3>2, Zenon
  <2>2. SubSeq(b, 1, 4) = MAGIC /\ msg_type(b) = code /\ payload_len(b) = Len(payload)
    BY <1>2, <2>1, HeaderOf, Zenon
  <2>3. ~(Len(b) < HEADER_LEN) /\ Len(b) < HEADER_LEN + Len(payload)
    BY <1>1, <1>2, <1>4 DEF HEADER_LEN
  <2> QED
    BY <2>2, <2>3, Zenon DEF decode_packet, b
<1> QED
  BY <1>1, <1>3, <1>4

\* With it, it is, whatever follows.
LEMMA Completed ==
    ASSUME NEW code \in 0..(U16Values - 1), NEW payload \in Text, Len(payload) < U32Values,
           NEW p, p = encode_packet(code, payload), NEW t \in Text
    PROVE  decode_packet(p \o t) =
               IF code \notin DOMAIN MsgType THEN Error
               ELSE [st |-> "some", type |-> MsgType[code], consumed |-> Len(p), payload |-> payload]
<1> DEFINE b == p \o t
           h == Header(code, Len(payload))
<1>0. code \in Nat
  BY Sizes
<1>1. p \in Text /\ Len(p) = 12 + Len(payload) /\ Len(payload) \in Nat
  BY <1>0, Packed, Zenon
<1>7. p = h \o payload /\ h \in TextOf(12)
  BY <1>0, Packed, Zenon
<1>2. b \in Text /\ Len(b) = Len(p) + Len(t) /\ Len(t) \in Nat /\ \A i \in 1..Len(p) : b[i] = p[i]
  BY <1>1, SMTT(20) DEF Text
<1>3. SubSeq(b, 13, 12 + Len(payload)) = payload
  <2>1. b = h \o (payload \o t)
    <3> HIDE DEF h
    <3>1. h \in Text /\ payload \in Text /\ t \in Text
      BY <1>7 DEF TextOf
    <3>2. (h \o payload) \o t = h \o (payload \o t)
      BY <3>1, TextAssoc, Zenon
    <3> QED
      BY <1>7, <3>2, Zenon
  <2> DEFINE s == SubSeq(b, 13, 12 + Len(payload))
  <2>2. s \in Text /\ Len(s) = Len(payload) /\ \A i \in 1..Len(payload) : s[i] = b[12 + i]
    <3> HIDE DEF b
    <3> QED
      BY <1>1, <1>2 DEF Text
  <2>3. \A i \in 1..Len(payload) : b[12 + i] = payload[i]
    <3>1. \A i \in 1..Len(payload) : (h \o (payload \o t))[12 + i] = payload[i]
      <4>1. h \in TextOf(12)
        BY <1>7
      <4> HIDE DEF h
      <4> QED
        BY <4>1, SMTT(20) DEF TextOf, Text
    <3> QED
      BY <2>1, <3>1, Zenon
  <2> HIDE DEF b, s
  <2>4. s = payload
    BY <2>2, <2>3, SeqEqual, Zenon DEF Text
  <2> QED
    BY <2>4, Zenon DEF s
<1> HIDE DEF b
<1>4. SubSeq(b, 1, 4) = MAGIC /\ msg_type(b) = code /\ payload_len(b) = Len(payload)
  <2>1. Len(b) >= 12 /\ \A i \in 1..12 : b[i] = encode_packet(code, payload)[i]
    <3>1. (\A i \in 1..12 : i \in 1..Len(p)) /\ Len(b) >= 12
      BY <1>1, <1>2
    <3> QED
      BY <1>2, <3>1, Zenon
  <2> QED
    BY <1>2, <2>1, HeaderOf, Zenon
<1>5. /\ ~(Len(b) < HEADER_LEN) /\ ~(Len(b) < HEADER_LEN + Len(payload))
      /\ HEADER_LEN + Len(payload) = Len(p) /\ HEADER_LEN + 1 = 13 /\ HEADER_LEN = 12
  BY <1>1, <1>2 DEF HEADER_LEN
<1>6. Packet(b) = [st |-> "some", type |-> MsgType[code], consumed |-> Len(p), payload |-> payload]
  BY <1>3, <1>4, <1>5, Zenon DEF Packet
<1> QED
  BY <1>4, <1>5, <1>6, Zenon DEF decode_packet, b

\* How the decoder of this side reads a payload.
Reads(type, payload) ==
    IF side = "daemon" THEN decode_client_payload(type, payload) ELSE decode_daemon_payload(type, payload)

\* A packet behaves as its payload is read.
LEMMA PacketBehaves ==
    ASSUME NEW code \in 0..(U16Values - 1), NEW payload \in Text, Len(payload) < U32Values, NEW o,
           code \notin DOMAIN MsgType => o = Bad,
           code \in DOMAIN MsgType => \E r : Reads(MsgType[code], payload) = IF o = Bad THEN Eof ELSE Got(o, r)
    PROVE  Behaves(side, encode_packet(code, payload), o)
<1> DEFINE p == encode_packet(code, payload)
<1>0. code \in Nat
  BY Sizes
<1>1. p \in Text /\ Len(p) >= 12
  <2>1. p \in Text /\ Len(p) = 12 + Len(payload) /\ Len(payload) \in Nat
    BY <1>0, Packed, Zenon
  <2> HIDE DEF p
  <2> QED
    BY <2>1
<1>2. Parsed(side, None) = None /\ Parsed(side, Error) = Error
  BY DEF Parsed, None, Error
<1>3. ASSUME NEW k \in 0..(Len(p) - 1) PROVE decode_from(side, SubSeq(p, 1, k)) = None
  <2>1. decode_packet(SubSeq(p, 1, k)) = None
    BY Incomplete, Zenon
  <2> QED
    BY <1>2, <2>1, Zenon DEF decode_from
<1>4. ASSUME NEW t \in Text
      PROVE  decode_from(side, p \o t) =
                 IF o = Bad THEN Error ELSE [st |-> "some", msg |-> o, consumed |-> Len(p)]
  <2> DEFINE q == [st |-> "some", type |-> MsgType[code], consumed |-> Len(p), payload |-> payload]
  <2>1. decode_packet(p \o t) = IF code \notin DOMAIN MsgType THEN Error ELSE q
    BY Completed, Zenon
  <2>2. CASE code \notin DOMAIN MsgType
    BY <1>2, <2>1, <2>2, Zenon DEF decode_from
  <2>3. CASE code \in DOMAIN MsgType
    <3>1. decode_from(side, p \o t) = Parsed(side, q)
      BY <2>1, <2>3, Zenon DEF decode_from
    <3>2. q.st = "some" /\ q.type = MsgType[code] /\ q.payload = payload /\ q.consumed = Len(p)
      <4> HIDE DEF p
      <4> QED
        OBVIOUS
    <3> HIDE DEF q, p
    <3>3. Parsed(side, q) = Message(q, Reads(MsgType[code], payload))
      BY <3>2, Zenon DEF Parsed, Reads
    <3>4. PICK r : Reads(MsgType[code], payload) = IF o = Bad THEN Eof ELSE Got(o, r)
      BY <2>3, Zenon
    <3>5. Message(q, Eof) = Error
      BY DEF Message, Eof
    <3>6. Message(q, Got(o, r)) = [st |-> "some", msg |-> o, consumed |-> Len(p)]
      BY <3>2, Zenon DEF Message, Got
    <3> QED
      BY <3>1, <3>3, <3>4, <3>5, <3>6, Zenon
  <2> QED
    BY <2>2, <2>3, Zenon
<1> HIDE DEF p
<1>5. Behaves(side, p, o)
  BY <1>1, <1>3, <1>4, Zenon DEF Behaves
<1> QED
  BY <1>5, Zenon DEF p

-----------------------------------------------------------------------------
(* Integers, strings and data: what put_* wrote, get_* returns.            *)

\* What was put in front is taken off again, and the rest is left.
LEMMA TookFront ==
    ASSUME NEW w \in Nat, NEW s \in TextOf(w), NEW t \in Text, NEW v
    PROVE  Took(v, w, s \o t) = Got(v, t)
<1>1. Len(s) = w /\ Len(s \o t) = w + Len(t) /\ Len(t) \in Nat
  BY DEF TextOf, Text
<1>2. SubSeq(s \o t, w + 1, Len(s \o t)) = t
  BY <1>1, CatBack DEF TextOf, Text
<1>3. ~(Len(s \o t) < w)
  BY <1>1
<1> QED
  BY <1>2, <1>3, Zenon DEF Took

\* take_u16 returns what put_u16 wrote, wrapped, and leaves the rest.
LEMMA GetU16 ==
    ASSUME NEW n \in Nat, NEW t \in Text
    PROVE  get_u16(put_u16(n) \o t) = Got(n % U16Values, t)
<1>1. put_u16(n) \in TextOf(2)
  BY PutU16
<1>2. \A i \in 1..2 : (put_u16(n) \o t)[i] = put_u16(n)[i]
  BY <1>1 DEF TextOf, Text
<1>3. le_u16(put_u16(n) \o t) = n % U16Values
  BY <1>2, LeU16, Zenon
<1> QED
  BY <1>1, <1>3, TookFront DEF get_u16

\* take_u32 returns what put_u32 wrote.
LEMMA GetU32 ==
    ASSUME NEW n \in 0..(U32Values - 1), NEW t \in Text
    PROVE  get_u32(put_u32(n) \o t) = Got(n, t)
<1>0. n \in Nat /\ n % U32Values = n
  BY Sizes
<1>1. put_u32(n) \in TextOf(4)
  BY <1>0, PutU32
<1>2. put_u32(n) \o t \in Text /\ Len(put_u32(n) \o t) >= 4 /\ \A i \in 1..4 : (put_u32(n) \o t)[i] = put_u32(n)[i]
  BY <1>1 DEF TextOf, Text
<1>3. le_u32(put_u32(n) \o t) = n % U32Values
  BY <1>0, <1>2, LeU32, Zenon
<1> QED
  BY <1>0, <1>1, <1>3, TookFront DEF get_u32

\* take_u64 returns what put_u64 wrote.
LEMMA GetU64 ==
    ASSUME NEW n \in 0..(U64Values - 1), NEW t \in Text
    PROVE  get_u64(put_u64(n) \o t) = Got(n, t)
<1>0. n \in Nat /\ n % U64Values = n
  BY Sizes
<1>1. put_u64(n) \in TextOf(8)
  BY <1>0, PutU64
<1>2. put_u64(n) \o t \in Text /\ Len(put_u64(n) \o t) >= 8 /\ \A i \in 1..8 : (put_u64(n) \o t)[i] = put_u64(n)[i]
  BY <1>1 DEF TextOf, Text
<1>3. le_u64(put_u64(n) \o t) = n % U64Values
  BY <1>0, <1>2, LeU64, Zenon
<1> QED
  BY <1>0, <1>1, <1>3, TookFront DEF get_u64

\* A bool is one byte.
LEMMA PutBool ==
    ASSUME NEW b \in BOOLEAN
    PROVE  put_bool(b) \in TextOf(1)
  BY Sizes DEF put_bool, TextOf, Text, Byte

\* A bool comes back.
LEMMA GetBool ==
    ASSUME NEW b \in BOOLEAN, NEW t \in Text
    PROVE  NonZero(get_u8(put_bool(b) \o t)) = Got(b, t)
<1>1. (put_bool(b) \o t)[1] = IF b THEN 1 ELSE 0
  BY PutBool DEF put_bool, TextOf, Text
<1>2. get_u8(put_bool(b) \o t) = Got(IF b THEN 1 ELSE 0, t)
  BY <1>1, PutBool, TookFront DEF get_u8
<1>3. NonZero(get_u8(put_bool(b) \o t)) = Got((IF b THEN 1 ELSE 0) # 0, t)
  BY <1>2 DEF NonZero, Got
<1>4. ((IF b THEN 1 ELSE 0) # 0) = b
  OBVIOUS
<1> QED
  BY <1>3, <1>4

\* As many bytes as the u16 in front says are taken.
LEMMA GetCut ==
    ASSUME NEW n \in Nat, NEW c \in Text, NEW t \in Text, Len(c) = n % U16Values
    PROVE  get_data(put_u16(n) \o (c \o t)) = Got(c, t)
<1>1. c \o t \in Text /\ Len(c) \in Nat /\ c \in TextOf(Len(c))
  BY DEF Text, TextOf
<1>2. get_u16(put_u16(n) \o (c \o t)) = Got(Len(c), c \o t)
  BY <1>1, GetU16, Zenon
<1>3. SubSeq(c \o t, 1, Len(c)) = c
  BY CatFront DEF Text
<1>4. Took(c, Len(c), c \o t) = Got(c, t)
  BY <1>1, TookFront, Zenon
<1>5. Bytes(Got(Len(c), c \o t)) = Took(SubSeq(c \o t, 1, Len(c)), Len(c), c \o t)
  BY Zenon DEF Bytes, Got
<1> QED
  BY <1>2, <1>3, <1>4, <1>5, Zenon DEF get_data

\* What put_string keeps of a string.
LEMMA Cuts ==
    ASSUME NEW s \in Text
    PROVE  /\ CutString(s) \in Text
           /\ Len(CutString(s)) = Capped(Len(s)) /\ Capped(Len(s)) \in 0..(U16Values - 1)
           /\ Capped(Len(s)) \in Nat /\ Capped(Len(s)) <= Len(s)
<1>1. Len(s) \in Nat
  BY DEF Text
<1>2. Capped(Len(s)) \in 0..(U16Values - 1) /\ Capped(Len(s)) <= Len(s) /\ Capped(Len(s)) \in Nat
  BY <1>1, Sizes DEF Capped
<1>3. CutString(s) \in Text /\ Len(CutString(s)) = Capped(Len(s)) - 1 + 1
  BY <1>1, <1>2, TextSub DEF CutString
<1> QED
  BY <1>2, <1>3

\* put_string: a length that fits u16, and as many bytes.
LEMMA PutString ==
    ASSUME NEW s \in Text
    PROVE  /\ put_string(s) = put_u16(Capped(Len(s))) \o CutString(s)
           /\ put_string(s) \in Text
           /\ Len(put_string(s)) = 2 + Capped(Len(s))
<1>1. put_string(s) = put_u16(Capped(Len(s))) \o CutString(s)
  BY Zenon DEF put_string, CutString
<1>2. put_u16(Capped(Len(s))) \in TextOf(2) /\ CutString(s) \in TextOf(Capped(Len(s)))
  BY Cuts, PutU16, SMTT(20) DEF TextOf
<1>3. put_u16(Capped(Len(s))) \o CutString(s) \in TextOf(2 + Capped(Len(s)))
  BY <1>2, Cuts, CatOf
<1> QED
  BY <1>1, <1>3, Cuts DEF TextOf

\* A string comes back cut, unless the cut tore a character.
LEMMA GetString ==
    ASSUME NEW s \in Text, NEW t \in Text
    PROVE  get_string(put_string(s) \o t) =
               IF from_utf8(CutString(s)) THEN Got(CutString(s), t) ELSE Eof
<1> DEFINE n == Capped(Len(s))
           c == CutString(s)
<1>1. n \in Nat /\ n % U16Values = n /\ c \in Text /\ Len(c) = n
  <2>1. n \in 0..(U16Values - 1) /\ c \in Text /\ Len(c) = n
    BY Cuts, Zenon
  <2> HIDE DEF n, c
  <2> QED
    BY <2>1, Sizes
<1>2. put_u16(n) \in Text
  BY <1>1, PutU16 DEF TextOf
<1> HIDE DEF n, c
<1>3. put_string(s) \o t = put_u16(n) \o (c \o t)
  <2>1. put_string(s) = put_u16(n) \o c
    BY PutString, Zenon DEF n, c
  <2>2. (put_u16(n) \o c) \o t = put_u16(n) \o (c \o t)
    BY <1>1, <1>2, TextAssoc, Zenon
  <2> QED
    BY <2>1, <2>2, Zenon
<1>4. get_data(put_u16(n) \o (c \o t)) = Got(c, t)
  BY <1>1, GetCut
<1>5. get_string(put_string(s) \o t) = Utf8(Got(c, t))
  BY <1>3, <1>4, Zenon DEF get_string
<1>6. Utf8(Got(c, t)) = IF from_utf8(c) THEN Got(c, t) ELSE Eof
  BY Zenon DEF Utf8, Got
<1> QED
  BY <1>5, <1>6, Zenon DEF c

\* Data comes back up to its length, wrapped.
LEMMA GetData ==
    ASSUME NEW d \in Text, NEW t \in Text
    PROVE  /\ Len(d) % U16Values \in 0..Len(d)
           /\ \E r \in Text : get_data(put_data(d) \o t) = Got(SubSeq(d, 1, Len(d) % U16Values), r)
<1> DEFINE k == Len(d) % U16Values
           c == SubSeq(d, 1, k)
           r == SubSeq(d, k + 1, Len(d))
<1>1. Len(d) \in Nat /\ k \in 0..Len(d)
  <2>1. Len(d) \in Nat
    BY DEF Text
  <2> QED
    BY <2>1, Sizes, Divide
<1> HIDE DEF k
<1>2. c \in Text /\ Len(c) = k /\ r \in Text
  BY <1>1, TextSub
<1>3. d = c \o r
  BY <1>1, TextSplit, Zenon
<1>4. put_u16(Len(d)) \in Text /\ r \o t \in Text
  BY <1>1, <1>2, PutU16 DEF TextOf, Text
<1> HIDE DEF c, r
<1>5. put_data(d) \o t = put_u16(Len(d)) \o (c \o (r \o t))
  <2>1. put_data(d) = put_u16(Len(d)) \o d
    BY DEF put_data
  <2>2. (put_u16(Len(d)) \o d) \o t = put_u16(Len(d)) \o (d \o t)
    BY <1>4, TextAssoc, ZenonT(40)
  <2>3. (c \o r) \o t = c \o (r \o t)
    BY <1>2, TextAssoc, ZenonT(40)
  <2> QED
    BY <2>1, <2>2, <2>3, <1>3, Zenon
<1>6. get_data(put_data(d) \o t) = Got(c, r \o t)
  <2>1. Len(c) = Len(d) % U16Values
    BY <1>2 DEF k
  <2>2. get_data(put_u16(Len(d)) \o (c \o (r \o t))) = Got(c, r \o t)
    BY <1>1, <1>2, <1>4, <2>1, GetCut, Zenon
  <2> QED
    BY <1>5, <2>2, Zenon
<1> QED
  BY <1>1, <1>4, <1>6, Zenon DEF c, k

-----------------------------------------------------------------------------
(* Lists of strings.                                                       *)

\* Induction on the naturals, for a set.  The lemmas that need it assume it: it is
\* proved in StreamProofs, from theorems whose mere presence slows the provers down.
NatInductive == \A T \in SUBSET Nat : 0 \in T /\ (\A k \in T : k + 1 \in T) => T = Nat

\* The recursion of Written: the strings from the last k on.
LEMMA WrittenRec ==
    ASSUME NatInductive, NEW list \in Seq(Text)
    PROVE  /\ Written(list)[0] = <<>>
           /\ \A k \in 1..Len(list) :
                  Written(list)[k] = put_string(list[Len(list) - k + 1]) \o Written(list)[k - 1]
<1> DEFINE n == Len(list)
           Step(k, x) == put_string(list[n - k + 1]) \o x
<1>4. n \in Nat
  OBVIOUS
<1> HIDE DEF n, Step
<1> DEFINE Is(f, m) == f = [k \in 0..m |-> IF k = 0 THEN <<>> ELSE Step(k, f[k - 1])]
           T == {m \in Nat : \E f : Is(f, m)}
<1>1. 0 \in T
  <2> DEFINE f == [k \in 0..0 |-> <<>>]
  <2>1. Is(f, 0)
    OBVIOUS
  <2> QED
    BY <2>1, Zenon
<1>2. ASSUME NEW m \in T PROVE m + 1 \in T
  <2>1. PICK f : Is(f, m)
    OBVIOUS
  <2> DEFINE g == [k \in 0..(m + 1) |-> IF k = 0 THEN <<>> ELSE Step(k, f[k - 1])]
  <2>2. \A k \in 0..m : g[k] = f[k]
    <3>1. \A k \in 0..m : f[k] = IF k = 0 THEN <<>> ELSE Step(k, f[k - 1])
      BY <2>1
    <3> QED
      BY <3>1
  <2>3. \A k \in 0..(m + 1) : k # 0 => g[k - 1] = f[k - 1]
    <3> HIDE DEF g
    <3> QED
      BY <2>2
  <2>4. Is(g, m + 1)
    BY <2>3, Zenon
  <2> HIDE DEF g
  <2> QED
    BY <2>4
<1>3. T = Nat
  <2>1. T \in SUBSET Nat
    OBVIOUS
  <2> HIDE DEF T
  <2> QED
    BY <1>1, <1>2, <2>1, Zenon DEF NatInductive
<1>5. \E f : Is(f, n)
  BY <1>3, <1>4, Zenon
<1>6. Is(Written(list), n)
  BY <1>5, Zenon DEF Written, Step, n
<1>7. \A k \in 0..n : Written(list)[k] = IF k = 0 THEN <<>> ELSE Step(k, Written(list)[k - 1])
  BY <1>6, Zenon
<1>8. Written(list)[0] = <<>> /\ \A k \in 1..n : Written(list)[k] = Step(k, Written(list)[k - 1])
  BY <1>4, <1>7
<1> QED
  BY <1>8, Zenon DEF n, Step

\* What k strings of the list have become when they are read.
CutList(list, k)  == [j \in 1..k |-> CutString(list[j])]

\* Where a string was torn nothing is read.
ReadList(list, k, rest) ==
    IF \A j \in 1..k : from_utf8(CutString(list[j])) THEN Got(CutList(list, k), rest) ELSE Eof

\* One string more.
LEMMA ReadOneMore ==
    ASSUME NEW list \in Seq(Text), NEW k \in 1..Len(list), NEW t \in Text
    PROVE  get_one_more(ReadList(list, k - 1, put_string(list[k]) \o t)) = ReadList(list, k, t)
<1> DEFINE in == put_string(list[k]) \o t
           c == CutString(list[k])
           W(m) == \A j \in 1..m : from_utf8(CutString(list[j]))
<1>1. list[k] \in Text /\ k \in Nat /\ k - 1 \in Nat
  OBVIOUS
<1>2. get_string(in) = IF from_utf8(c) THEN Got(c, t) ELSE Eof
  BY <1>1, GetString, Zenon
<1>3. W(k) <=> W(k - 1) /\ from_utf8(c)
  <2>1. ASSUME W(k - 1), from_utf8(c), NEW j \in 1..k PROVE from_utf8(CutString(list[j]))
    <3>1. j = k \/ j \in 1..(k - 1)
      OBVIOUS
    <3> QED
      BY <3>1, <2>1, Zenon
  <2>2. k \in 1..k /\ \A j \in 1..(k - 1) : j \in 1..k
    OBVIOUS
  <2> QED
    BY <2>1, <2>2, Zenon
<1>4. Append(CutList(list, k - 1), c) = CutList(list, k)
  <2>1. \A j \in 1..k : CutString(list[j]) \in Text
    BY Cuts
  <2>2. CutList(list, k - 1) \in Seq(Text) /\ CutList(list, k) \in Seq(Text)
    BY <2>1 DEF CutList
  <2>3. Len(CutList(list, k - 1)) = k - 1 /\ Len(CutList(list, k)) = k
    BY <2>1 DEF CutList
  <2> QED
    BY <2>1, <2>2, <2>3 DEF CutList
<1> HIDE DEF in, c, W
<1>5. CASE ~W(k - 1)
  <2>1. ReadList(list, k - 1, in) = Eof /\ ReadList(list, k, t) = Eof
    BY <1>3, <1>5, Zenon DEF ReadList, W
  <2>2. get_one_more(Eof) = Eof
    BY DEF get_one_more, Eof
  <2> QED
    BY <2>1, <2>2, Zenon DEF in
<1>6. CASE W(k - 1)
  <2>1. ReadList(list, k - 1, in) = Got(CutList(list, k - 1), in)
    BY <1>6, Zenon DEF ReadList, W
  <2>2. get_one_more(Got(CutList(list, k - 1), in)) = Pushed(CutList(list, k - 1), get_string(in))
    BY Zenon DEF get_one_more, Got
  <2>3. CASE from_utf8(c)
    <3>1. Pushed(CutList(list, k - 1), Got(c, t)) = Got(CutList(list, k), t)
      BY <1>4, Zenon DEF Pushed, Got
    <3>2. ReadList(list, k, t) = Got(CutList(list, k), t)
      BY <1>3, <1>6, <2>3, Zenon DEF ReadList, W
    <3> QED
      BY <1>2, <2>1, <2>2, <2>3, <3>1, <3>2, Zenon DEF in
  <2>4. CASE ~from_utf8(c)
    <3>1. Pushed(CutList(list, k - 1), Eof) = Eof
      BY Zenon DEF Pushed, Eof
    <3>2. ReadList(list, k, t) = Eof
      BY <1>3, <2>4, Zenon DEF ReadList, W
    <3> QED
      BY <1>2, <2>1, <2>2, <2>4, <3>1, <3>2, Zenon DEF in
  <2> QED
    BY <2>3, <2>4, Zenon
<1> QED
  BY <1>5, <1>6, Zenon

\* The recursion of ReadStrings, where the input holds the first c strings of the
\* list and left[k] is what follows the k-th: they are read, and perhaps one more.
LEMMA ReadStringsRec ==
    ASSUME NatInductive, NEW list \in Seq(Text), NEW c \in 0..Len(list), NEW left \in [0..c -> Text],
           \A k \in 1..c : left[k - 1] = put_string(list[k]) \o left[k],
           NEW count \in c..(c + 1)
    PROVE  ReadStrings(count, left[0])[count] =
               IF count = c THEN ReadList(list, c, left[c]) ELSE get_one_more(ReadList(list, c, left[c]))
<1> DEFINE Closed(k) == IF k <= c THEN ReadList(list, k, left[k])
                        ELSE get_one_more(ReadList(list, c, left[c]))
           g == [k \in 0..count |-> Closed(k)]
           Is(f) == f = [k \in 0..count |-> IF k = 0 THEN Got(<<>>, left[0]) ELSE get_one_more(f[k - 1])]
<1>0. c \in Nat /\ count \in Nat /\ c <= Len(list) /\ (count = c \/ count = c + 1)
  OBVIOUS
<1>1. Closed(0) = Got(<<>>, left[0])
  <2>1. CutList(list, 0) = <<>>
    BY DEF CutList
  <2>2. ReadList(list, 0, left[0]) = Got(CutList(list, 0), left[0])
    BY DEF ReadList
  <2> QED
    BY <2>1, <2>2, <1>0
<1>2. ASSUME NEW k \in 1..count PROVE Closed(k) = get_one_more(Closed(k - 1))
  <2>1. CASE k <= c
    <3>1. k \in 1..Len(list) /\ k \in 1..c /\ k \in 0..c /\ k - 1 <= c
      BY <1>0, <2>1
    <3>2. left[k] \in Text /\ left[k - 1] = put_string(list[k]) \o left[k]
      BY <3>1, Zenon
    <3>3. get_one_more(ReadList(list, k - 1, put_string(list[k]) \o left[k])) = ReadList(list, k, left[k])
      BY <3>1, <3>2, ReadOneMore, Zenon
    <3> QED
      BY <2>1, <3>1, <3>2, <3>3, Zenon
  <2>2. CASE k = c + 1
    <3>1. ~(k <= c) /\ k - 1 = c /\ c <= c
      BY <1>0, <2>2
    <3> QED
      BY <3>1, Zenon
  <2> QED
    BY <1>0, <2>1, <2>2
<1> HIDE DEF Closed
<1>3. Is(g)
  BY <1>0, <1>1, <1>2
<1>4. Is(ReadStrings(count, left[0]))
  <2>1. \E f : Is(f)
    BY <1>3
  <2> QED
    BY <2>1, Zenon DEF ReadStrings
<1> DEFINE r == ReadStrings(count, left[0])
           T == {k \in Nat : k <= count => r[k] = Closed(k)}
<1>5. \A k \in 0..count : r[k] = IF k = 0 THEN Got(<<>>, left[0]) ELSE get_one_more(r[k - 1])
  BY <1>4
<1> HIDE DEF r
<1>6. 0 \in T
  BY <1>0, <1>1, <1>5
<1>7. ASSUME NEW k \in T PROVE k + 1 \in T
  <2>1. ASSUME k + 1 <= count PROVE r[k + 1] = Closed(k + 1)
    <3>1. /\ k <= count /\ k + 1 \in 1..count /\ k + 1 \in 0..count /\ k + 1 # 0 /\ (k + 1) - 1 = k
          /\ r[k] = Closed(k)
      BY <1>0, <2>1
    <3>2. r[k + 1] = get_one_more(r[k])
      BY <3>1, <1>5, Zenon
    <3>3. Closed(k + 1) = get_one_more(Closed(k))
      BY <3>1, <1>2, Zenon
    <3> QED
      BY <3>1, <3>2, <3>3, Zenon
  <2> QED
    BY <2>1
<1>8. T = Nat
  <2>1. T \in SUBSET Nat
    OBVIOUS
  <2> HIDE DEF T
  <2> QED
    BY <1>6, <1>7, <2>1, Zenon DEF NatInductive
<1>9. r[count] = Closed(count)
  BY <1>0, <1>8
<1>10. Closed(count) = IF count = c THEN ReadList(list, c, left[c]) ELSE get_one_more(ReadList(list, c, left[c]))
  BY <1>0 DEF Closed
<1> QED
  BY <1>9, <1>10, Zenon DEF r

\* The strings of a list are written as bytes.
LEMMA WrittenText ==
    ASSUME NatInductive, NEW list \in Seq(Text)
    PROVE  \A k \in 0..Len(list) : Written(list)[k] \in Text
<1> DEFINE n == Len(list)
           w == Written(list)
           T == {k \in Nat : k <= n => w[k] \in Text}
<1>0. n \in Nat
  OBVIOUS
<1>1. w[0] = <<>> /\ \A k \in 1..n : w[k] = put_string(list[n - k + 1]) \o w[k - 1]
  BY WrittenRec, Zenon
<1>2. \A k \in 1..n : list[n - k + 1] \in Text
  OBVIOUS
<1> HIDE DEF n, w
<1>3. 0 \in T
  <2>1. <<>> \in Text
    BY DEF Text
  <2>2. w[0] \in Text
    BY <1>1, <2>1, Zenon
  <2> QED
    BY <2>2
<1>4. ASSUME NEW k \in T PROVE k + 1 \in T
  <2>1. ASSUME k + 1 <= n PROVE w[k + 1] \in Text
    <3>1. k + 1 \in 1..n /\ (k + 1) - 1 = k /\ w[k] \in Text
      BY <1>0, <2>1
    <3>2. put_string(list[n - (k + 1) + 1]) \in Text
      BY <3>1, <1>2, PutString, Zenon
    <3>3. w[k + 1] = put_string(list[n - (k + 1) + 1]) \o w[k]
      BY <3>1, <1>1, Zenon
    <3>4. put_string(list[n - (k + 1) + 1]) \o w[k] \in Text
      BY <3>1, <3>2, SMTT(20) DEF Text
    <3> QED
      BY <3>3, <3>4, Zenon
  <2> QED
    BY <2>1
<1>5. T = Nat
  <2>1. T \in SUBSET Nat
    OBVIOUS
  <2> HIDE DEF T
  <2> QED
    BY <1>3, <1>4, <2>1, Zenon DEF NatInductive
<1> QED
  BY <1>0, <1>5 DEF n, w

\* put_strings writes at least the count.
LEMMA PutStrings ==
    ASSUME NatInductive, NEW list \in Seq(Text)
    PROVE  put_strings(list) \in Text /\ put_strings(list) # <<>>
<1>1. Len(list) \in Nat /\ Written(list)[Len(list)] \in Text /\ put_u16(Len(list)) \in TextOf(2)
  BY WrittenText, PutU16
<1> QED
  BY <1>1 DEF put_strings, TextOf, Text

\* A list comes back up to its count, wrapped, unless a string of it is torn.
LEMMA GetStrings ==
    ASSUME NatInductive, NEW list \in Seq(Text), NEW t \in Text
    PROVE  /\ Len(list) % U16Values \in 0..Len(list)
           /\ \E r \in Text : get_strings(put_strings(list) \o t) = ReadList(list, Len(list) % U16Values, r)
<1> DEFINE n == Len(list)
           w == Written(list)
           c == n % U16Values
           left == [k \in 0..c |-> w[n - k] \o t]
<1>1. n \in Nat /\ c \in 0..n
  <2>1. n \in Nat
    OBVIOUS
  <2> HIDE DEF n
  <2> QED
    BY <2>1, Sizes, Divide
<1>2. \A k \in 1..n : w[k] = put_string(list[n - k + 1]) \o w[k - 1]
  BY WrittenRec, Zenon
<1>3. \A k \in 0..n : w[k] \in Text
  BY WrittenText, Zenon
<1>4. \A k \in 1..n : put_string(list[k]) \in Text
  BY PutString
<1>5. put_u16(n) \in Text
  BY <1>1, PutU16 DEF TextOf
<1> HIDE DEF w, c, n
<1>6. left \in [0..c -> Text]
  <2>1. \A k \in 0..c : n - k \in 0..n
    BY <1>1
  <2>2. \A k \in 0..c : w[n - k] \o t \in Text
    BY <2>1, <1>3 DEF Text
  <2> QED
    BY <2>2, Zenon
<1>7. ASSUME NEW k \in 1..c PROVE left[k - 1] = put_string(list[k]) \o left[k]
  <2>1. /\ n - (k - 1) \in 1..n /\ n - (n - (k - 1)) + 1 = k /\ (n - (k - 1)) - 1 = n - k
        /\ n - k \in 0..n /\ k \in 1..n /\ k - 1 \in 0..c /\ k \in 0..c
    BY <1>1
  <2>2. left[k - 1] = w[n - (k - 1)] \o t /\ left[k] = w[n - k] \o t
    BY <2>1, Zenon
  <2>3. w[n - (k - 1)] = put_string(list[k]) \o w[n - k]
    <3>1. w[n - (k - 1)] = put_string(list[n - (n - (k - 1)) + 1]) \o w[(n - (k - 1)) - 1]
      BY <2>1, <1>2, Zenon
    <3>2. n - (n - (k - 1)) + 1 = k /\ (n - (k - 1)) - 1 = n - k
      BY <2>1, Zenon
    <3> QED
      BY <3>1, <3>2, Zenon
  <2>4. (put_string(list[k]) \o w[n - k]) \o t = put_string(list[k]) \o (w[n - k] \o t)
    BY <2>1, <1>3, <1>4, TextAssoc, ZenonT(40)
  <2> QED
    BY <2>2, <2>3, <2>4, Zenon
<1>8. put_strings(list) \o t = put_u16(n) \o left[0]
  <2>1. left[0] = w[n] \o t
    <3>1. 0 \in 0..c /\ n - 0 = n
      BY <1>1
    <3> QED
      BY <3>1, Zenon
  <2>2. (put_u16(n) \o w[n]) \o t = put_u16(n) \o (w[n] \o t)
    <3>1. n \in 0..n
      BY <1>1
    <3> QED
      BY <3>1, <1>3, <1>5, TextAssoc, Zenon
  <2> QED
    BY <2>1, <2>2, Zenon DEF put_strings, n, w
<1> HIDE DEF left
<1>9. get_u16(put_u16(n) \o left[0]) = Got(c, left[0])
  <2>1. left[0] \in Text
    BY <1>1, <1>6
  <2> QED
    BY <1>1, <2>1, GetU16, Zenon DEF c
<1>10. ReadStrings(c, left[0])[c] = ReadList(list, c, left[c])
  <2>1. c \in 0..Len(list) /\ c \in c..(c + 1)
    BY <1>1 DEF n
  <2> QED
    BY <2>1, <1>6, <1>7, ReadStringsRec, Zenon
<1>11. get_strings(put_strings(list) \o t) = Strings(Got(c, left[0]))
  BY <1>8, <1>9, Zenon DEF get_strings
<1>12. Strings(Got(c, left[0])) = ReadStrings(c, left[0])[c]
  BY Zenon DEF Strings, Got
<1>13. left[c] \in Text
  BY <1>1, <1>6
<1>14. get_strings(put_strings(list) \o t) = ReadList(list, c, left[c])
  BY <1>10, <1>11, <1>12, Zenon
<1> QED
  BY <1>1, <1>13, <1>14, Zenon DEF c, n

-----------------------------------------------------------------------------
(* Encodings that lack their last byte.                                    *)

\* A text without its last byte.
LEMMA FrontText ==
    ASSUME NEW s \in Text, s # <<>>
    PROVE  Front(s) \in Text /\ Len(Front(s)) = Len(s) - 1 /\ Len(s) >= 1
<1>1. Len(s) \in Nat /\ Len(s) >= 1
  BY DEF Text
<1> QED
  BY <1>1, SMTT(20) DEF Text, Front

\* Without its last byte, a concatenation lacks that of its last part.
LEMMA FrontCat ==
    ASSUME NEW s \in Text, NEW t \in Text, t # <<>>
    PROVE  Front(s \o t) = s \o Front(t) /\ s \o t # <<>>
<1>1. Front(t) \in Text /\ Len(Front(t)) = Len(t) - 1 /\ Len(t) >= 1
  BY FrontText
<1>2. s \o t \in Text /\ Len(s \o t) = Len(s) + Len(t) /\ s \o t # <<>>
  BY <1>1 DEF Text
<1>3. Front(s \o t) \in Text /\ Len(Front(s \o t)) = Len(s \o t) - 1
  BY <1>2, FrontText, Zenon
<1>4. s \o Front(t) \in Text /\ Len(s \o Front(t)) = Len(s) + (Len(t) - 1)
  BY <1>1, SMTT(20) DEF Text
<1>5. ASSUME NEW i \in 1..(Len(s) + Len(t) - 1) PROVE Front(s \o t)[i] = (s \o Front(t))[i]
  <2>1. Front(s \o t)[i] = (s \o t)[i]
    BY <1>1, <1>2 DEF Front, Text
  <2>2. (s \o Front(t))[i] = (s \o t)[i]
    BY <1>1 DEF Front, Text
  <2> QED
    BY <2>1, <2>2, Zenon
<1>6. Len(Front(s \o t)) = Len(s \o Front(t)) /\ Len(Front(s \o t)) = Len(s) + Len(t) - 1
  BY <1>1, <1>2, <1>3, <1>4 DEF Text
<1> QED
  BY <1>2, <1>3, <1>4, <1>5, <1>6, SeqEqual, Zenon DEF Text

\* CatEmpty for texts.
LEMMA TextEmpty ==
    ASSUME NEW s \in Text
    PROVE  s \o <<>> = s /\ <<>> \o s = s
  BY CatEmpty DEF Text

\* Fewer bytes than the u16 in front says are an error.
LEMMA ShortData ==
    ASSUME NEW n \in Nat, NEW c \in Text, Len(c) = n % U16Values
    PROVE  get_data(Front(put_u16(n) \o c)) = Eof
<1>1. put_u16(n) \in TextOf(2) /\ put_u16(n) \in Text /\ put_u16(n) # <<>>
  BY PutU16 DEF TextOf, Text
<1>2. CASE c = <<>>
  <2> DEFINE f == Front(put_u16(n))
  <2>1. Front(put_u16(n) \o c) = f
    BY <1>1, <1>2, TextEmpty, Zenon
  <2>2. Len(f) < 2
    BY <1>1, FrontText DEF TextOf
  <2> HIDE DEF f
  <2>3. get_u16(f) = Eof
    BY <2>2, Zenon DEF get_u16, Took
  <2>4. Bytes(Eof) = Eof
    BY DEF Bytes, Eof
  <2> QED
    BY <2>1, <2>3, <2>4, Zenon DEF get_data
<1>3. CASE c # <<>>
  <2> DEFINE f == Front(c)
             k == n % U16Values
  <2>1. f \in Text /\ Len(f) < k
    BY <1>3, FrontText DEF Text
  <2>2. Front(put_u16(n) \o c) = put_u16(n) \o f
    BY <1>1, <1>3, FrontCat, Zenon
  <2> HIDE DEF f, k
  <2>3. get_u16(put_u16(n) \o f) = Got(k, f)
    BY <2>1, GetU16, Zenon DEF k
  <2>4. Bytes(Got(k, f)) = Took(SubSeq(f, 1, k), k, f)
    BY Zenon DEF Bytes, Got
  <2>5. Took(SubSeq(f, 1, k), k, f) = Eof
    BY <2>1, Zenon DEF Took
  <2> QED
    BY <2>2, <2>3, <2>4, <2>5, Zenon DEF get_data
<1> QED
  BY <1>2, <1>3, Zenon

\* A string without its last byte is not read.
LEMMA ShortString ==
    ASSUME NEW s \in Text
    PROVE  get_string(Front(put_string(s))) = Eof
<1> DEFINE n == Capped(Len(s))
           c == CutString(s)
<1>1. n \in Nat /\ n % U16Values = n /\ c \in Text /\ Len(c) = n
  <2>1. n \in 0..(U16Values - 1) /\ c \in Text /\ Len(c) = n
    BY Cuts, Zenon
  <2> HIDE DEF n, c
  <2> QED
    BY <2>1, Sizes
<1>2. put_string(s) = put_u16(n) \o c
  BY PutString, Zenon
<1> HIDE DEF n, c
<1>3. get_data(Front(put_u16(n) \o c)) = Eof
  BY <1>1, ShortData
<1>4. Utf8(Eof) = Eof
  BY DEF Utf8, Eof
<1> QED
  BY <1>2, <1>3, <1>4, Zenon DEF get_string

\* A list without its last byte is not read: the last string is short, or the count is.
LEMMA ShortStrings ==
    ASSUME NatInductive, NEW list \in Seq(Text), Len(list) < U16Values
    PROVE  get_strings(Front(put_strings(list))) = Eof
<1> DEFINE n == Len(list)
           w == Written(list)
           c == n - 1
           left == [k \in 0..c |-> Front(w[n - k])]
<1>1. n \in Nat /\ n < U16Values
  OBVIOUS
<1>2. w[0] = <<>> /\ \A k \in 1..n : w[k] = put_string(list[n - k + 1]) \o w[k - 1]
  BY WrittenRec, Zenon
<1>3. \A k \in 0..n : w[k] \in Text
  BY WrittenText, Zenon
<1>4. \A k \in 1..n : put_string(list[k]) \in Text /\ put_string(list[k]) # <<>> /\ list[k] \in Text
  <2>1. ASSUME NEW k \in 1..n PROVE put_string(list[k]) \in Text /\ put_string(list[k]) # <<>> /\ list[k] \in Text
    <3>1. list[k] \in Text
      OBVIOUS
    <3> DEFINE p == put_string(list[k])
               m == Capped(Len(list[k]))
    <3>2. p \in Text /\ Len(p) = 2 + m /\ m \in Nat
      BY <3>1, PutString, Cuts, Zenon
    <3> HIDE DEF p, m
    <3>3. p # <<>>
      BY <3>2 DEF Text
    <3> QED
      BY <3>1, <3>2, <3>3, Zenon DEF p
  <2> QED
    BY <2>1
<1>5. put_u16(n) \in TextOf(2) /\ put_u16(n) \in Text /\ put_u16(n) # <<>>
  BY <1>1, PutU16 DEF TextOf, Text
<1>6. n % U16Values = n
  BY <1>1, Sizes
<1> HIDE DEF n, w
<1>7. CASE n = 0
  <2> DEFINE f == Front(put_u16(n))
  <2>1. Front(put_strings(list)) = f
    BY <1>2, <1>5, <1>7, TextEmpty, Zenon DEF put_strings, n, w
  <2>2. Len(f) < 2
    BY <1>5, FrontText DEF TextOf
  <2> HIDE DEF f
  <2>3. get_u16(f) = Eof
    BY <2>2, Zenon DEF get_u16, Took
  <2>4. Strings(Eof) = Eof
    BY DEF Strings, Eof
  <2> QED
    BY <2>1, <2>3, <2>4, Zenon DEF get_strings
<1>8. CASE n # 0
  <2>1. n \in 1..n /\ c \in 0..n /\ c \in Nat /\ n \in c..(c + 1) /\ n # c /\ n - c = 1 /\ n - 0 = n /\ 1 \in 1..n
    BY <1>1, <1>8
  <2>2. \A k \in 1..n : w[k] \in Text /\ w[k] # <<>>
    <3>1. ASSUME NEW k \in 1..n PROVE w[k] \in Text /\ w[k] # <<>>
      <4>1. n - k + 1 \in 1..n /\ k - 1 \in 0..n /\ k \in 0..n
        BY <1>1
      <4> DEFINE p == put_string(list[n - k + 1])
      <4>2. p \in Text /\ p # <<>> /\ w[k - 1] \in Text
        BY <1>3, <1>4, <4>1, Zenon
      <4> HIDE DEF p
      <4>3. p \o w[k - 1] # <<>>
        BY <4>2 DEF Text
      <4> QED
        BY <1>2, <1>3, <4>1, <4>3, Zenon DEF p
    <3> QED
      BY <3>1
  <2>3. left \in [0..c -> Text]
    <3>1. \A k \in 0..c : n - k \in 1..n
      BY <1>1, <2>1
    <3>2. \A k \in 0..c : Front(w[n - k]) \in Text
      BY <3>1, <2>2, FrontText, Zenon
    <3> QED
      BY <3>2, Zenon
  <2>4. ASSUME NEW k \in 1..c PROVE left[k - 1] = put_string(list[k]) \o left[k]
    <3>1. /\ n - (k - 1) \in 1..n /\ n - (n - (k - 1)) + 1 = k /\ (n - (k - 1)) - 1 = n - k
          /\ n - k \in 1..n /\ k \in 1..n /\ k - 1 \in 0..c /\ k \in 0..c
      BY <1>1, <2>1
    <3>2. left[k - 1] = Front(w[n - (k - 1)]) /\ left[k] = Front(w[n - k])
      BY <3>1, Zenon
    <3>3. w[n - (k - 1)] = put_string(list[k]) \o w[n - k]
      <4>1. w[n - (k - 1)] = put_string(list[n - (n - (k - 1)) + 1]) \o w[(n - (k - 1)) - 1]
        BY <3>1, <1>2, Zenon
      <4>2. n - (n - (k - 1)) + 1 = k /\ (n - (k - 1)) - 1 = n - k
        BY <3>1, Zenon
      <4> QED
        BY <4>1, <4>2, Zenon
    <3>4. Front(put_string(list[k]) \o w[n - k]) = put_string(list[k]) \o Front(w[n - k])
      BY <3>1, <2>2, <1>4, FrontCat, Zenon
    <3> QED
      BY <3>2, <3>3, <3>4, Zenon
  <2>5. left[0] = Front(w[n]) /\ left[c] = Front(put_string(list[n]))
    <3>1. 0 \in 0..c /\ c \in 0..c /\ n - 1 + 1 = n /\ 1 - 1 = 0
      BY <2>1
    <3>2. left[0] = Front(w[n]) /\ left[c] = Front(w[1])
      BY <3>1, <2>1
    <3>3. w[1] = put_string(list[n]) \o <<>>
      BY <1>2, <2>1, <3>1, Zenon
    <3> QED
      BY <1>4, <2>1, <3>2, <3>3, TextEmpty, Zenon
  <2>6. Front(put_strings(list)) = put_u16(n) \o left[0]
    <3>1. Front(put_u16(n) \o w[n]) = put_u16(n) \o Front(w[n])
      BY <1>5, <2>1, <2>2, FrontCat, Zenon
    <3> QED
      BY <2>5, <3>1, Zenon DEF put_strings, n, w
  <2>7. left[0] \in Text
    <3>1. 0 \in 0..c
      BY <2>1
    <3> QED
      BY <2>3, <3>1, Zenon
  <2> HIDE DEF left
  <2>8. get_u16(put_u16(n) \o left[0]) = Got(n, left[0])
    BY <1>1, <1>6, <2>7, GetU16, Zenon
  <2>9. ReadStrings(n, left[0])[n] = get_one_more(ReadList(list, c, left[c]))
    <3>1. c \in 0..Len(list)
      BY <2>1, Zenon DEF n
    <3> HIDE DEF c
    <3>2. n # c /\ n \in c..(c + 1)
      BY <2>1 DEF c
    <3> QED
      BY <3>1, <3>2, <2>3, <2>4, ReadStringsRec, Zenon
  <2>10. get_one_more(ReadList(list, c, left[c])) = Eof
    <3>1. get_string(left[c]) = Eof
      BY <2>1, <2>5, <1>4, ShortString, Zenon
    <3>2. get_one_more(Got(CutList(list, c), left[c])) = Pushed(CutList(list, c), get_string(left[c]))
      BY Zenon DEF get_one_more, Got
    <3>3. Pushed(CutList(list, c), Eof) = Eof /\ get_one_more(Eof) = Eof
      BY DEF Pushed, get_one_more, Eof
    <3> QED
      BY <3>1, <3>2, <3>3, Zenon DEF ReadList
  <2>11. get_strings(Front(put_strings(list))) = Strings(Got(n, left[0]))
    BY <2>6, <2>8, Zenon DEF get_strings
  <2>12. Strings(Got(n, left[0])) = ReadStrings(n, left[0])[n]
    BY Zenon DEF Strings, Got
  <2> QED
    BY <2>9, <2>10, <2>11, <2>12, Zenon
<1> QED
  BY <1>7, <1>8, Zenon

-----------------------------------------------------------------------------
(* Fields of messages.                                                     *)

\* The types of either side, and their codes 1..14.
LEMMA Types ==
    /\ Range(DaemonTypes) = {"HelloAck", "Pong", "Ifaces", "Subscribed", "Unsubscribed", "SendAck",
                             "FrameEvent", "Error"}
    /\ Range(ClientTypes) = {"ClientHello", "Ping", "ListIfaces", "Subscribe", "Unsubscribe", "SendFrame"}
    /\ Range(MsgType) = Range(DaemonTypes) \cup Range(ClientTypes)
    /\ DOMAIN MsgType = 1..14
<1>1. Range(DaemonTypes) = {"HelloAck", "Pong", "Ifaces", "Subscribed", "Unsubscribed", "SendAck",
                             "FrameEvent", "Error"}
  BY DEF Range, DaemonTypes
<1>2. Range(ClientTypes) = {"ClientHello", "Ping", "ListIfaces", "Subscribe", "Unsubscribe", "SendFrame"}
  BY DEF Range, ClientTypes
<1>3. DOMAIN MsgType = 1..14
  BY DEF MsgType, DaemonTypes, ClientTypes
<1>4. \A k \in 1..14 : MsgType[k] = IF k <= 8 THEN DaemonTypes[k] ELSE ClientTypes[k - 8]
  BY DEF MsgType, DaemonTypes, ClientTypes
<1>5. DOMAIN DaemonTypes = 1..8 /\ DOMAIN ClientTypes = 1..6
  BY DEF DaemonTypes, ClientTypes
<1>6. Range(MsgType) = Range(DaemonTypes) \cup Range(ClientTypes)
  BY <1>3, <1>4, <1>5 DEF Range
<1> QED
  BY <1>1, <1>2, <1>3, <1>6, Zenon

\* The fields of the responses.
LEMMA TableDaemon ==
    /\ Fields("HelloAck") = <<Field("version", "string"), Field("server_name", "string"), Field("features", "strings")>>
    /\ Fields("Pong") = <<Field("id", "u64")>>
    /\ Fields("Ifaces") = <<Field("items", "strings")>>
    /\ Fields("Subscribed") = <<Field("ifaces", "strings")>>
    /\ Fields("Unsubscribed") = <<>>
    /\ Fields("SendAck") = <<Field("ok", "bool"), Field("error_message", "nonempty")>>
    /\ Fields("FrameEvent") = <<Field("ts_ms", "u64"), Field("iface", "string"), Field("dir", "string"),
                                Field("id", "u32"), Field("is_fd", "bool"), Field("data", "data")>>
    /\ Fields("Error") = <<Field("message", "string")>>
  BY Types, Zenon DEF Fields, DaemonFields

\* The fields of the requests.
LEMMA TableClient ==
    /\ Fields("ClientHello") = <<Field("client", "string"), Field("protocol", "string")>>
    /\ Fields("Ping") = <<Field("id", "u64")>>
    /\ Fields("ListIfaces") = <<>>
    /\ Fields("Subscribe") = <<Field("ifaces", "strings")>>
    /\ Fields("Unsubscribe") = <<>>
    /\ Fields("SendFrame") = <<Field("iface", "string"), Field("id", "u32"), Field("is_fd", "bool"),
                               Field("brs", "bool"), Field("esi", "bool"), Field("data", "data")>>
  BY Types DEF Fields, ClientFields

\* How many fields the types have that have some.
LEMMA TableLengths ==
    /\ \A T \in {"Pong", "Ifaces", "Subscribed", "Error", "Ping", "Subscribe"} : Len(Fields(T)) = 1
    /\ \A T \in {"SendAck", "ClientHello"} : Len(Fields(T)) = 2
    /\ Len(Fields("HelloAck")) = 3
    /\ \A T \in {"FrameEvent", "SendFrame"} : Len(Fields(T)) = 6
  BY Types DEF Fields, DaemonFields, ClientFields

\* How the names of fields and their kinds go together.
Named(name, kind) ==
    \/ name \in StringFields /\ kind = "string"
    \/ name \in ListFields /\ kind = "strings"
    \/ name = "data" /\ kind = "data"
    \/ name = "error_message" /\ kind = "nonempty"
    \/ name \in {"id", "ts_ms", "ok", "is_fd", "brs", "esi"} /\ kind \in {"bool", "u32", "u64"}

\* What encode_payload writes for a field.
Put(kind, v) ==
    CASE kind = "bool"     -> put_bool(v)
      [] kind = "u32"      -> put_u32(v)
      [] kind = "u64"      -> put_u64(v)
      [] kind = "string"   -> put_string(v)
      [] kind = "nonempty" -> put_string(IF v = <<>> THEN <<>> ELSE v[1])
      [] kind = "strings"  -> put_strings(v)
      [] kind = "data"     -> put_data(v)

\* What a field comes back as, followed by r.
Back(name, v, r) == IF Whole(name, Kept(name, v)) THEN Got(Kept(name, v), r) ELSE Eof

\* A string comes back as the encoder kept it.
LEMMA StringBack ==
    ASSUME NEW name, NEW kind, Named(name, kind), kind = "string", NEW v \in Values(kind), NEW t \in Text
    PROVE  get(kind, Put(kind, v) \o t) = Back(name, v, t)
<1>1. name \in StringFields /\ v \in Text
  BY DEF Named, Values, StringFields, ListFields
<1>2. Kept(name, v) = CutString(v) /\ Whole(name, CutString(v)) = from_utf8(CutString(v))
  BY <1>1, Zenon DEF Kept, Whole, StringFields, ListFields
<1>3. get_string(put_string(v) \o t) = IF from_utf8(CutString(v)) THEN Got(CutString(v), t) ELSE Eof
  BY <1>1, GetString
<1>4. Put(kind, v) = put_string(v) /\ \A in : get(kind, in) = get_string(in)
  BY DEF Put, get
<1> QED
  BY <1>2, <1>3, <1>4, Zenon DEF Back

\* A bool and an integer come back unchanged.
LEMMA NumberBack ==
    ASSUME NEW name, NEW kind, Named(name, kind), kind \in {"bool", "u32", "u64"}, NEW v \in Values(kind), NEW t \in Text
    PROVE  get(kind, Put(kind, v) \o t) = Back(name, v, t)
<1>1. name \in {"id", "ts_ms", "ok", "is_fd", "brs", "esi"}
  BY DEF Named
<1>2. Kept(name, v) = v /\ Whole(name, v)
  BY <1>1 DEF Kept, Whole, StringFields, ListFields
<1>3. Back(name, v, t) = Got(v, t)
  BY <1>2, Zenon DEF Back
<1>4. CASE kind = "bool"
  <2>1. v \in BOOLEAN
    BY <1>4 DEF Values
  <2>2. Put(kind, v) = put_bool(v) /\ \A in : get(kind, in) = NonZero(get_u8(in))
    BY <1>4 DEF Put, get
  <2> QED
    BY <1>3, <2>1, <2>2, GetBool, Zenon
<1>5. CASE kind = "u32"
  <2>1. v \in 0..(U32Values - 1)
    BY <1>5 DEF Values
  <2>2. Put(kind, v) = put_u32(v) /\ \A in : get(kind, in) = get_u32(in)
    BY <1>5 DEF Put, get
  <2> QED
    BY <1>3, <2>1, <2>2, GetU32, Zenon
<1>6. CASE kind = "u64"
  <2>1. v \in 0..(U64Values - 1)
    BY <1>6 DEF Values
  <2>2. Put(kind, v) = put_u64(v) /\ \A in : get(kind, in) = get_u64(in)
    BY <1>6 DEF Put, get
  <2> QED
    BY <1>3, <2>1, <2>2, GetU64, Zenon
<1> QED
  BY <1>4, <1>5, <1>6, Zenon

\* A list comes back as the encoder kept it; where its count wrapped, strings are left over.
LEMMA ListBack ==
    ASSUME NatInductive, NEW name, NEW kind, Named(name, kind), kind = "strings", NEW v \in Values(kind), NEW t \in Text
    PROVE  \E r \in Text : get(kind, Put(kind, v) \o t) = Back(name, v, r)
<1> DEFINE c == Len(v) % U16Values
<1>1. name \in ListFields /\ v \in Seq(Text)
  BY DEF Named, Values, StringFields, ListFields
<1>2. PICK r \in Text : get_strings(put_strings(v) \o t) = ReadList(v, c, r)
  BY <1>1, GetStrings, Zenon
<1>3. Kept(name, v) = CutList(v, c)
  BY <1>1, Zenon DEF Kept, StringFields, ListFields, CutList
<1>4. Whole(name, CutList(v, c)) <=> \A j \in 1..c : from_utf8(CutString(v[j]))
  <2>1. DOMAIN CutList(v, c) = 1..c /\ \A j \in 1..c : CutList(v, c)[j] = CutString(v[j])
    BY Zenon DEF CutList
  <2>2. Whole(name, CutList(v, c)) <=> \A j \in DOMAIN CutList(v, c) : from_utf8(CutList(v, c)[j])
    <3> DEFINE l == CutList(v, c)
    <3> HIDE DEF l
    <3>1. Whole(name, l) = \A j \in DOMAIN l : from_utf8(l[j])
      BY <1>1, Zenon DEF Whole, StringFields, ListFields
    <3> QED
      BY <3>1, Zenon DEF l
  <2> QED
    BY <2>1, <2>2, Zenon
<1>5. Put(kind, v) = put_strings(v) /\ \A in : get(kind, in) = get_strings(in)
  BY DEF Put, get
<1>6. Back(name, v, r) = ReadList(v, c, r)
  BY <1>3, <1>4, Zenon DEF Back, ReadList
<1> QED
  BY <1>2, <1>5, <1>6, Zenon

\* Data comes back as the encoder kept it; where its length wrapped, bytes are left over.
LEMMA DataBack ==
    ASSUME NEW name, NEW kind, Named(name, kind), kind = "data", NEW v \in Values(kind), NEW t \in Text
    PROVE  \E r \in Text : get(kind, Put(kind, v) \o t) = Back(name, v, r)
<1> DEFINE d == SubSeq(v, 1, Len(v) % U16Values)
<1>1. name = "data" /\ v \in Text
  BY DEF Named, Values
<1>2. PICK r \in Text : get_data(put_data(v) \o t) = Got(d, r)
  BY <1>1, GetData, Zenon
<1>3. Kept(name, v) = d /\ Whole(name, d)
  <2>1. Kept(name, v) = d
    BY <1>1, Zenon DEF Kept, StringFields, ListFields
  <2> HIDE DEF d
  <2>2. Whole(name, d)
    BY <1>1 DEF Whole, StringFields, ListFields
  <2> QED
    BY <2>1, <2>2
<1>4. Put(kind, v) = put_data(v) /\ \A in : get(kind, in) = get_data(in)
  BY DEF Put, get
<1> QED
  BY <1>2, <1>3, <1>4, Zenon DEF Back

\* An option comes back, an empty string as none.
LEMMA OptionBack ==
    ASSUME NEW name, NEW kind, Named(name, kind), kind = "nonempty", NEW v \in Values(kind), NEW t \in Text
    PROVE  get(kind, Put(kind, v) \o t) = Back(name, v, t)
<1> DEFINE s == IF v = <<>> THEN <<>> ELSE v[1]
           c == CutString(s)
<1>1. name = "error_message" /\ v \in Seq(Text) /\ Len(v) <= 1
  BY DEF Named, Values
<1>2. s \in Text
  BY <1>1 DEF Text
<1>3. get_string(put_string(s) \o t) = IF from_utf8(c) THEN Got(c, t) ELSE Eof
  BY <1>2, GetString, Zenon
<1>4. Put(kind, v) = put_string(s) /\ \A in : get(kind, in) = NonEmpty(get_string(in))
  BY DEF Put, get
<1>5. Kept(name, v) = IF v \in {<<>>, <<<<>>>>} THEN <<>> ELSE <<CutString(v[1])>>
  BY <1>1 DEF Kept, StringFields, ListFields
<1>6. \A w : Whole(name, w) = \A k \in DOMAIN w : from_utf8(w[k])
  BY <1>1 DEF Whole, StringFields, ListFields
<1>7. c = <<>> <=> s = <<>>
  <2> HIDE DEF s
  <2>1. c \in Text /\ Len(c) = Capped(Len(s)) /\ Len(s) \in Nat
    BY <1>2, Cuts DEF Text
  <2> HIDE DEF c
  <2>2. Len(c) = 0 <=> Len(s) = 0
    BY <2>1, Sizes DEF Capped
  <2> QED
    BY <1>2, <2>1, <2>2 DEF Text
<1>8. v \in {<<>>, <<<<>>>>} <=> s = <<>>
  <2>1. CASE v = <<>>
    BY <2>1
  <2>2. CASE v # <<>>
    <3>1. Len(v) >= 1
      BY <1>1, <2>2
    <3>2. \A w \in Seq(Text) : Len(w) <= 1 /\ Len(w) >= 1 /\ w[1] = v[1] => w = v
      BY <1>1, <3>1, SeqEqual
    <3>3. <<<<>>>> \in Seq(Text) /\ Len(<<<<>>>>) <= 1 /\ Len(<<<<>>>>) >= 1 /\ <<<<>>>>[1] = <<>>
      BY DEF Text
    <3>4. v = <<<<>>>> <=> v[1] = <<>>
      BY <3>2, <3>3, Zenon
    <3> QED
      BY <2>2, <3>4
  <2> QED
    BY <2>1, <2>2
<1>9. CASE s = <<>>
  <2>1. Kept(name, v) = <<>> /\ Whole(name, <<>>)
    <3>1. Kept(name, v) = <<>>
      BY <1>5, <1>8, <1>9, Zenon
    <3>2. \A k \in DOMAIN <<>> : from_utf8(<<>>[k])
      OBVIOUS
    <3> QED
      BY <1>6, <3>1, <3>2, Zenon
  <2>2. c = <<>> /\ from_utf8(<<>>)
    <3>1. from_utf8(<<>>)
      BY DEF from_utf8
    <3> QED
      BY <1>7, <1>9, <3>1
  <2>3. NonEmpty(Got(<<>>, t)) = Got(<<>>, t)
    BY Zenon DEF NonEmpty, Got
  <2> QED
    BY <1>3, <1>4, <2>1, <2>2, <2>3, Zenon DEF Back
<1>10. CASE s # <<>>
  <2>1. v \notin {<<>>, <<<<>>>>} /\ s = v[1]
    BY <1>8, <1>10
  <2>2. Kept(name, v) = <<c>>
    BY <1>5, <2>1, Zenon
  <2> HIDE DEF c, s
  <2>3. Whole(name, <<c>>) = from_utf8(c)
    <3>1. (\A k \in DOMAIN <<c>> : from_utf8(<<c>>[k])) = from_utf8(c)
      <4>1. DOMAIN <<c>> = {1} /\ <<c>>[1] = c
        OBVIOUS
      <4>2. from_utf8(c) \in BOOLEAN
        BY Zenon DEF from_utf8
      <4> QED
        BY <4>1, <4>2, Zenon
    <3> QED
      BY <1>6, <3>1, Zenon
  <2>4. NonEmpty(Got(c, t)) = Got(<<c>>, t)
    BY <1>7, <1>10, Zenon DEF NonEmpty, Got
  <2>5. NonEmpty(Eof) = Eof
    BY DEF NonEmpty, Eof
  <2> QED
    BY <1>3, <1>4, <2>2, <2>3, <2>4, <2>5, Zenon DEF Back
<1> QED
  BY <1>9, <1>10, Zenon

\* A field comes back as the encoder kept it; all but lists and data leave what
\* follows them.
LEMMA FieldBack ==
    ASSUME NatInductive, NEW name, NEW kind, Named(name, kind), NEW v \in Values(kind), NEW t \in Text
    PROVE  \E r \in Text : /\ get(kind, Put(kind, v) \o t) = Back(name, v, r)
                           /\ kind \notin {"strings", "data"} => r = t
<1>1. kind \in {"bool", "u32", "u64", "string", "nonempty", "strings", "data"}
  BY DEF Named
<1>2. CASE kind \in {"strings", "data"}
  <2>1. CASE kind = "strings"
    BY <2>1, ListBack
  <2>2. CASE kind = "data"
    BY <2>2, DataBack
  <2> QED
    BY <1>2, <2>1, <2>2, Zenon
<1>3. CASE kind \in {"bool", "u32", "u64", "string", "nonempty"}
  <2>1. get(kind, Put(kind, v) \o t) = Back(name, v, t)
    <3>1. CASE kind = "string"
      BY <3>1, StringBack
    <3>2. CASE kind = "nonempty"
      BY <3>2, OptionBack
    <3>3. CASE kind \in {"bool", "u32", "u64"}
      BY <3>3, NumberBack
    <3> QED
      BY <1>3, <3>1, <3>2, <3>3, Zenon
  <2> QED
    BY <2>1, Zenon
<1> QED
  BY <1>1, <1>2, <1>3, Zenon

\* A field is at least a byte.
LEMMA PutField ==
    ASSUME NatInductive, NEW name, NEW kind, Named(name, kind), NEW v \in Values(kind)
    PROVE  Put(kind, v) \in Text /\ Put(kind, v) # <<>>
<1>1. kind \in {"bool", "u32", "u64", "string", "nonempty", "strings", "data"}
  BY DEF Named
<1>2. ASSUME NEW w \in Nat, w > 0, NEW s \in TextOf(w) PROVE s \in Text /\ s # <<>>
  BY <1>2 DEF TextOf, Text
<1>3. CASE kind = "bool"
  <2>1. put_bool(v) \in TextOf(1) /\ Put(kind, v) = put_bool(v)
    BY <1>3, PutBool DEF Put, Values
  <2> QED
    BY <2>1, <1>2
<1>4. CASE kind = "u32"
  <2>1. v \in Nat
    BY <1>4, Sizes DEF Values
  <2>2. put_u32(v) \in TextOf(4) /\ Put(kind, v) = put_u32(v)
    BY <1>4, <2>1, PutU32 DEF Put
  <2> QED
    BY <2>2, <1>2
<1>5. CASE kind = "u64"
  <2>1. v \in Nat
    BY <1>5, Sizes DEF Values
  <2>2. put_u64(v) \in TextOf(8) /\ Put(kind, v) = put_u64(v)
    BY <1>5, <2>1, PutU64 DEF Put
  <2> QED
    BY <2>2, <1>2
<1>6. ASSUME NEW s \in Text PROVE put_string(s) \in Text /\ put_string(s) # <<>>
  <2> DEFINE p == put_string(s)
             m == Capped(Len(s))
  <2>1. p \in Text /\ Len(p) = 2 + m /\ m \in Nat
    BY PutString, Cuts, Zenon
  <2> HIDE DEF p, m
  <2>2. p # <<>>
    BY <2>1 DEF Text
  <2> QED
    BY <2>1, <2>2, Zenon DEF p
<1>7. CASE kind = "string"
  <2>1. v \in Text /\ Put(kind, v) = put_string(v)
    BY <1>7 DEF Put, Values
  <2> QED
    BY <2>1, <1>6, Zenon
<1>8. CASE kind = "nonempty"
  <2> DEFINE s == IF v = <<>> THEN <<>> ELSE v[1]
  <2>1. v \in Seq(Text) /\ <<>> \in Text
    BY <1>8 DEF Values, Text
  <2>2. s \in Text
    BY <2>1
  <2>3. Put(kind, v) = put_string(s)
    BY <1>8 DEF Put
  <2> QED
    BY <2>2, <2>3, <1>6, Zenon
<1>9. CASE kind = "strings"
  <2>1. v \in Seq(Text) /\ Put(kind, v) = put_strings(v)
    BY <1>9 DEF Put, Values
  <2> QED
    BY <2>1, PutStrings, Zenon
<1>10. CASE kind = "data"
  <2>1. v \in Text /\ Put(kind, v) = put_data(v)
    BY <1>10 DEF Put, Values
  <2>2. put_u16(Len(v)) \in TextOf(2)
    BY <2>1, PutU16 DEF Text
  <2>3. put_u16(Len(v)) \o v \in Text /\ put_u16(Len(v)) \o v # <<>>
    BY <2>1, <2>2 DEF TextOf, Text
  <2> QED
    BY <2>1, <2>3, Zenon DEF put_data
<1> QED
  BY <1>1, <1>3, <1>4, <1>5, <1>7, <1>8, <1>9, <1>10, Zenon

\* Without its last byte a field is not read.
LEMMA FieldShort ==
    ASSUME NatInductive, NEW name, NEW kind, Named(name, kind), NEW v \in Values(kind),
           kind \in {"strings", "data"} => Len(v) < U16Values
    PROVE  get(kind, Front(Put(kind, v))) = Eof
<1>1. kind \in {"bool", "u32", "u64", "string", "nonempty", "strings", "data"}
  BY DEF Named
<1>2. ASSUME NEW w \in Nat, w > 0, NEW s \in TextOf(w), NEW x PROVE Took(x, w, Front(s)) = Eof
  <2>1. Len(Front(s)) < w
    BY <1>2, FrontText DEF TextOf, Text
  <2> QED
    BY <2>1, Zenon DEF Took
<1>3. CASE kind = "bool"
  <2>1. put_bool(v) \in TextOf(1) /\ Put(kind, v) = put_bool(v)
    BY <1>3, PutBool DEF Put, Values
  <2>2. get_u8(Front(put_bool(v))) = Eof
    BY <2>1, <1>2 DEF get_u8
  <2>3. get(kind, Front(put_bool(v))) = NonZero(get_u8(Front(put_bool(v))))
    BY <1>3 DEF get
  <2>4. NonZero(Eof) = Eof
    BY DEF NonZero, Eof
  <2> QED
    BY <2>1, <2>2, <2>3, <2>4, Zenon
<1>4. CASE kind = "u32"
  <2>1. v \in Nat
    BY <1>4, Sizes DEF Values
  <2>2. put_u32(v) \in TextOf(4) /\ Put(kind, v) = put_u32(v)
    BY <1>4, <2>1, PutU32 DEF Put
  <2>3. get_u32(Front(put_u32(v))) = Eof
    BY <2>2, <1>2 DEF get_u32
  <2>4. get(kind, Front(put_u32(v))) = get_u32(Front(put_u32(v)))
    BY <1>4 DEF get
  <2> QED
    BY <2>2, <2>3, <2>4, Zenon
<1>5. CASE kind = "u64"
  <2>1. v \in Nat
    BY <1>5, Sizes DEF Values
  <2>2. put_u64(v) \in TextOf(8) /\ Put(kind, v) = put_u64(v)
    BY <1>5, <2>1, PutU64 DEF Put
  <2>3. get_u64(Front(put_u64(v))) = Eof
    BY <2>2, <1>2 DEF get_u64
  <2>4. get(kind, Front(put_u64(v))) = get_u64(Front(put_u64(v)))
    BY <1>5 DEF get
  <2> QED
    BY <2>2, <2>3, <2>4, Zenon
<1>6. CASE kind = "string"
  <2>1. v \in Text /\ Put(kind, v) = put_string(v)
    BY <1>6 DEF Put, Values
  <2>2. \A in : get(kind, in) = get_string(in)
    BY <1>6 DEF get
  <2> QED
    BY <2>1, <2>2, ShortString, Zenon
<1>7. CASE kind = "nonempty"
  <2> DEFINE s == IF v = <<>> THEN <<>> ELSE v[1]
  <2>1. v \in Seq(Text) /\ <<>> \in Text
    BY <1>7 DEF Values, Text
  <2>2. s \in Text
    BY <2>1
  <2>3. Put(kind, v) = put_string(s) /\ \A in : get(kind, in) = NonEmpty(get_string(in))
    BY <1>7 DEF Put, get
  <2>4. NonEmpty(Eof) = Eof
    BY DEF NonEmpty, Eof
  <2> QED
    BY <2>2, <2>3, <2>4, ShortString, Zenon
<1>8. CASE kind = "strings"
  <2>1. v \in Seq(Text) /\ Put(kind, v) = put_strings(v) /\ \A in : get(kind, in) = get_strings(in)
    BY <1>8 DEF Put, Values, get
  <2> QED
    BY <1>8, <2>1, ShortStrings, Zenon
<1>9. CASE kind = "data"
  <2>1. v \in Text /\ Put(kind, v) = put_data(v) /\ \A in : get(kind, in) = get_data(in)
    BY <1>9 DEF Put, Values, get
  <2>2. Len(v) \in Nat /\ Len(v) = Len(v) % U16Values
    <3>1. Len(v) \in Nat /\ Len(v) < U16Values
      BY <1>9, <2>1 DEF Text
    <3> QED
      BY <3>1, Sizes
  <2>3. get_data(Front(put_u16(Len(v)) \o v)) = Eof
    BY <2>1, <2>2, ShortData, Zenon
  <2> QED
    BY <2>1, <2>3, Zenon DEF put_data
<1> QED
  BY <1>1, <1>3, <1>4, <1>5, <1>6, <1>7, <1>8, <1>9, Zenon

-----------------------------------------------------------------------------
(* Payloads: the fields of a message, one after the other.                 *)

\* What k fields of m have become when they are read.
Part(fs, m, k)     == [f \in {"type"} \cup {fs[j].name : j \in 1..k} |-> Kept(f, m[f])]

\* None of them was torn.
AllWhole(fs, m, k) == \A j \in 1..k : Whole(fs[j].name, Kept(fs[j].name, m[fs[j].name]))

\* The state of decode_fields after them.
ReadPart(fs, m, k, rest) == IF AllWhole(fs, m, k) THEN Got(Part(fs, m, k), rest) ELSE Eof

\* Field k of m holds what its kind allows.
Holds(fs, m, k) == Named(fs[k].name, fs[k].kind) /\ m[fs[k].name] \in Values(fs[k].kind)

\* One field more.
LEMMA ReadOneField ==
    ASSUME NatInductive, NEW fs, NEW m, NEW k \in Nat, k # 0, Holds(fs, m, k), NEW t \in Text
    PROVE  \E r \in Text :
               /\ get_field(ReadPart(fs, m, k - 1, Put(fs[k].kind, m[fs[k].name]) \o t), fs[k])
                      = ReadPart(fs, m, k, r)
               /\ fs[k].kind \notin {"strings", "data"} => r = t
<1> DEFINE name == fs[k].name
           kind == fs[k].kind
           v == m[name]
           in == Put(kind, v) \o t
           w == Kept(name, v)
<1>1. PICK r \in Text : get(kind, in) = Back(name, v, r) /\ (kind \notin {"strings", "data"} => r = t)
  BY FieldBack, Zenon DEF Holds
<1>2. AllWhole(fs, m, k) <=> AllWhole(fs, m, k - 1) /\ Whole(name, w)
  <2>1. ASSUME AllWhole(fs, m, k - 1), Whole(name, w), NEW j \in 1..k
        PROVE  Whole(fs[j].name, Kept(fs[j].name, m[fs[j].name]))
    <3>1. j = k \/ j \in 1..(k - 1)
      OBVIOUS
    <3> QED
      BY <3>1, <2>1, Zenon DEF AllWhole
  <2>2. k \in 1..k /\ \A j \in 1..(k - 1) : j \in 1..k
    OBVIOUS
  <2> QED
    BY <2>1, <2>2, Zenon DEF AllWhole
<1>3. With(Part(fs, m, k - 1), name, w) = Part(fs, m, k)
  <2> DEFINE D(i) == {"type"} \cup {fs[j].name : j \in 1..i}
  <2>1. D(k) = D(k - 1) \cup {name}
    <3>1. 1..k = (1..(k - 1)) \cup {k}
      OBVIOUS
    <3> QED
      BY <3>1, Zenon
  <2> HIDE DEF D
  <2>2. Part(fs, m, k - 1) = [f \in D(k - 1) |-> Kept(f, m[f])] /\ Part(fs, m, k) = [f \in D(k) |-> Kept(f, m[f])]
    BY Zenon DEF Part, D
  <2> HIDE DEF name
  <2>3. With([f \in D(k - 1) |-> Kept(f, m[f])], name, w) = [f \in D(k) |-> Kept(f, m[f])]
    BY <2>1 DEF With
  <2> QED
    BY <2>2, <2>3, Zenon
<1> HIDE DEF in, w, v
<1>4. CASE ~AllWhole(fs, m, k - 1)
  <2>1. ReadPart(fs, m, k - 1, in) = Eof /\ ReadPart(fs, m, k, r) = Eof
    BY <1>2, <1>4, Zenon DEF ReadPart
  <2>2. get_field(Eof, fs[k]) = Eof
    BY DEF get_field, Eof
  <2> QED
    BY <1>1, <2>1, <2>2, Zenon DEF in, v
<1>5. CASE AllWhole(fs, m, k - 1)
  <2>1. ReadPart(fs, m, k - 1, in) = Got(Part(fs, m, k - 1), in)
    BY <1>5, Zenon DEF ReadPart
  <2>2. get_field(Got(Part(fs, m, k - 1), in), fs[k]) = Set(Part(fs, m, k - 1), name, get(kind, in))
    BY Zenon DEF get_field, Got
  <2>3. CASE Whole(name, w)
    <3>1. get(kind, in) = Got(w, r)
      BY <1>1, <2>3, Zenon DEF Back, w
    <3>2. Set(Part(fs, m, k - 1), name, Got(w, r)) = Got(With(Part(fs, m, k - 1), name, w), r)
      BY Zenon DEF Set, Got
    <3>3. ReadPart(fs, m, k, r) = Got(Part(fs, m, k), r)
      BY <1>2, <1>5, <2>3, Zenon DEF ReadPart
    <3>4. get_field(ReadPart(fs, m, k - 1, in), fs[k]) = ReadPart(fs, m, k, r)
      BY <1>3, <2>1, <2>2, <3>1, <3>2, <3>3, Zenon
    <3> QED
      BY <1>1, <3>4, Zenon DEF in, v
  <2>4. CASE ~Whole(name, w)
    <3>1. get(kind, in) = Eof
      BY <1>1, <2>4, Zenon DEF Back, w
    <3>2. Set(Part(fs, m, k - 1), name, Eof) = Eof
      BY DEF Set, Eof
    <3>3. ReadPart(fs, m, k, r) = Eof
      BY <1>2, <2>4, Zenon DEF ReadPart
    <3>4. get_field(ReadPart(fs, m, k - 1, in), fs[k]) = ReadPart(fs, m, k, r)
      BY <2>1, <2>2, <3>1, <3>2, <3>3, Zenon
    <3> QED
      BY <1>1, <3>4, Zenon DEF in, v
  <2> QED
    BY <2>3, <2>4, Zenon
<1> QED
  BY <1>4, <1>5, Zenon

\* The recursion of ReadFields: left[k] is what the k-th field begins.
LEMMA ReadFieldsRec ==
    ASSUME NatInductive, NEW fs, NEW m, Len(fs) \in Nat, Len(fs) # 0,
           \A k \in 1..(Len(fs) - 1) : Holds(fs, m, k) /\ fs[k].kind \notin {"strings", "data"},
           NEW left \in [1..Len(fs) -> Text],
           \A k \in 1..(Len(fs) - 1) : left[k] = Put(fs[k].kind, m[fs[k].name]) \o left[k + 1]
    PROVE  decode_fields(fs, m.type, left[1]) =
               get_field(ReadPart(fs, m, Len(fs) - 1, left[Len(fs)]), fs[Len(fs)])
<1> DEFINE n == Len(fs)
           Closed(k) == IF k < n THEN ReadPart(fs, m, k, left[k + 1])
                        ELSE get_field(ReadPart(fs, m, n - 1, left[n]), fs[n])
           g == [k \in 0..n |-> Closed(k)]
           Is(f) == f = [k \in 0..n |-> IF k = 0 THEN Got([type |-> m.type], left[1]) ELSE get_field(f[k - 1], fs[k])]
<1>0. n \in Nat /\ n # 0
  OBVIOUS
<1>1. Closed(0) = Got([type |-> m.type], left[1])
  <2>1. Part(fs, m, 0) = [f \in {"type"} |-> Kept(f, m[f])]
    <3>1. 1..0 = {}
      OBVIOUS
    <3>2. {"type"} \cup {fs[j].name : j \in 1..0} = {"type"}
      BY <3>1, Zenon
    <3> QED
      BY <3>2, Zenon DEF Part
  <2>2. Kept("type", m["type"]) = m.type
    BY Zenon DEF Kept, StringFields, ListFields
  <2>3. Part(fs, m, 0) = [type |-> m.type]
    BY <2>1, <2>2, Zenon
  <2>4. AllWhole(fs, m, 0)
    BY SMTT(20) DEF AllWhole
  <2>5. 0 < n /\ 0 + 1 = 1
    BY <1>0, SMTT(20)
  <2>6. Closed(0) = ReadPart(fs, m, 0, left[1])
    BY <2>5
  <2> QED
    BY <2>3, <2>4, <2>6, Zenon DEF ReadPart
<1>2. ASSUME NEW k \in 1..n PROVE Closed(k) = get_field(Closed(k - 1), fs[k])
  <2>0. k \in Nat /\ k # 0 /\ k - 1 < n /\ (k - 1) + 1 = k /\ (k < n \/ (k = n /\ ~(k < n)))
    BY <1>0
  <2>1. CASE k < n
    <3>1. k \in 1..(n - 1) /\ k + 1 \in 1..n
      BY <1>0, <2>1
    <3>2. left[k + 1] \in Text /\ left[k] = Put(fs[k].kind, m[fs[k].name]) \o left[k + 1]
      BY <3>1, Zenon
    <3>3. get_field(ReadPart(fs, m, k - 1, left[k]), fs[k]) = ReadPart(fs, m, k, left[k + 1])
      <4>1. Holds(fs, m, k) /\ fs[k].kind \notin {"strings", "data"}
        BY <3>1, Zenon
      <4>2. PICK x \in Text :
                /\ get_field(ReadPart(fs, m, k - 1, Put(fs[k].kind, m[fs[k].name]) \o left[k + 1]), fs[k])
                       = ReadPart(fs, m, k, x)
                /\ fs[k].kind \notin {"strings", "data"} => x = left[k + 1]
        BY <2>0, <3>2, <4>1, ReadOneField, ZenonT(40)
      <4> QED
        BY <3>2, <4>1, <4>2, Zenon
    <3> QED
      BY <2>0, <2>1, <3>3, Zenon
  <2>2. CASE k = n /\ ~(k < n)
    BY <2>0, <2>2, Zenon
  <2> QED
    BY <2>0, <2>1, <2>2, Zenon
<1> HIDE DEF Closed
<1>3. Is(g)
  BY <1>0, <1>1, <1>2
<1>4. Is(ReadFields(fs, m.type, left[1]))
  <2>1. \E f : Is(f)
    BY <1>3, Zenon
  <2> QED
    BY <2>1, Zenon DEF ReadFields
<1> DEFINE r == ReadFields(fs, m.type, left[1])
           T == {k \in Nat : k <= n => r[k] = Closed(k)}
<1>5. \A k \in 0..n : r[k] = IF k = 0 THEN Got([type |-> m.type], left[1]) ELSE get_field(r[k - 1], fs[k])
  BY <1>4, Zenon
<1> HIDE DEF r
<1>6. 0 \in T
  BY <1>0, <1>1, <1>5, SMTT(20)
<1>7. ASSUME NEW k \in T PROVE k + 1 \in T
  <2>1. ASSUME k + 1 <= n PROVE r[k + 1] = Closed(k + 1)
    <3>1. /\ k <= n /\ k + 1 \in 1..n /\ k + 1 \in 0..n /\ k + 1 # 0 /\ (k + 1) - 1 = k
          /\ r[k] = Closed(k)
      BY <1>0, <2>1
    <3>2. r[k + 1] = get_field(r[k], fs[k + 1])
      BY <3>1, <1>5, Zenon
    <3>3. Closed(k + 1) = get_field(Closed(k), fs[k + 1])
      BY <3>1, <1>2, Zenon
    <3> QED
      BY <3>1, <3>2, <3>3, Zenon
  <2> QED
    BY <2>1
<1>8. T = Nat
  <2>1. T \in SUBSET Nat
    BY Zenon
  <2> HIDE DEF T
  <2> QED
    BY <1>6, <1>7, <2>1, Zenon DEF NatInductive
<1>9. r[n] = Closed(n)
  BY <1>0, <1>8, SMTT(20)
<1>10. Closed(n) = get_field(ReadPart(fs, m, n - 1, left[n]), fs[n])
  BY <1>0 DEF Closed
<1> QED
  BY <1>9, <1>10, Zenon DEF r, decode_fields

\* Every name goes with its kind, and lists and data come last.
Tabled(fs) ==
    /\ Len(fs) \in Nat /\ DOMAIN fs = 1..Len(fs)
    /\ \A k \in 1..Len(fs) : /\ Named(fs[k].name, fs[k].kind)
                             /\ k < Len(fs) => fs[k].kind \notin {"strings", "data"}

\* The table of every type is such a table.
LEMMA FieldTable ==
    ASSUME NEW T \in Range(MsgType)
    PROVE  Tabled(Fields(T))
<1>1. /\ Tabled(Fields("HelloAck"))
      /\ Tabled(Fields("Pong"))
      /\ Tabled(Fields("Ifaces"))
      /\ Tabled(Fields("Subscribed"))
      /\ Tabled(Fields("Unsubscribed"))
      /\ Tabled(Fields("SendAck"))
      /\ Tabled(Fields("FrameEvent"))
      /\ Tabled(Fields("Error"))
  <2>1. Tabled(Fields("HelloAck"))
    <3>1. Tabled(<<Field("version", "string"), Field("server_name", "string"), Field("features", "strings")>>)
      BY DEF Field, Named, StringFields, ListFields, Tabled
    <3> QED
      BY <3>1, TableDaemon, Zenon
  <2>2. Tabled(Fields("Pong"))
    <3>1. Tabled(<<Field("id", "u64")>>)
      BY DEF Field, Named, StringFields, ListFields, Tabled
    <3> QED
      BY <3>1, TableDaemon, Zenon
  <2>3. Tabled(Fields("Ifaces"))
    <3>1. Tabled(<<Field("items", "strings")>>)
      BY DEF Field, Named, StringFields, ListFields, Tabled
    <3> QED
      BY <3>1, TableDaemon, Zenon
  <2>4. Tabled(Fields("Subscribed"))
    <3>1. Tabled(<<Field("ifaces", "strings")>>)
      BY DEF Field, Named, StringFields, ListFields, Tabled
    <3> QED
      BY <3>1, TableDaemon, Zenon
  <2>5. Tabled(Fields("Unsubscribed"))
    BY TableDaemon DEF Field, Named, StringFields, ListFields, Tabled
  <2>6. Tabled(Fields("SendAck"))
    <3>1. Tabled(<<Field("ok", "bool"), Field("error_message", "nonempty")>>)
      BY DEF Field, Named, StringFields, ListFields, Tabled
    <3> QED
      BY <3>1, TableDaemon, Zenon
  <2>7. Tabled(Fields("FrameEvent"))
    <3>1. Tabled(<<Field("ts_ms", "u64"), Field("iface", "string"), Field("dir", "string"),
                   Field("id", "u32"), Field("is_fd", "bool"), Field("data", "data")>>)
      BY DEF Field, Named, StringFields, ListFields, Tabled
    <3> QED
      BY <3>1, TableDaemon, Zenon
  <2>8. Tabled(Fields("Error"))
    <3>1. Tabled(<<Field("message", "string")>>)
      BY DEF Field, Named, StringFields, ListFields, Tabled
    <3> QED
      BY <3>1, TableDaemon, Zenon
  <2> QED
    BY <2>1, <2>2, <2>3, <2>4, <2>5, <2>6, <2>7, <2>8, Zenon
<1>2. /\ Tabled(Fields("ClientHello"))
      /\ Tabled(Fields("Ping"))
      /\ Tabled(Fields("ListIfaces"))
      /\ Tabled(Fields("Subscribe"))
      /\ Tabled(Fields("Unsubscribe"))
      /\ Tabled(Fields("SendFrame"))
  <2>1. Tabled(Fields("ClientHello"))
    <3>1. Tabled(<<Field("client", "string"), Field("protocol", "string")>>)
      BY DEF Field, Named, StringFields, ListFields, Tabled
    <3> QED
      BY <3>1, TableClient, Zenon
  <2>2. Tabled(Fields("Ping"))
    <3>1. Tabled(<<Field("id", "u64")>>)
      BY DEF Field, Named, StringFields, ListFields, Tabled
    <3> QED
      BY <3>1, TableClient, Zenon
  <2>3. Tabled(Fields("ListIfaces"))
    BY TableClient DEF Field, Named, StringFields, ListFields, Tabled
  <2>4. Tabled(Fields("Subscribe"))
    <3>1. Tabled(<<Field("ifaces", "strings")>>)
      BY DEF Field, Named, StringFields, ListFields, Tabled
    <3> QED
      BY <3>1, TableClient, Zenon
  <2>5. Tabled(Fields("Unsubscribe"))
    BY TableClient DEF Field, Named, StringFields, ListFields, Tabled
  <2>6. Tabled(Fields("SendFrame"))
    <3>1. Tabled(<<Field("iface", "string"), Field("id", "u32"), Field("is_fd", "bool"),
                   Field("brs", "bool"), Field("esi", "bool"), Field("data", "data")>>)
      BY DEF Field, Named, StringFields, ListFields, Tabled
    <3> QED
      BY <3>1, TableClient, Zenon
  <2> QED
    BY <2>1, <2>2, <2>3, <2>4, <2>5, <2>6, Zenon
<1>3. T \in Range(DaemonTypes) \/ T \in Range(ClientTypes)
  BY Types, Zenon
<1>4. CASE T \in Range(DaemonTypes)
  BY <1>1, <1>4, Types, Zenon
<1>5. CASE T \in Range(ClientTypes)
  BY <1>2, <1>5, Types, Zenon
<1> QED
  BY <1>3, <1>4, <1>5

\* A message holds what its fields allow.
LEMMA Held ==
    ASSUME NEW m, IsMessage(m)
    PROVE  /\ m.type \in Range(MsgType)
           /\ Len(Fields(m.type)) \in Nat /\ DOMAIN Fields(m.type) = 1..Len(Fields(m.type))
           /\ \A k \in 1..Len(Fields(m.type)) :
                  /\ Holds(Fields(m.type), m, k)
                  /\ k < Len(Fields(m.type)) => Fields(m.type)[k].kind \notin {"strings", "data"}
<1> DEFINE fs == Fields(m.type)
<1>1. m.type \in Range(MsgType) /\ \A f \in Range(fs) : m[f.name] \in Values(f.kind)
  BY Zenon DEF IsMessage
<1>2. /\ Len(fs) \in Nat /\ DOMAIN fs = 1..Len(fs)
      /\ \A k \in 1..Len(fs) : /\ Named(fs[k].name, fs[k].kind)
                               /\ k < Len(fs) => fs[k].kind \notin {"strings", "data"}
  BY <1>1, FieldTable, Zenon DEF Tabled
<1> HIDE DEF fs
<1>3. \A k \in 1..Len(fs) : m[fs[k].name] \in Values(fs[k].kind)
  <2>1. \A k \in 1..Len(fs) : fs[k] \in Range(fs)
    BY <1>2, Zenon DEF Range
  <2> QED
    BY <1>1, <2>1, Zenon
<1> QED
  BY <1>1, <1>2, <1>3, Zenon DEF fs, Holds

\* What field k of m is written as.
Wrote(fs, m, k) == Put(fs[k].kind, m[fs[k].name])

\* head is what the fields but the last are written as.
Heads(fs, m, head) ==
    \A last \in Text : \E left \in [1..Len(fs) -> Text] :
        /\ left[1] = head \o last
        /\ left[Len(fs)] = last
        /\ \A k \in 1..(Len(fs) - 1) : left[k] = Put(fs[k].kind, m[fs[k].name]) \o left[k + 1]

\* One field: nothing before the last.
LEMMA HeadsOne ==
    ASSUME NEW fs, NEW m, NEW n, n = 1, Len(fs) = n
    PROVE  Heads(fs, m, <<>>)
<1> SUFFICES ASSUME NEW last \in Text
             PROVE  \E left \in [1..Len(fs) -> Text] :
                        /\ left[1] = <<>> \o last
                        /\ left[Len(fs)] = last
                        /\ \A k \in 1..(Len(fs) - 1) : left[k] = Put(fs[k].kind, m[fs[k].name]) \o left[k + 1]
  BY Zenon DEF Heads
<1> DEFINE left == <<last>>
<1>1. left \in [1..1 -> Text] /\ left[1] = last
  OBVIOUS
<1> HIDE DEF left
<1>2. \A k : k \notin 1..(1 - 1)
  OBVIOUS
<1> QED
  BY <1>1, <1>2, TextEmpty, Zenon

\* Two fields.
LEMMA HeadsTwo ==
    ASSUME NEW fs, NEW m, NEW n, n = 2, Len(fs) = n, NEW a \in Text, Wrote(fs, m, 1) = a
    PROVE  Heads(fs, m, a)
<1> SUFFICES ASSUME NEW last \in Text
             PROVE  \E left \in [1..Len(fs) -> Text] :
                        /\ left[1] = a \o last
                        /\ left[Len(fs)] = last
                        /\ \A k \in 1..(Len(fs) - 1) : left[k] = Put(fs[k].kind, m[fs[k].name]) \o left[k + 1]
  BY Zenon DEF Heads
<1> DEFINE l1 == a \o last
           left == <<l1, last>>
<1>0. l1 \in Text
  BY DEF Text
<1> HIDE DEF l1
<1>1. left \in [1..2 -> Text] /\ left[1] = l1 /\ left[2] = last
  BY <1>0
<1> HIDE DEF left
<1>2. \A k : k \in 1..(2 - 1) => k = 1 /\ k + 1 = 2
  OBVIOUS
<1>3. \A k \in 1..(2 - 1) : left[k] = Put(fs[k].kind, m[fs[k].name]) \o left[k + 1]
  BY <1>1, <1>2, Zenon DEF Wrote, l1
<1> QED
  BY <1>1, <1>3, Zenon DEF l1

\* The fields that have a next one.
LEMMA Successors ==
    /\ \A k \in 1..(3 - 1) : (k = 1 /\ k + 1 = 2) \/ (k = 2 /\ k + 1 = 3)
    /\ \A k \in 1..(6 - 1) : \/ k = 1 /\ k + 1 = 2
                             \/ k = 2 /\ k + 1 = 3
                             \/ k = 3 /\ k + 1 = 4
                             \/ k = 4 /\ k + 1 = 5
                             \/ k = 5 /\ k + 1 = 6
  OBVIOUS

\* Three fields.
LEMMA HeadsThree ==
    ASSUME NEW fs, NEW m, NEW n, n = 3, Len(fs) = n,
           NEW a \in Text, Wrote(fs, m, 1) = a, NEW b \in Text, Wrote(fs, m, 2) = b
    PROVE  Heads(fs, m, a \o b)
<1> SUFFICES ASSUME NEW last \in Text
             PROVE  \E left \in [1..Len(fs) -> Text] :
                        /\ left[1] = (a \o b) \o last
                        /\ left[Len(fs)] = last
                        /\ \A k \in 1..(Len(fs) - 1) : left[k] = Put(fs[k].kind, m[fs[k].name]) \o left[k + 1]
  BY Zenon DEF Heads
<1> DEFINE l2 == b \o last
           l1 == a \o l2
           left == <<l1, l2, last>>
<1>0. l1 \in Text /\ l2 \in Text
  BY DEF Text
<1>4. (a \o b) \o last = l1
  BY TextAssoc, ZenonT(40)
<1> HIDE DEF l1, l2
<1>1. left \in [1..3 -> Text] /\ left[1] = l1 /\ left[2] = l2 /\ left[3] = last
  BY <1>0
<1> HIDE DEF left
<1>3. \A k \in 1..(3 - 1) : left[k] = Put(fs[k].kind, m[fs[k].name]) \o left[k + 1]
  BY <1>1, Successors, Zenon DEF Wrote, l1, l2
<1> QED
  BY <1>1, <1>3, <1>4, Zenon

\* Six fields.
LEMMA HeadsSix ==
    ASSUME NEW fs, NEW m, NEW n, n = 6, Len(fs) = n,
           NEW a \in Text, Wrote(fs, m, 1) = a, NEW b \in Text, Wrote(fs, m, 2) = b,
           NEW c \in Text, Wrote(fs, m, 3) = c, NEW d \in Text, Wrote(fs, m, 4) = d,
           NEW e \in Text, Wrote(fs, m, 5) = e
    PROVE  Heads(fs, m, (((a \o b) \o c) \o d) \o e)
<1> SUFFICES ASSUME NEW last \in Text
             PROVE  \E left \in [1..Len(fs) -> Text] :
                        /\ left[1] = ((((a \o b) \o c) \o d) \o e) \o last
                        /\ left[Len(fs)] = last
                        /\ \A k \in 1..(Len(fs) - 1) : left[k] = Put(fs[k].kind, m[fs[k].name]) \o left[k + 1]
  BY Zenon DEF Heads
<1> DEFINE C(x, y) == x \o y
           l5 == C(e, last)
           l4 == C(d, l5)
           l3 == C(c, l4)
           l2 == C(b, l3)
           l1 == C(a, l2)
           p3 == C(C(a, b), c)
           p4 == C(p3, d)
           left == <<l1, l2, l3, l4, l5, last>>
<1>5. \A x, y \in Text : C(x, y) \in Text
  BY DEF Text
<1>6. \A x, y, z \in Text : C(C(x, y), z) = C(x, C(y, z))
  BY TextAssoc, Zenon
<1> HIDE DEF C
<1>0. l1 \in Text /\ l2 \in Text /\ l3 \in Text /\ l4 \in Text /\ l5 \in Text
  BY <1>5
<1>7. C(a, b) \in Text /\ p3 \in Text /\ p4 \in Text
  BY <1>5
<1>4. C(C(p4, e), last) = l1
  <2>1. C(C(p4, e), last) = C(p4, l5)
    BY <1>6, <1>7, SMTT(20)
  <2>2. C(p4, l5) = C(p3, l4)
    BY <1>6, <1>7, <1>0, SMTT(20)
  <2>3. C(p3, l4) = C(C(a, b), l3)
    BY <1>6, <1>7, <1>0, SMTT(20)
  <2>4. C(C(a, b), l3) = l1
    BY <1>6, <1>0, SMTT(20)
  <2> QED
    BY <2>1, <2>2, <2>3, <2>4, Zenon
<1> HIDE DEF l1, l2, l3, l4, l5
<1>1. /\ left \in [1..6 -> Text] /\ left[1] = l1 /\ left[2] = l2 /\ left[3] = l3
      /\ left[4] = l4 /\ left[5] = l5 /\ left[6] = last
  BY <1>0
<1> HIDE DEF left
<1>3. ASSUME NEW k \in 1..(6 - 1) PROVE left[k] = Put(fs[k].kind, m[fs[k].name]) \o left[k + 1]
  <2>1. CASE k = 1 /\ k + 1 = 2
    BY <1>1, <2>1, Zenon DEF Wrote, l1, C
  <2>2. CASE k = 2 /\ k + 1 = 3
    BY <1>1, <2>2, Zenon DEF Wrote, l2, C
  <2>3. CASE k = 3 /\ k + 1 = 4
    BY <1>1, <2>3, Zenon DEF Wrote, l3, C
  <2>4. CASE k = 4 /\ k + 1 = 5
    BY <1>1, <2>4, Zenon DEF Wrote, l4, C
  <2>5. CASE k = 5 /\ k + 1 = 6
    BY <1>1, <2>5, Zenon DEF Wrote, l5, C
  <2> QED
    BY Successors, <2>1, <2>2, <2>3, <2>4, <2>5, Zenon
<1> QED
  BY <1>1, <1>3, <1>4, Zenon DEF C

\* No bytes are a text.
LEMMA EmptyText == <<>> \in Text
  BY DEF Text

\* Texts are closed under appending.
LEMMA CatText == \A x, y \in Text : x \o y \in Text
  BY DEF Text

\* The numbers of the fields.
LEMMA Upto ==
    /\ 1 \in 1..1
    /\ 1 \in 1..2 /\ 2 \in 1..2 /\ 1 \in 1..3 /\ 2 \in 1..3 /\ 3 \in 1..3
    /\ 1 \in 1..6 /\ 2 \in 1..6 /\ 3 \in 1..6 /\ 4 \in 1..6 /\ 5 \in 1..6 /\ 6 \in 1..6
  OBVIOUS

\* The payload of a message: its fields, one after the other.
LEMMA Shape ==
    ASSUME NatInductive, NEW m, IsMessage(m), NEW fs, fs = Fields(m.type), Len(fs) # 0
    PROVE  \E head \in Text : Heads(fs, m, head) /\ encode_payload(m) = head \o Wrote(fs, m, Len(fs))
<1>1. \A k \in 1..Len(fs) : Wrote(fs, m, k) \in Text
  BY Held, PutField, Zenon DEF Holds, Wrote
<1>2. CASE m.type = "HelloAck"
  <2>1. Len(fs) = 3
    BY <1>2, TableLengths, ZenonT(40)
  <2>2. /\ Wrote(fs, m, 1) = put_string(m.version)
        /\ Wrote(fs, m, 2) = put_string(m.server_name)
        /\ Wrote(fs, m, 3) = put_strings(m.features)
    BY <1>2, TableDaemon DEF Wrote, Put, Field
  <2>3. encode_payload(m) = (Wrote(fs, m, 1) \o Wrote(fs, m, 2)) \o Wrote(fs, m, 3)
    BY <1>2, <2>2, Types, Zenon DEF encode_payload, encode_daemon_payload
  <2>4. Wrote(fs, m, 1) \in Text /\ Wrote(fs, m, 2) \in Text /\ Wrote(fs, m, 3) \in Text
    BY <1>1, <2>1, Upto, Zenon
  <2>5. Heads(fs, m, (Wrote(fs, m, 1) \o Wrote(fs, m, 2))) /\ (Wrote(fs, m, 1) \o Wrote(fs, m, 2)) \in Text
    BY <2>1, <2>4, HeadsThree, CatText, Zenon
  <2> QED
    BY <2>1, <2>3, <2>4, <2>5, Zenon
<1>3. CASE m.type = "Pong"
  <2>1. Len(fs) = 1
    BY <1>3, TableLengths, Zenon
  <2>2. /\ Wrote(fs, m, 1) = put_u64(m.id)
    BY <1>3, TableDaemon DEF Wrote, Put, Field
  <2>3. encode_payload(m) = Wrote(fs, m, 1)
    BY <1>3, <2>2, Types, Zenon DEF encode_payload, encode_daemon_payload
  <2>4. Wrote(fs, m, 1) \in Text
    BY <1>1, <2>1, Upto, Zenon
  <2>5. Heads(fs, m, <<>>) /\ <<>> \in Text /\ <<>> \o Wrote(fs, m, 1) = Wrote(fs, m, 1)
    BY <2>1, <2>4, HeadsOne, TextEmpty, EmptyText, Zenon
  <2> QED
    BY <2>1, <2>3, <2>5, Zenon
<1>4. CASE m.type = "Ifaces"
  <2>1. Len(fs) = 1
    BY <1>4, TableLengths, Zenon
  <2>2. /\ Wrote(fs, m, 1) = put_strings(m.items)
    BY <1>4, TableDaemon DEF Wrote, Put, Field
  <2>3. encode_payload(m) = Wrote(fs, m, 1)
    BY <1>4, <2>2, Types, Zenon DEF encode_payload, encode_daemon_payload
  <2>4. Wrote(fs, m, 1) \in Text
    BY <1>1, <2>1, Upto, Zenon
  <2>5. Heads(fs, m, <<>>) /\ <<>> \in Text /\ <<>> \o Wrote(fs, m, 1) = Wrote(fs, m, 1)
    BY <2>1, <2>4, HeadsOne, TextEmpty, EmptyText, Zenon
  <2> QED
    BY <2>1, <2>3, <2>5, Zenon
<1>5. CASE m.type = "Subscribed"
  <2>1. Len(fs) = 1
    BY <1>5, TableLengths, Zenon
  <2>2. /\ Wrote(fs, m, 1) = put_strings(m.ifaces)
    BY <1>5, TableDaemon DEF Wrote, Put, Field
  <2>3. encode_payload(m) = Wrote(fs, m, 1)
    BY <1>5, <2>2, Types, Zenon DEF encode_payload, encode_daemon_payload
  <2>4. Wrote(fs, m, 1) \in Text
    BY <1>1, <2>1, Upto, Zenon
  <2>5. Heads(fs, m, <<>>) /\ <<>> \in Text /\ <<>> \o Wrote(fs, m, 1) = Wrote(fs, m, 1)
    BY <2>1, <2>4, HeadsOne, TextEmpty, EmptyText, Zenon
  <2> QED
    BY <2>1, <2>3, <2>5, Zenon
<1>6. CASE m.type = "SendAck"
  <2>1. Len(fs) = 2
    BY <1>6, TableLengths, Zenon
  <2>2. /\ Wrote(fs, m, 1) = put_bool(m.ok)
        /\ Wrote(fs, m, 2) = put_string(IF m.error_message = <<>> THEN <<>> ELSE m.error_message[1])
    BY <1>6, TableDaemon DEF Wrote, Put, Field
  <2>3. encode_payload(m) = Wrote(fs, m, 1) \o Wrote(fs, m, 2)
    BY <1>6, <2>2, Types, Zenon DEF encode_payload, encode_daemon_payload
  <2>4. Wrote(fs, m, 1) \in Text /\ Wrote(fs, m, 2) \in Text
    BY <1>1, <2>1, Upto, Zenon
  <2>5. Heads(fs, m, Wrote(fs, m, 1))
    BY <2>1, <2>4, HeadsTwo, Zenon
  <2> QED
    BY <2>1, <2>3, <2>4, <2>5, Zenon
<1>7. CASE m.type = "FrameEvent"
  <2>1. Len(fs) = 6
    BY <1>7, TableLengths, ZenonT(40)
  <2>2. /\ Wrote(fs, m, 1) = put_u64(m.ts_ms)
        /\ Wrote(fs, m, 2) = put_string(m.iface)
        /\ Wrote(fs, m, 3) = put_string(m.dir)
        /\ Wrote(fs, m, 4) = put_u32(m.id)
        /\ Wrote(fs, m, 5) = put_bool(m.is_fd)
        /\ Wrote(fs, m, 6) = put_data(m.data)
    BY <1>7, TableDaemon DEF Wrote, Put, Field
  <2>3. encode_payload(m) = ((((Wrote(fs, m, 1) \o Wrote(fs, m, 2)) \o Wrote(fs, m, 3)) \o Wrote(fs, m, 4)) \o Wrote(fs, m, 5)) \o Wrote(fs, m, 6)
    BY <1>7, <2>2, Types, Zenon DEF encode_payload, encode_daemon_payload
  <2>4. Wrote(fs, m, 1) \in Text /\ Wrote(fs, m, 2) \in Text /\ Wrote(fs, m, 3) \in Text /\ Wrote(fs, m, 4) \in Text /\ Wrote(fs, m, 5) \in Text /\ Wrote(fs, m, 6) \in Text
    BY <1>1, <2>1, Upto, Zenon
  <2>5. Heads(fs, m, ((((Wrote(fs, m, 1) \o Wrote(fs, m, 2)) \o Wrote(fs, m, 3)) \o Wrote(fs, m, 4)) \o Wrote(fs, m, 5))) /\ ((((Wrote(fs, m, 1) \o Wrote(fs, m, 2)) \o Wrote(fs, m, 3)) \o Wrote(fs, m, 4)) \o Wrote(fs, m, 5)) \in Text
    BY <2>1, <2>4, HeadsSix, CatText, ZenonT(40)
  <2> QED
    BY <2>1, <2>3, <2>4, <2>5, Zenon
<1>8. CASE m.type = "Error"
  <2>1. Len(fs) = 1
    BY <1>8, TableLengths, Zenon
  <2>2. /\ Wrote(fs, m, 1) = put_string(m.message)
    BY <1>8, TableDaemon DEF Wrote, Put, Field
  <2>3. encode_payload(m) = Wrote(fs, m, 1)
    BY <1>8, <2>2, Types, Zenon DEF encode_payload, encode_daemon_payload
  <2>4. Wrote(fs, m, 1) \in Text
    BY <1>1, <2>1, Upto, Zenon
  <2>5. Heads(fs, m, <<>>) /\ <<>> \in Text /\ <<>> \o Wrote(fs, m, 1) = Wrote(fs, m, 1)
    BY <2>1, <2>4, HeadsOne, TextEmpty, EmptyText, Zenon
  <2> QED
    BY <2>1, <2>3, <2>5, Zenon
<1>9. CASE m.type = "ClientHello"
  <2>1. Len(fs) = 2
    BY <1>9, TableLengths, Zenon
  <2>2. /\ Wrote(fs, m, 1) = put_string(m.client)
        /\ Wrote(fs, m, 2) = put_string(m.protocol)
    BY <1>9, TableClient DEF Wrote, Put, Field
  <2>3. encode_payload(m) = Wrote(fs, m, 1) \o Wrote(fs, m, 2)
    BY <1>9, <2>2, Types, Zenon DEF encode_payload, encode_client_payload
  <2>4. Wrote(fs, m, 1) \in Text /\ Wrote(fs, m, 2) \in Text
    BY <1>1, <2>1, Upto, Zenon
  <2>5. Heads(fs, m, Wrote(fs, m, 1))
    BY <2>1, <2>4, HeadsTwo, Zenon
  <2> QED
    BY <2>1, <2>3, <2>4, <2>5, Zenon
<1>10. CASE m.type = "Ping"
  <2>1. Len(fs) = 1
    BY <1>10, TableLengths, Zenon
  <2>2. /\ Wrote(fs, m, 1) = put_u64(m.id)
    BY <1>10, TableClient DEF Wrote, Put, Field
  <2>3. encode_payload(m) = Wrote(fs, m, 1)
    BY <1>10, <2>2, Types, Zenon DEF encode_payload, encode_client_payload
  <2>4. Wrote(fs, m, 1) \in Text
    BY <1>1, <2>1, Upto, Zenon
  <2>5. Heads(fs, m, <<>>) /\ <<>> \in Text /\ <<>> \o Wrote(fs, m, 1) = Wrote(fs, m, 1)
    BY <2>1, <2>4, HeadsOne, TextEmpty, EmptyText, Zenon
  <2> QED
    BY <2>1, <2>3, <2>5, Zenon
<1>11. CASE m.type = "Subscribe"
  <2>1. Len(fs) = 1
    BY <1>11, TableLengths, Zenon
  <2>2. /\ Wrote(fs, m, 1) = put_strings(m.ifaces)
    BY <1>11, TableClient DEF Wrote, Put, Field
  <2>3. encode_payload(m) = Wrote(fs, m, 1)
    BY <1>11, <2>2, Types, Zenon DEF encode_payload, encode_client_payload
  <2>4. Wrote(fs, m, 1) \in Text
    BY <1>1, <2>1, Upto, Zenon
  <2>5. Heads(fs, m, <<>>) /\ <<>> \in Text /\ <<>> \o Wrote(fs, m, 1) = Wrote(fs, m, 1)
    BY <2>1, <2>4, HeadsOne, TextEmpty, EmptyText, Zenon
  <2> QED
    BY <2>1, <2>3, <2>5, Zenon
<1>12. CASE m.type = "SendFrame"
  <2>1. Len(fs) = 6
    BY <1>12, TableLengths, ZenonT(40)
  <2>2. /\ Wrote(fs, m, 1) = put_string(m.iface)
        /\ Wrote(fs, m, 2) = put_u32(m.id)
        /\ Wrote(fs, m, 3) = put_bool(m.is_fd)
        /\ Wrote(fs, m, 4) = put_bool(m.brs)
        /\ Wrote(fs, m, 5) = put_bool(m.esi)
        /\ Wrote(fs, m, 6) = put_data(m.data)
    BY <1>12, TableClient DEF Wrote, Put, Field
  <2>3. encode_payload(m) = ((((Wrote(fs, m, 1) \o Wrote(fs, m, 2)) \o Wrote(fs, m, 3)) \o Wrote(fs, m, 4)) \o Wrote(fs, m, 5)) \o Wrote(fs, m, 6)
    BY <1>12, <2>2, Types, Zenon DEF encode_payload, encode_client_payload
  <2>4. Wrote(fs, m, 1) \in Text /\ Wrote(fs, m, 2) \in Text /\ Wrote(fs, m, 3) \in Text /\ Wrote(fs, m, 4) \in Text /\ Wrote(fs, m, 5) \in Text /\ Wrote(fs, m, 6) \in Text
    BY <1>1, <2>1, Upto, Zenon
  <2>5. Heads(fs, m, ((((Wrote(fs, m, 1) \o Wrote(fs, m, 2)) \o Wrote(fs, m, 3)) \o Wrote(fs, m, 4)) \o Wrote(fs, m, 5))) /\ ((((Wrote(fs, m, 1) \o Wrote(fs, m, 2)) \o Wrote(fs, m, 3)) \o Wrote(fs, m, 4)) \o Wrote(fs, m, 5)) \in Text
    BY <2>1, <2>4, HeadsSix, CatText, Zenon
  <2> QED
    BY <2>1, <2>3, <2>4, <2>5, Zenon
<1>13. m.type \notin {"Unsubscribed", "ListIfaces", "Unsubscribe"}
  BY TableDaemon, TableClient
<1>14. m.type \in Range(DaemonTypes) \cup Range(ClientTypes)
  BY Held, Types, Zenon
<1> QED
  BY <1>2, <1>3, <1>4, <1>5, <1>6, <1>7, <1>8, <1>9, <1>10, <1>11, <1>12, <1>13, <1>14, Types, ZenonT(40)

\* Nothing is read for a type without fields.
LEMMA ReadNoFields ==
    ASSUME NEW m, NEW payload, NEW fs, fs = <<>>
    PROVE  decode_fields(fs, m.type, payload) = ReadPart(fs, m, 0, payload)
<1> DEFINE e == Got([type |-> m.type], payload)
           Is(f) == f = [k \in 0..Len(fs) |-> IF k = 0 THEN e ELSE get_field(f[k - 1], fs[k])]
           g == [k \in 0..Len(fs) |-> e]
           r == ReadFields(fs, m.type, payload)
<1>2. Len(fs) = 0
  OBVIOUS
<1>1. Is(g)
  <2>1. \A k \in 0..0 : k = 0
    OBVIOUS
  <2> HIDE DEF e
  <2> QED
    BY <1>2, <2>1, Zenon
<1>3. Is(r)
  <2>1. \E f : Is(f)
    BY <1>1, Zenon
  <2> QED
    BY <2>1, Zenon DEF ReadFields
<1>4. r[0] = e
  <2>1. 0 \in 0..0
    BY SMTT(20)
  <2> HIDE DEF e, r
  <2> QED
    BY <1>2, <1>3, <2>1, Zenon
<1>5. Part(fs, m, 0) = [type |-> m.type]
  <2>1. Part(fs, m, 0) = [f \in {"type"} |-> Kept(f, m[f])]
    <3>1. 1..0 = {}
      OBVIOUS
    <3>2. {"type"} \cup {fs[j].name : j \in 1..0} = {"type"}
      BY <3>1, Zenon
    <3> QED
      BY <3>2, Zenon DEF Part
  <2>2. Kept("type", m["type"]) = m.type
    BY Zenon DEF Kept, StringFields, ListFields
  <2> QED
    BY <2>1, <2>2
<1>6. AllWhole(fs, m, 0)
  BY DEF AllWhole
<1> QED
  BY <1>2, <1>4, <1>5, <1>6, Zenon DEF decode_fields, ReadPart

\* The types with fields.
LEMMA HasFields ==
    /\ Len(Fields("HelloAck")) # 0
    /\ Len(Fields("Pong")) # 0
    /\ Len(Fields("Ifaces")) # 0
    /\ Len(Fields("Subscribed")) # 0
    /\ Len(Fields("SendAck")) # 0
    /\ Len(Fields("FrameEvent")) # 0
    /\ Len(Fields("Error")) # 0
    /\ Len(Fields("ClientHello")) # 0
    /\ Len(Fields("Ping")) # 0
    /\ Len(Fields("Subscribe")) # 0
    /\ Len(Fields("SendFrame")) # 0
<1>1. /\ Len(Fields("HelloAck")) # 0
      /\ Len(Fields("Pong")) # 0
      /\ Len(Fields("Ifaces")) # 0
      /\ Len(Fields("Subscribed")) # 0
      /\ Len(Fields("SendAck")) # 0
      /\ Len(Fields("FrameEvent")) # 0
      /\ Len(Fields("Error")) # 0
  BY Types, SMTT(20) DEF Fields, DaemonFields
<1>2. /\ Len(Fields("ClientHello")) # 0
      /\ Len(Fields("Ping")) # 0
      /\ Len(Fields("Subscribe")) # 0
      /\ Len(Fields("SendFrame")) # 0
  BY Types DEF Fields, ClientFields
<1> QED
  BY <1>1, <1>2, Zenon

\* The types without fields have empty payloads.
LEMMA NoFields ==
    ASSUME NEW m, IsMessage(m), Len(Fields(m.type)) = 0
    PROVE  Fields(m.type) = <<>> /\ encode_payload(m) = <<>>
<1>1. m.type \in {"Unsubscribed", "ListIfaces", "Unsubscribe"}
  <2>1. m.type \in Range(DaemonTypes) \cup Range(ClientTypes)
    BY Held, Types, Zenon
  <2> QED
    BY <2>1, HasFields, Types, Zenon
<1>2. Fields(m.type) = <<>>
  BY <1>1, TableDaemon, TableClient, SMTT(20)
<1>3. encode_payload(m) = <<>>
  BY <1>1, Types, Zenon DEF encode_payload, encode_daemon_payload, encode_client_payload
<1> QED
  BY <1>2, <1>3

\* A payload is a text.
LEMMA PayloadText ==
    ASSUME NatInductive, NEW m, IsMessage(m)
    PROVE  encode_payload(m) \in Text
<1> DEFINE fs == Fields(m.type)
           n == Len(fs)
<1>1. CASE n = 0
  BY <1>1, NoFields, EmptyText, Zenon
<1>2. CASE n # 0
  <2>1. PICK head \in Text : encode_payload(m) = head \o Wrote(fs, m, n)
    BY <1>2, Shape, Zenon
  <2>2. n \in 1..n
    BY <1>2, Held
  <2>3. Wrote(fs, m, n) \in Text
    BY <2>2, Held, PutField, Zenon DEF Wrote, Holds
  <2> QED
    BY <2>1, <2>3, CatText, Zenon
<1> QED
  BY <1>1, <1>2, Zenon

\* A payload comes back field by field, whatever follows it.
LEMMA PayloadBack ==
    ASSUME NatInductive, NEW m, IsMessage(m), NEW extra \in Text
    PROVE  \E r \in Text : decode_fields(Fields(m.type), m.type, encode_payload(m) \o extra)
                               = ReadPart(Fields(m.type), m, Len(Fields(m.type)), r)
<1> DEFINE fs == Fields(m.type)
           n == Len(fs)
<1>0. n \in Nat /\ \A k \in 1..n : Holds(fs, m, k) /\ (k < n => fs[k].kind \notin {"strings", "data"})
  BY Held, Zenon
<1>1. CASE n = 0
  <2>1. fs = <<>> /\ encode_payload(m) = <<>>
    BY <1>1, NoFields, Zenon
  <2>2. encode_payload(m) \o extra = extra
    BY <2>1, TextEmpty, Zenon
  <2>3. decode_fields(fs, m.type, extra) = ReadPart(fs, m, 0, extra)
    BY <2>1, ReadNoFields, Zenon
  <2> QED
    BY <1>1, <2>2, <2>3, Zenon
<1>2. CASE n # 0
  <2>1. PICK head \in Text : Heads(fs, m, head) /\ encode_payload(m) = head \o Wrote(fs, m, n)
    BY <1>2, Shape, Zenon
  <2> HIDE DEF n, fs
  <2>2. n \in 1..n /\ n \in Nat /\ \A k \in 1..(n - 1) : k \in 1..n /\ k < n
    BY <1>0, <1>2
  <2>3. Wrote(fs, m, n) \in Text
    BY <1>0, <2>2, PutField, Zenon DEF Wrote, Holds
  <2> DEFINE last == Wrote(fs, m, n) \o extra
  <2>4. last \in Text
    BY <2>3, CatText, Zenon
  <2>5. encode_payload(m) \o extra = head \o last
    <3> DEFINE w == Wrote(fs, m, n)
    <3>1. (head \o w) \o extra = head \o (w \o extra)
      <4>1. head \in Text /\ w \in Text /\ extra \in Text
        BY <2>3
      <4> HIDE DEF w
      <4> QED
        BY <4>1, TextAssoc, Zenon
    <3> QED
      BY <2>1, <3>1, Zenon
  <2>6. PICK left \in [1..n -> Text] :
            /\ left[1] = head \o last
            /\ left[n] = last
            /\ \A k \in 1..(n - 1) : left[k] = Put(fs[k].kind, m[fs[k].name]) \o left[k + 1]
    BY <2>1, <2>4, Zenon DEF Heads, n
  <2> HIDE DEF last
  <2>7. decode_fields(fs, m.type, left[1]) = get_field(ReadPart(fs, m, n - 1, left[n]), fs[n])
    <3>1. \A k \in 1..(n - 1) : Holds(fs, m, k) /\ fs[k].kind \notin {"strings", "data"}
      BY <1>0, <2>2, Zenon
    <3> QED
      BY <1>2, <2>2, <2>6, <3>1, ReadFieldsRec, Zenon DEF n
  <2>8. PICK r \in Text : get_field(ReadPart(fs, m, n - 1, last), fs[n]) = ReadPart(fs, m, n, r)
    BY <1>0, <1>2, <2>2, ReadOneField, ZenonT(40) DEF last, Wrote
  <2> QED
    BY <2>5, <2>6, <2>7, <2>8, Zenon DEF fs, n
<1> QED
  BY <1>1, <1>2, Zenon

\* Without its last byte it does not.
LEMMA PayloadShort ==
    ASSUME NatInductive, NEW m, IsMessage(m), CountsFit(m), encode_payload(m) # <<>>
    PROVE  decode_fields(Fields(m.type), m.type, Front(encode_payload(m))) = Eof
<1> DEFINE fs == Fields(m.type)
           n == Len(fs)
<1>0. /\ n \in Nat /\ DOMAIN fs = 1..n
      /\ \A k \in 1..n : Holds(fs, m, k) /\ (k < n => fs[k].kind \notin {"strings", "data"})
  BY Held, Zenon
<1>1. n # 0
  BY NoFields, Zenon
<1>2. PICK head \in Text : Heads(fs, m, head) /\ encode_payload(m) = head \o Wrote(fs, m, n)
  BY <1>1, Shape, Zenon
<1>3. DOMAIN m = {"type"} \cup {f.name : f \in Range(fs)}
  BY Zenon DEF IsMessage
<1> HIDE DEF n, fs
<1>4. n \in 1..n /\ n \in Nat /\ \A k \in 1..(n - 1) : k \in 1..n /\ k < n
  BY <1>0, <1>1
<1> DEFINE name == fs[n].name
           kind == fs[n].kind
           v == m[name]
           last == Front(Wrote(fs, m, n))
<1>5. Wrote(fs, m, n) \in Text /\ Wrote(fs, m, n) # <<>>
  BY <1>0, <1>4, PutField, Zenon DEF Wrote, Holds
<1>6. last \in Text /\ Front(encode_payload(m)) = head \o last
  BY <1>2, <1>5, FrontText, FrontCat, ZenonT(40)
<1>7. get(kind, last) = Eof
  <2>1. Named(name, kind) /\ v \in Values(kind)
    BY <1>0, <1>4, Zenon DEF Holds
  <2>2. name \in DOMAIN m
    BY <1>0, <1>3, <1>4, Zenon DEF Range
  <2>3. kind \in {"strings", "data"} => name \in ListFields \cup {"data"}
    <3> HIDE DEF name, kind
    <3> QED
      BY <2>1 DEF Named, StringFields, ListFields
  <2>4. kind \in {"strings", "data"} => Len(v) < U16Values
    BY <2>2, <2>3, Zenon DEF CountsFit
  <2> QED
    BY <2>1, <2>4, FieldShort, Zenon DEF Wrote
<1>8. PICK left \in [1..n -> Text] :
          /\ left[1] = head \o last
          /\ left[n] = last
          /\ \A k \in 1..(n - 1) : left[k] = Put(fs[k].kind, m[fs[k].name]) \o left[k + 1]
  BY <1>2, <1>6, Zenon DEF Heads, n
<1> HIDE DEF last
<1>9. decode_fields(fs, m.type, left[1]) = get_field(ReadPart(fs, m, n - 1, left[n]), fs[n])
  <2>1. \A k \in 1..(n - 1) : Holds(fs, m, k) /\ fs[k].kind \notin {"strings", "data"}
    BY <1>0, <1>4, Zenon
  <2> QED
    BY <1>1, <1>4, <1>8, <2>1, ReadFieldsRec, Zenon DEF n
<1>10. get_field(ReadPart(fs, m, n - 1, last), fs[n]) = Eof
  <2> DEFINE part == Part(fs, m, n - 1)
  <2>1. get_field(Got(part, last), fs[n]) = Set(part, name, get(kind, last))
    BY Zenon DEF get_field, Got
  <2>2. Set(part, name, Eof) = Eof /\ get_field(Eof, fs[n]) = Eof
    BY Zenon DEF Set, get_field, Eof
  <2> QED
    BY <1>7, <2>1, <2>2, Zenon DEF ReadPart
<1> QED
  BY <1>6, <1>8, <1>9, <1>10, Zenon DEF fs, n

-----------------------------------------------------------------------------
(* What a decoder makes of a payload.                                      *)

\* A decoder refuses its own side's types and reads the fields of the others.
LEMMA Sides ==
    ASSUME NEW m, IsMessage(m), side \in {"client", "daemon"}, NEW payload
    PROVE  Reads(m.type, payload) =
               IF m.type \in Range(IF side = "daemon" THEN DaemonTypes ELSE ClientTypes)
               THEN Eof ELSE decode_fields(Fields(m.type), m.type, payload)
<1>1. m.type \in Range(DaemonTypes) \cup Range(ClientTypes)
  BY Held, Types, Zenon
<1>2. ~(m.type \in Range(DaemonTypes) /\ m.type \in Range(ClientTypes))
  BY Types
<1>3. CASE side = "daemon"
  BY <1>1, <1>2, <1>3, Zenon DEF Reads, decode_client_payload, Fields
<1>4. CASE side = "client"
  <2>1. side # "daemon"
    BY <1>4
  <2> QED
    BY <1>1, <1>2, <2>1, Zenon DEF Reads, decode_daemon_payload, Fields
<1> QED
  BY <1>3, <1>4

\* What a message should decode to is what its fields come back as.
LEMMA OutcomeOf ==
    ASSUME NEW m, IsMessage(m), side \in {"client", "daemon"}
    PROVE  /\ Outcome(m) = Bad <=> \/ m.type \in Range(IF side = "daemon" THEN DaemonTypes ELSE ClientTypes)
                                   \/ ~AllWhole(Fields(m.type), m, Len(Fields(m.type)))
           /\ Outcome(m) # Bad => Outcome(m) = Part(Fields(m.type), m, Len(Fields(m.type)))
<1> DEFINE fs == Fields(m.type)
           n == Len(fs)
           own == IF side = "daemon" THEN DaemonTypes ELSE ClientTypes
           kept == [f \in DOMAIN m |-> Kept(f, m[f])]
<1>1. DOMAIN fs = 1..n /\ m.type \in Range(MsgType)
  BY Held, Zenon
<1>2. DOMAIN m = {"type"} \cup {fs[j].name : j \in 1..n}
  <2>1. DOMAIN m = {"type"} \cup {f.name : f \in Range(fs)}
    BY Zenon DEF IsMessage
  <2>2. {f.name : f \in Range(fs)} = {fs[j].name : j \in 1..n}
    BY <1>1, Zenon DEF Range
  <2> QED
    BY <2>1, <2>2, Zenon
<1>3. kept = Part(fs, m, n)
  BY <1>2, Zenon DEF Part
<1>4. (\E f \in DOMAIN m : ~Whole(f, kept[f])) <=> ~AllWhole(fs, m, n)
  <2>1. \A x : Whole("type", x)
    BY DEF Whole, StringFields, ListFields
  <2>2. \A f \in DOMAIN m : kept[f] = Kept(f, m[f])
    BY Zenon
  <2> HIDE DEF kept
  <2>3. (\E f \in DOMAIN m : ~Whole(f, kept[f])) <=> \E f \in DOMAIN m : ~Whole(f, Kept(f, m[f]))
    BY <2>2, Zenon
  <2> QED
    BY <1>2, <2>1, <2>3, Zenon DEF AllWhole
<1>5. kept # Bad
  <2>1. kept["type"] = Kept("type", m["type"]) /\ Bad["type"] = "Bad"
    BY <1>2 DEF Bad
  <2>2. Kept("type", m["type"]) = m.type
    BY DEF Kept, StringFields, ListFields
  <2>3. m.type # "Bad"
    BY <1>1, Types
  <2> HIDE DEF kept
  <2> QED
    BY <2>1, <2>2, <2>3, Zenon
<1>6. Outcome(m) = IF m.type \in Range(own) \/ \E f \in DOMAIN m : ~Whole(f, kept[f]) THEN Bad ELSE kept
  BY Zenon DEF Outcome
<1> HIDE DEF kept, own
<1>7. /\ Outcome(m) = Bad <=> m.type \in Range(own) \/ ~AllWhole(fs, m, n)
      /\ Outcome(m) # Bad => Outcome(m) = Part(fs, m, n)
  BY <1>3, <1>4, <1>5, <1>6, Zenon
<1> QED
  BY <1>7, Zenon DEF own

\* A payload decodes to what its message should decode to, whatever follows it:
\* encode_payload against decode_client_payload and decode_daemon_payload.
LEMMA ReadsBack ==
    ASSUME NatInductive, NEW m, IsMessage(m), side \in {"client", "daemon"}, NEW extra \in Text
    PROVE  \E r : Reads(m.type, encode_payload(m) \o extra) = IF Outcome(m) = Bad THEN Eof ELSE Got(Outcome(m), r)
<1> DEFINE fs == Fields(m.type)
           n == Len(fs)
           own == IF side = "daemon" THEN DaemonTypes ELSE ClientTypes
<1>1. PICK r \in Text : decode_fields(fs, m.type, encode_payload(m) \o extra) = ReadPart(fs, m, n, r)
  BY PayloadBack, Zenon
<1>2. Reads(m.type, encode_payload(m) \o extra) =
          IF m.type \in Range(own) THEN Eof ELSE decode_fields(fs, m.type, encode_payload(m) \o extra)
  BY Sides, Zenon
<1>3. /\ Outcome(m) = Bad <=> m.type \in Range(own) \/ ~AllWhole(fs, m, n)
      /\ Outcome(m) # Bad => Outcome(m) = Part(fs, m, n)
  BY OutcomeOf, Zenon
<1> QED
  BY <1>1, <1>2, <1>3, Zenon DEF ReadPart

\* A payload cut short by a byte is refused.
LEMMA ShortPayload ==
    ASSUME NatInductive, NEW m, IsMessage(m), side \in {"client", "daemon"}, CountsFit(m), encode_payload(m) # <<>>
    PROVE  Reads(m.type, Front(encode_payload(m))) = Eof
  BY Sides, PayloadShort, Zenon

-----------------------------------------------------------------------------
(* The packets a peer sends.                                               *)

\* MsgType::from_u16 inverts the code of a type.
LEMMA Codes ==
    ASSUME NEW T \in Range(MsgType)
    PROVE  /\ Code(T) \in DOMAIN MsgType /\ MsgType[Code(T)] = T
           /\ Code(T) \in 0..(U16Values - 1)
<1>1. \E k \in DOMAIN MsgType : MsgType[k] = T
  BY Zenon DEF Range
<1>2. Code(T) \in DOMAIN MsgType /\ MsgType[Code(T)] = T
  BY <1>1, Zenon DEF Code
<1>3. Code(T) \in 1..14
  BY <1>2, Types, Zenon
<1>4. Code(T) \in 0..(U16Values - 1)
  BY <1>3, Sizes
<1> QED
  BY <1>2, <1>4, Zenon

\* What encode_client and encode_daemon write decodes to what it should.
LEMMA EncodeBehaves ==
    ASSUME NatInductive, NEW m \in Messages, side \in {"client", "daemon"}
    PROVE  Behaves(side, encode(m), Outcome(m))
<1> DEFINE payload == encode_payload(m)
           code == Code(m.type)
<1>1. IsMessage(m) /\ Len(payload) + 1 < U32Values
  BY MessagesAssumption, Zenon
<1>2. payload \in Text /\ m.type \in Range(MsgType)
  BY <1>1, PayloadText, Held, Zenon
<1>3. code \in DOMAIN MsgType /\ MsgType[code] = m.type /\ code \in 0..(U16Values - 1)
  BY <1>2, Codes, Zenon
<1>4. Len(payload) < U32Values
  <2> HIDE DEF payload
  <2> QED
    BY <1>1, <1>2, Sizes DEF Text
<1>5. \E r : Reads(m.type, payload) = IF Outcome(m) = Bad THEN Eof ELSE Got(Outcome(m), r)
  <2>1. payload \o <<>> = payload
    BY <1>2, TextEmpty, Zenon
  <2>2. \E r : Reads(m.type, payload \o <<>>) = IF Outcome(m) = Bad THEN Eof ELSE Got(Outcome(m), r)
    BY <1>1, ReadsBack, EmptyText, Zenon
  <2> QED
    BY <2>1, <2>2, Zenon
<1> HIDE DEF payload, code
<1>6. Behaves(side, encode_packet(code, payload), Outcome(m))
  BY <1>2, <1>3, <1>4, <1>5, PacketBehaves, Zenon
<1> QED
  BY <1>6, Zenon DEF encode, code, payload

\* So does a payload with a byte more.
LEMMA ExtendedBehaves ==
    ASSUME NatInductive, NEW m \in OtherVersion, side \in {"client", "daemon"}
    PROVE  Behaves(side, encode_packet(Code(m.type), Append(encode_payload(m), 1)), Outcome(m))
<1> DEFINE payload == encode_payload(m)
           longer == Append(payload, 1)
           code == Code(m.type)
<1>1. IsMessage(m) /\ Len(payload) + 1 < U32Values
  BY MessagesAssumption, Zenon
<1>2. payload \in Text /\ m.type \in Range(MsgType)
  BY <1>1, PayloadText, Held, Zenon
<1>3. code \in DOMAIN MsgType /\ MsgType[code] = m.type /\ code \in 0..(U16Values - 1)
  BY <1>2, Codes, Zenon
<1>4. 1 \in Byte /\ <<1>> \in Text
  BY Sizes DEF Byte, Text
<1>5. longer \in Text /\ Len(longer) < U32Values
  <2> HIDE DEF payload
  <2> QED
    BY <1>1, <1>2, <1>4 DEF Text
<1>6. longer = payload \o <<1>>
  <2> HIDE DEF payload
  <2> QED
    BY <1>2, <1>4 DEF Text
<1>7. \E r : Reads(m.type, payload \o <<1>>) = IF Outcome(m) = Bad THEN Eof ELSE Got(Outcome(m), r)
  BY <1>1, <1>4, ReadsBack, Zenon
<1> HIDE DEF payload, code, longer
<1>8. \E r : Reads(MsgType[code], longer) = IF Outcome(m) = Bad THEN Eof ELSE Got(Outcome(m), r)
  BY <1>3, <1>6, <1>7, Zenon
<1>9. Behaves(side, encode_packet(code, longer), Outcome(m))
  BY <1>3, <1>5, <1>8, PacketBehaves, Zenon
<1> QED
  BY <1>9, Zenon DEF code, payload, longer

\* A payload without its last byte is an error, once it is complete.
LEMMA TruncatedBehaves ==
    ASSUME NatInductive, NEW m \in OtherVersion, side \in {"client", "daemon"}, CountsFit(m), encode_payload(m) # <<>>
    PROVE  Behaves(side, encode_packet(Code(m.type), Front(encode_payload(m))), Bad)
<1> DEFINE payload == encode_payload(m)
           shorter == Front(payload)
           code == Code(m.type)
<1>1. IsMessage(m) /\ Len(payload) + 1 < U32Values
  BY MessagesAssumption, Zenon
<1>2. payload \in Text /\ m.type \in Range(MsgType)
  BY <1>1, PayloadText, Held, Zenon
<1>3. code \in DOMAIN MsgType /\ MsgType[code] = m.type /\ code \in 0..(U16Values - 1)
  BY <1>2, Codes, Zenon
<1>4. shorter \in Text /\ Len(shorter) = Len(payload) - 1
  BY <1>2, FrontText, Zenon
<1>5. Reads(m.type, shorter) = Eof
  BY <1>1, ShortPayload, Zenon
<1> HIDE DEF payload, code, shorter
<1>6. Len(shorter) < U32Values
  BY <1>1, <1>2, <1>4, Sizes, SMTT(20) DEF Text
<1>7. \E r : Reads(MsgType[code], shorter) = IF Bad = Bad THEN Eof ELSE Got(Bad, r)
  BY <1>3, <1>5, Zenon
<1>8. Behaves(side, encode_packet(code, shorter), Bad)
  BY <1>3, <1>4, <1>6, <1>7, PacketBehaves, Zenon
<1> QED
  BY <1>8, Zenon DEF code, payload, shorter

\* So is an unknown type.
LEMMA UnknownBehaves ==
    ASSUME NatInductive, NEW m \in OtherVersion
    PROVE  Behaves(side, encode_packet(0, encode_payload(m)), Bad)
<1> DEFINE payload == encode_payload(m)
<1>1. IsMessage(m) /\ Len(payload) + 1 < U32Values
  BY MessagesAssumption, Zenon
<1>2. payload \in Text
  BY <1>1, PayloadText, Zenon
<1> HIDE DEF payload
<1>3. Len(payload) < U32Values /\ 0 \in 0..(U16Values - 1)
  BY <1>1, <1>2, Sizes, SMTT(20) DEF Text
<1>4. 0 \notin DOMAIN MsgType
  BY Types
<1>5. Behaves(side, encode_packet(0, payload), Bad)
  BY <1>2, <1>3, <1>4, PacketBehaves, Zenon
<1> QED
  BY <1>5, Zenon DEF payload

\* So is another magic, with the twelfth byte.
LEMMA OtherMagicBehaves ==
    Behaves(side, [k \in 1..HEADER_LEN |-> 0], Bad)
<1> DEFINE p == [k \in 1..HEADER_LEN |-> 0]
<1>1. p \in TextOf(12) /\ p[1] = 0
  BY Sizes DEF TextOf, Text, Byte, HEADER_LEN
<1> HIDE DEF p
<1>2. p \in Text /\ Len(p) >= 12 /\ Len(p) <= 12
  BY <1>1, Zenon DEF TextOf
<1>3. Parsed(side, None) = None /\ Parsed(side, Error) = Error
  BY DEF Parsed, None, Error
<1>4. ASSUME NEW k \in 0..(Len(p) - 1) PROVE decode_from(side, SubSeq(p, 1, k)) = None
  <2>1. Len(SubSeq(p, 1, k)) < HEADER_LEN
    BY <1>2 DEF Text, HEADER_LEN
  <2> QED
    BY <1>3, <2>1, Zenon DEF decode_from, decode_packet
<1>5. ASSUME NEW t \in Text PROVE decode_from(side, p \o t) = Error
  <2> DEFINE b == p \o t
  <2>1. b \in Text /\ Len(b) >= 12 /\ b[1] = 0
    BY <1>1, <1>2 DEF Text
  <2> HIDE DEF b
  <2>2. SubSeq(b, 1, 4)[1] = 0
    BY <2>1 DEF Text
  <2>3. MAGIC[1] = 2
    BY DEF MAGIC
  <2>4. SubSeq(b, 1, 4) # MAGIC /\ ~(Len(b) < HEADER_LEN)
    <3>1. ~(Len(b) < HEADER_LEN)
      BY <2>1 DEF Text, HEADER_LEN
    <3>2. 0 # 2
      OBVIOUS
    <3> QED
      BY <2>2, <2>3, <3>1, <3>2, Zenon
  <2> QED
    BY <1>3, <2>4, Zenon DEF decode_from, decode_packet, b
<1>6. Behaves(side, p, Bad)
  BY <1>2, <1>4, <1>5, Zenon DEF Behaves
<1> QED
  BY <1>6, Zenon DEF p
=============================================================================
