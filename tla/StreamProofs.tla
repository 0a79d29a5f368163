---------------------------- MODULE StreamProofs ----------------------------
(***************************************************************************)
(* The stream of packets, for all messages and any split into reads: the   *)
(* bytes not decoded yet are exactly those of the packets not decoded yet, *)
(* each of which behaves (Behaves of PacketStream).  From this invariant   *)
(* follow DecodedAsSent, NoPacketIsStuck and the steps of PacketBuffer.    *)
(* Of the codec only this is used: what a peer sends behaves.              *)
(***************************************************************************)
EXTENDS PacketStream, WellFoundedInduction, TLAPS

-----------------------------------------------------------------------------
(* Sequences of bytes.                                                     *)

\* Sequences of the same length with the same elements are equal.
LEMMA SameSeq ==
    ASSUME NEW S, NEW s \in Seq(S), NEW t \in Seq(S), Len(s) = Len(t), \A i \in 1..Len(s) : s[i] = t[i]
    PROVE  s = t
  OBVIOUS

\* A text is its first k bytes and the others.
LEMMA SplitAt ==
    ASSUME NEW s \in Text, NEW k \in 0..Len(s)
    PROVE  s = SubSeq(s, 1, k) \o SubSeq(s, k + 1, Len(s))
<1> DEFINE a == SubSeq(s, 1, k)
           b == SubSeq(s, k + 1, Len(s))
<1>1. Len(s) \in Nat
  BY DEF Text
<1>2. /\ a \in Text /\ b \in Text
      /\ Len(a) = k /\ Len(b) = Len(s) - k
  BY <1>1 DEF Text
<1>3. \A i \in 1..k : a[i] = s[i]
  BY <1>1 DEF Text
<1>4. \A i \in 1..(Len(s) - k) : b[i] = s[k + i]
  BY <1>1 DEF Text
<1> HIDE DEF a, b
<1>5. ASSUME NEW i \in 1..Len(s) PROVE (a \o b)[i] = s[i]
  <2>1. CASE i <= k
    BY <2>1, <1>1, <1>2, <1>3 DEF Text
  <2>2. CASE i > k
    <3>1. i - k \in 1..(Len(s) - k) /\ i = k + (i - k)
      BY <2>2, <1>1
    <3>2. b[i - k] = s[k + (i - k)]
      BY <3>1, <1>4, Zenon
    <3>3. (a \o b)[i] = b[i - k]
      BY <2>2, <1>1, <1>2 DEF Text
    <3> QED
      BY <3>1, <3>2, <3>3
  <2>3. i <= k \/ i > k
    BY <1>1
  <2> QED
    BY <2>1, <2>2, <2>3, Zenon
<1>6. a \o b \in Text /\ Len(a \o b) = Len(s)
  BY <1>1, <1>2 DEF Text
<1>7. a \o b = s
  BY <1>5, <1>6, SameSeq, Zenon DEF Text
<1> QED
  BY <1>7, Zenon DEF a, b

\* The back of a concatenation: what is left after the front is taken.
LEMMA BackOf ==
    ASSUME NEW S, NEW s \in Seq(S), NEW t \in Seq(S)
    PROVE  SubSeq(s \o t, Len(s) + 1, Len(s \o t)) = t
  OBVIOUS

\* Appending texts is associative.
LEMMA Regroup ==
    ASSUME NEW s \in Text, NEW t \in Text, NEW u \in Text
    PROVE  (s \o t) \o u = s \o (t \o u)
  BY SMTT(20) DEF Text

\* Texts are closed under appending.
LEMMA JoinText == \A x, y \in Text : x \o y \in Text
  BY DEF Text

\* A set of naturals has a least element.
LEMMA Least ==
    ASSUME NEW S \in SUBSET Nat, S # {}
    PROVE  \E k \in S : \A j \in S : k <= j
<1> DEFINE R == {xy \in Nat \X Nat : xy[1] < xy[2]}
<1>1. IsWellFoundedOn(R, Nat)
  BY NatLessThanWellFounded, Zenon DEF OpToRel
<1>2. PICK k \in S : \A j \in S : <<j, k>> \notin R
  <2> HIDE DEF R
  <2> QED
    BY <1>1, WFMin, Zenon
<1>3. \A j \in S : ~(j < k)
  BY <1>2, Zenon
<1> QED
  BY <1>3

\* Induction on the naturals, for a set.
LEMMA Induction ==
    ASSUME NEW T \in SUBSET Nat, 0 \in T, \A k \in T : k + 1 \in T
    PROVE  T = Nat
<1> DEFINE U == Nat \ T
<1>1. ASSUME U # {} PROVE FALSE
  <2>1. U \in SUBSET Nat
    OBVIOUS
  <2>2. PICK x \in U : \A y \in U : x <= y
    <3> HIDE DEF U
    <3> QED
      BY <1>1, <2>1, Least, Zenon
  <2>3. x - 1 \in Nat /\ x - 1 \notin U
    BY <2>2
  <2> QED
    BY <2>3
<1> QED
  BY <1>1, Zenon

-----------------------------------------------------------------------------
(* The inductive invariant.                                                *)

\* Every message decodes to one of these.
Outcomes == {Bad} \cup {Outcome(m) : m \in Messages \cup OtherVersion}

\* The types of the variables.
Typed ==
    /\ side \in {"client", "daemon"}
    /\ sent \in Seq([holds : Outcomes, end : Nat])
    /\ wire \in Text /\ receive_buffer \in Text
    /\ decoded \in Seq(Outcomes)
    /\ status \in {"open", "failed"}

\* The bytes sent and not decoded yet.
Rest   == receive_buffer \o wire

\* Those of packet k among them.
Pkt(k) == SubSeq(Rest, End(k - 1) - End(Len(decoded)) + 1, End(k) - End(Len(decoded)))

\* Packet boundaries: decoded messages are the first ones sent, ends are at least a
\* header apart, the bytes not decoded yet are those of the packets not decoded yet,
\* and each of these behaves.
Framed ==
    /\ Len(decoded) <= Len(sent)
    /\ \A k \in 1..Len(decoded) : decoded[k] = sent[k].holds
    /\ \A j, k \in 0..Len(sent) : j < k => End(j) + 12 <= End(k)
    /\ Len(receive_buffer) + Len(wire) = End(Len(sent)) - End(Len(decoded))
    /\ \A k \in (Len(decoded) + 1)..Len(sent) : Behaves(side, Pkt(k), sent[k].holds)

\* The inductive invariant.
IInv == Typed /\ Framed

\* A slice of a slice.
LEMMA SubSub ==
    ASSUME NEW s \in Text, NEW c \in 0..Len(s), NEW a \in (c + 1)..Len(s), NEW b \in a..Len(s)
    PROVE  SubSeq(SubSeq(s, c + 1, Len(s)), a - c, b - c) = SubSeq(s, a, b)
<1> DEFINE u == SubSeq(s, c + 1, Len(s))
           x == SubSeq(u, a - c, b - c)
           y == SubSeq(s, a, b)
<1>0. Len(s) \in Nat
  BY DEF Text
<1>1. u \in Text /\ Len(u) = Len(s) - c /\ \A i \in 1..(Len(s) - c) : u[i] = s[c + i]
  BY <1>0 DEF Text
<1> HIDE DEF u
<1>2. x \in Text /\ Len(x) = b - a + 1 /\ \A i \in 1..(b - a + 1) : x[i] = u[(a - c) + i - 1]
  BY <1>0, <1>1 DEF Text
<1>3. y \in Text /\ Len(y) = b - a + 1 /\ \A i \in 1..(b - a + 1) : y[i] = s[a + i - 1]
  BY <1>0, SMTT(20) DEF Text
<1> HIDE DEF x, y
<1>4. ASSUME NEW i \in 1..(b - a + 1) PROVE x[i] = y[i]
  <2>1. (a - c) + i - 1 \in 1..(Len(s) - c) /\ c + ((a - c) + i - 1) = a + i - 1
    BY <1>0
  <2>2. u[(a - c) + i - 1] = s[c + ((a - c) + i - 1)]
    BY <1>1, <2>1, Zenon
  <2> QED
    BY <1>2, <1>3, <2>1, <2>2, Zenon
<1>5. x = y
  BY <1>2, <1>3, <1>4, SameSeq, Zenon DEF Text
<1> QED
  BY <1>5, Zenon DEF x, y, u

\* What is appended does not change a slice of the front.
LEMMA SubCat ==
    ASSUME NEW s \in Text, NEW t \in Text, NEW a \in 1..Len(s), NEW b \in a..Len(s)
    PROVE  SubSeq(s \o t, a, b) = SubSeq(s, a, b)
<1> DEFINE u == s \o t
           x == SubSeq(u, a, b)
           y == SubSeq(s, a, b)
<1>0. Len(s) \in Nat /\ Len(t) \in Nat
  BY DEF Text
<1>1. u \in Text /\ Len(u) = Len(s) + Len(t) /\ \A i \in 1..Len(s) : u[i] = s[i]
  BY DEF Text
<1> HIDE DEF u
<1>2. x \in Text /\ Len(x) = b - a + 1 /\ \A i \in 1..(b - a + 1) : x[i] = u[a + i - 1]
  BY <1>0, <1>1 DEF Text
<1>3. y \in Text /\ Len(y) = b - a + 1 /\ \A i \in 1..(b - a + 1) : y[i] = s[a + i - 1]
  BY <1>0 DEF Text
<1> HIDE DEF x, y
<1>4. ASSUME NEW i \in 1..(b - a + 1) PROVE x[i] = y[i]
  <2>1. a + i - 1 \in 1..Len(s)
    BY <1>0
  <2> QED
    BY <1>1, <1>2, <1>3, <2>1, Zenon
<1>5. x = y
  BY <1>2, <1>3, <1>4, SameSeq, Zenon DEF Text
<1> QED
  BY <1>5, Zenon DEF x, y, u

\* Elements of a sequence.
LEMMA ElementOf ==
    ASSUME NEW S, NEW s \in Seq(S), NEW k \in 1..Len(s)
    PROVE  s[k] \in S
  OBVIOUS

\* The facts about lengths and ends that every step needs.
LEMMA Basics ==
    ASSUME IInv
    PROVE  /\ Len(decoded) \in Nat /\ Len(sent) \in Nat /\ Len(decoded) <= Len(sent)
           /\ receive_buffer \in Text /\ wire \in Text /\ Len(receive_buffer) \in Nat /\ Len(wire) \in Nat
           /\ \A k \in 0..Len(sent) : End(k) \in Nat
           /\ Len(receive_buffer) + Len(wire) = End(Len(sent)) - End(Len(decoded))
           /\ \A j, k \in 0..Len(sent) : j < k => End(j) + 12 <= End(k)
<1>1. Typed /\ Framed
  BY Zenon DEF IInv
<1>2. Len(decoded) \in Nat /\ Len(sent) \in Nat
  BY <1>1 DEF Typed
<1>3. receive_buffer \in Text /\ wire \in Text /\ Len(receive_buffer) \in Nat /\ Len(wire) \in Nat
  BY <1>1 DEF Typed, Text
<1>4. \A k \in 0..Len(sent) : End(k) \in Nat
  <2>1. \A k \in 1..Len(sent) : sent[k].end \in Nat
    <3>1. sent \in Seq([holds : Outcomes, end : Nat])
      BY <1>1, Zenon DEF Typed
    <3>2. \A k \in 1..Len(sent) : sent[k] \in [holds : Outcomes, end : Nat]
      BY <3>1, ElementOf, Zenon
    <3> QED
      BY <3>2, Zenon
  <2> QED
    BY <1>2, <2>1 DEF End
<1> QED
  BY <1>1, <1>2, <1>3, <1>4, Zenon DEF Framed

\* The two parts of a text.
LEMMA SliceOf ==
    ASSUME NEW s \in Text, NEW k \in 0..Len(s)
    PROVE  /\ SubSeq(s, k + 1, Len(s)) \in Text /\ SubSeq(s, 1, k) \in Text /\ Len(SubSeq(s, 1, k)) = k
           /\ \A i \in 1..k : SubSeq(s, 1, k)[i] = s[i]
<1>1. SubSeq(s, k + 1, Len(s)) \in Text
  BY DEF Text
<1>2. SubSeq(s, 1, k) \in Text /\ Len(SubSeq(s, 1, k)) = k
  BY DEF Text
<1>3. \A i \in 1..k : SubSeq(s, 1, k)[i] = s[i]
  BY DEF Text
<1> QED
  BY <1>1, <1>2, <1>3, Zenon

\* What decode_from returns: it depends on the next packet alone.
LEMMA Decodes ==
    ASSUME IInv
    PROVE  /\ Len(decoded) = Len(sent) \/ End(Len(decoded) + 1) > Received
                  => decode_from(side, receive_buffer) = None
           /\ Len(decoded) < Len(sent) /\ End(Len(decoded) + 1) <= Received
                  => decode_from(side, receive_buffer) =
                         IF sent[Len(decoded) + 1].holds = Bad THEN Error
                         ELSE [st |-> "some", msg |-> sent[Len(decoded) + 1].holds,
                               consumed |-> End(Len(decoded) + 1) - End(Len(decoded))]
<1> DEFINE d == Len(decoded)
           n == Len(sent)
           rb == receive_buffer
           L == End(d + 1) - End(d)
           o == sent[d + 1].holds
<1>0. /\ d \in Nat /\ n \in Nat /\ d <= n /\ rb \in Text /\ wire \in Text /\ Len(rb) \in Nat /\ Len(wire) \in Nat
      /\ \A k \in 0..n : End(k) \in Nat
      /\ Len(rb) + Len(wire) = End(n) - End(d)
  BY Basics, Zenon
<1>1. CASE d = n
  <2>1. Len(rb) < HEADER_LEN
    BY <1>0, <1>1 DEF HEADER_LEN
  <2>2. Parsed(side, None) = None
    BY Zenon DEF Parsed, None
  <2>3. decode_from(side, rb) = None
    BY <2>1, <2>2, Zenon DEF decode_from, decode_packet
  <2>4. ~(d < n)
    BY <1>0, <1>1
  <2> QED
    BY <2>3, <2>4, Zenon
<1>2. CASE d < n
  <2>1. /\ d + 1 \in (d + 1)..n /\ d + 1 \in 0..n /\ d \in 0..n /\ d # n /\ (d + 1) - 1 = d
    BY <1>0, <1>2
  <2>2. End(d) + 12 <= End(d + 1) /\ End(d + 1) <= End(n)
    <3>1. \A j, k \in 0..n : j < k => End(j) + 12 <= End(k)
      BY Basics, Zenon
    <3>2. n \in 0..n /\ d < d + 1 /\ (d + 1 < n \/ d + 1 = n)
      BY <1>0, <1>2
    <3>3. End(d) + 12 <= End(d + 1)
      BY <2>1, <3>1, <3>2, Zenon
    <3>4. CASE d + 1 < n
      <4>1. End(d + 1) + 12 <= End(n)
        BY <2>1, <3>1, <3>2, <3>4, ZenonT(40)
      <4>2. End(d + 1) \in Nat /\ End(n) \in Nat
        BY <1>0, <2>1, <3>2, Zenon
      <4> HIDE DEF d, n
      <4> QED
        BY <3>3, <4>1, <4>2
    <3>5. CASE d + 1 = n
      <4>1. End(d + 1) = End(n) /\ End(n) \in Nat
        BY <1>0, <2>1, <3>5, Zenon
      <4> HIDE DEF d, n
      <4> QED
        BY <3>3, <4>1
    <3> QED
      BY <3>2, <3>4, <3>5, Zenon
  <2>3. L \in Nat /\ L >= 12 /\ L <= Len(rb) + Len(wire) /\ L = End(d + 1) - End(d)
    <3>1. End(d) \in Nat /\ End(d + 1) \in Nat /\ End(n) \in Nat
      BY <1>0, <2>1, <2>2, SMTT(20)
    <3>2. Len(rb) + Len(wire) = End(n) - End(d)
      BY <1>0, Zenon
    <3> HIDE DEF d, n, rb
    <3> QED
      BY <2>2, <3>1, <3>2
  <2> DEFINE p == Pkt(d + 1)
  <2>4. Behaves(side, p, o)
    BY <2>1, Zenon DEF IInv, Framed
  <2>5. p = SubSeq(Rest, 1, L)
    <3>1. End((d + 1) - 1) - End(d) + 1 = 1
      BY <1>0, <2>1
    <3> QED
      BY <3>1, Zenon DEF Pkt
  <2> HIDE DEF p, d, n, rb, L, o
  <2>6. Rest = rb \o wire
    BY Zenon DEF Rest, rb
  <2>7. p \in Text /\ Len(p) = L /\ \A i \in 1..L : p[i] = Rest[i]
    <3>1. Rest \in Text /\ Len(Rest) >= L
      BY <1>0, <2>3, <2>6 DEF Text
    <3> HIDE DEF Rest
    <3> QED
      BY <2>3, <2>5, <3>1 DEF Text
  <2>8. \A i \in 1..Len(rb) : Rest[i] = rb[i]
    BY <1>0, <2>6 DEF Text
  <2>9. ASSUME Len(rb) < L PROVE decode_from(side, rb) = None
    <3> DEFINE b == SubSeq(p, 1, Len(rb))
    <3>1. b \in Text /\ Len(b) = Len(rb) /\ \A i \in 1..Len(rb) : b[i] = p[i]
      BY <1>0, <2>7, <2>9, SMTT(20) DEF Text
    <3>2. \A i \in 1..Len(rb) : i \in 1..L
      BY <1>0, <2>3, <2>9
    <3> HIDE DEF b
    <3>3. b = rb
      BY <1>0, <2>7, <2>8, <3>1, <3>2, SameSeq, Zenon DEF Text
    <3>4. Len(rb) \in 0..(Len(p) - 1)
      BY <1>0, <2>3, <2>7, <2>9
    <3> QED
      BY <2>4, <3>3, <3>4, Zenon DEF Behaves, b
  <2>10. ASSUME Len(rb) >= L
         PROVE  decode_from(side, rb) = IF o = Bad THEN Error ELSE [st |-> "some", msg |-> o, consumed |-> L]
    <3> DEFINE t == SubSeq(rb, L + 1, Len(rb))
               f == SubSeq(rb, 1, L)
    <3>1. L \in 0..Len(rb) /\ \A i \in 1..L : i \in 1..Len(rb)
      <4>1. L \in Nat /\ Len(rb) \in Nat /\ Len(rb) >= L
        BY <1>0, <2>3, <2>10, Zenon
      <4> QED
        BY <4>1
    <3>2. t \in Text /\ f \in Text /\ Len(f) = L /\ \A i \in 1..L : f[i] = rb[i]
      <4>1. rb \in Text
        BY <1>0, Zenon
      <4> QED
        BY <3>1, <4>1, SliceOf, Zenon
    <3>3. rb = f \o t
      BY <1>0, <3>1, SplitAt, Zenon
    <3> HIDE DEF t, f
    <3>4. f = p
      BY <2>7, <2>8, <3>1, <3>2, SameSeq, Zenon DEF Text
    <3>5. decode_from(side, p \o t) = IF o = Bad THEN Error ELSE [st |-> "some", msg |-> o, consumed |-> Len(p)]
      BY <2>4, <3>2, Zenon DEF Behaves
    <3> QED
      BY <2>7, <3>3, <3>4, <3>5, Zenon
  <2>11. Received = End(d) + Len(rb)
    BY Zenon DEF Received, d, rb
  <2>12. End(d) \in Nat /\ End(d + 1) \in Nat /\ Len(rb) \in Nat
    BY <1>0, <2>1, Zenon
  <2>13. /\ End(d + 1) > Received <=> Len(rb) < L
         /\ End(d + 1) <= Received <=> Len(rb) >= L
         /\ Len(rb) < L \/ Len(rb) >= L
    BY <2>3, <2>11, <2>12
  <2>14. /\ Len(rb) < L => decode_from(side, rb) = None
         /\ Len(rb) >= L => decode_from(side, rb) =
                IF o = Bad THEN Error ELSE [st |-> "some", msg |-> o, consumed |-> L]
    BY <2>9, <2>10, Zenon
  <2> QED
    BY <2>1, <2>13, <2>14, Zenon DEF d, n, rb, L, o
<1> QED
  BY <1>0, <1>1, <1>2

\* Later packets end later.
LEMMA EndMono ==
    ASSUME IInv
    PROVE  \A j, k \in 0..Len(sent) : j <= k => End(j) <= End(k)
<1>1. /\ Len(sent) \in Nat
      /\ \A k \in 0..Len(sent) : End(k) \in Nat
      /\ \A j, k \in 0..Len(sent) : j < k => End(j) + 12 <= End(k)
  BY Basics, Zenon
<1>2. ASSUME NEW j \in 0..Len(sent), NEW k \in 0..Len(sent), j <= k PROVE End(j) <= End(k)
  <2>1. End(j) \in Nat /\ End(k) \in Nat /\ (j < k \/ j = k)
    BY <1>1, <1>2
  <2>2. j < k => End(j) + 12 <= End(k)
    BY <1>1, Zenon
  <2>3. j = k => End(j) = End(k)
    BY Zenon
  <2> QED
    BY <2>1, <2>2, <2>3
<1> QED
  BY <1>2, Zenon

\* Where packet k lies in Rest.
LEMMA PktRange ==
    ASSUME IInv
    PROVE  /\ Rest \in Text /\ Len(Rest) = End(Len(sent)) - End(Len(decoded))
           /\ \A k \in (Len(decoded) + 1)..Len(sent) :
                  /\ k \in 0..Len(sent) /\ k - 1 \in 0..Len(sent)
                  /\ End(k - 1) - End(Len(decoded)) + 1 \in 1..Len(Rest)
                  /\ End(k) - End(Len(decoded)) \in (End(k - 1) - End(Len(decoded)) + 1)..Len(Rest)
<1> DEFINE d == Len(decoded)
           n == Len(sent)
<1>1. /\ d \in Nat /\ n \in Nat /\ d <= n
      /\ receive_buffer \in Text /\ wire \in Text
      /\ \A k \in 0..n : End(k) \in Nat
      /\ Len(receive_buffer) + Len(wire) = End(n) - End(d)
      /\ \A j, k \in 0..n : j < k => End(j) + 12 <= End(k)
  BY Basics, Zenon
<1>2. \A j, k \in 0..n : j <= k => End(j) <= End(k)
  BY EndMono, Zenon
<1>3. Rest \in Text /\ Len(Rest) = Len(receive_buffer) + Len(wire)
  BY <1>1 DEF Rest, Text
<1> HIDE DEF d, n
<1>4. ASSUME NEW k \in (d + 1)..n
      PROVE  /\ k \in 0..n /\ k - 1 \in 0..n
             /\ End(k - 1) - End(d) + 1 \in 1..(End(n) - End(d))
             /\ End(k) - End(d) \in (End(k - 1) - End(d) + 1)..(End(n) - End(d))
  <2>1. k \in 0..n /\ k - 1 \in 0..n /\ d \in 0..n /\ n \in 0..n /\ k - 1 < k /\ d <= k - 1 /\ k <= n
    BY <1>1
  <2>2. End(d) <= End(k - 1) /\ End(k) <= End(n)
    BY <1>2, <2>1, Zenon
  <2>3. End(k - 1) + 12 <= End(k)
    BY <1>1, <2>1, Zenon
  <2>4. End(d) \in Nat /\ End(n) \in Nat /\ End(k - 1) \in Nat /\ End(k) \in Nat
    BY <1>1, <2>1, Zenon
  <2> QED
    BY <2>1, <2>2, <2>3, <2>4
<1>5. Len(Rest) = End(n) - End(d)
  BY <1>1, <1>3, Zenon
<1> QED
  BY <1>3, <1>4, <1>5, Zenon DEF d, n

\* A sequence with one element more.
LEMMA Appended ==
    ASSUME NEW S, NEW s \in Seq(S), NEW e \in S
    PROVE  /\ Append(s, e) \in Seq(S) /\ Len(Append(s, e)) = Len(s) + 1
           /\ \A k \in 1..Len(s) : Append(s, e)[k] = s[k]
           /\ Append(s, e)[Len(s) + 1] = e
  OBVIOUS

\* BackOf for texts.
LEMMA TextBack ==
    ASSUME NEW s \in Text, NEW t \in Text
    PROVE  SubSeq(s \o t, Len(s) + 1, Len(s) + Len(t)) = t
<1>1. Len(s \o t) = Len(s) + Len(t)
  BY DEF Text
<1> QED
  BY <1>1, BackOf, Zenon DEF Text

-----------------------------------------------------------------------------
(* Every step preserves it.                                                *)

\* The inductive invariant holds of an empty connection.
LEMMA InitIInv == Init => IInv
<1> SUFFICES ASSUME Init PROVE IInv
  BY Zenon
<1>1. Typed
  BY DEF Init, Typed, Text
<1>2. Len(decoded) = 0 /\ Len(sent) = 0 /\ Len(receive_buffer) = 0 /\ Len(wire) = 0
  BY Zenon DEF Init
<1>3. Framed
  BY <1>2 DEF Framed, End
<1> QED
  BY <1>1, <1>3, Zenon DEF IInv

\* The outcomes depend on the side alone, which never changes.
LEMMA SameSide ==
    ASSUME side' = side
    PROVE  Outcomes' = Outcomes
  BY Zenon DEF Outcomes, Outcome

\* What sending a packet does to the packets sent and their ends.
LEMMA Grows ==
    ASSUME IInv, NEW bytes \in Text, NEW o \in Outcomes, Send(bytes, o), NEW n, n = Len(sent)
    PROVE  /\ sent' \in Seq([holds : Outcomes, end : Nat]) /\ Len(sent') = n + 1
           /\ \A k \in 1..n : sent'[k] = sent[k]
           /\ sent'[n + 1].holds = o
           /\ \A k \in 0..n : End(k)' = End(k)
           /\ End(n + 1)' = End(n) + Len(bytes)
<1> DEFINE e == [holds |-> o, end |-> End(n) + Len(bytes)]
           S == [holds : Outcomes, end : Nat]
<1>1. sent' = Append(sent, e)
  BY Zenon DEF Send
<1>2. n \in Nat /\ \A k \in 0..n : End(k) \in Nat
  BY Basics, Zenon
<1>3. End(n) \in Nat /\ Len(bytes) \in Nat
  BY <1>2 DEF Text
<1>4. e \in S /\ e.holds = o /\ e.end = End(n) + Len(bytes)
  BY <1>3
<1>5. sent \in Seq(S)
  BY Zenon DEF IInv, Typed
<1> HIDE DEF e, S
<1>6. /\ sent' \in Seq(S) /\ Len(sent') = n + 1
      /\ \A k \in 1..n : sent'[k] = sent[k]
      /\ sent'[n + 1] = e
  <2>1. /\ Append(sent, e) \in Seq(S) /\ Len(Append(sent, e)) = Len(sent) + 1
        /\ \A k \in 1..Len(sent) : Append(sent, e)[k] = sent[k]
        /\ Append(sent, e)[Len(sent) + 1] = e
    BY <1>4, <1>5, Appended, ZenonT(40)
  <2> QED
    BY <1>1, <2>1, Zenon
<1>7. ASSUME NEW k \in 0..n PROVE End(k)' = End(k)
  <2>1. k = 0 \/ k \in 1..n
    BY <1>2
  <2> QED
    BY <1>6, <2>1, Zenon DEF End
<1>8. End(n + 1)' = End(n) + Len(bytes)
  <2>1. n + 1 # 0
    BY <1>2
  <2> QED
    BY <1>4, <1>6, <2>1, Zenon DEF End
<1> QED
  BY <1>4, <1>6, <1>7, <1>8, Zenon DEF S

\* Sending a packet that behaves preserves the invariant (Encode and its variants).
LEMMA SendIInv ==
    ASSUME IInv, NEW bytes, NEW o \in Outcomes, Behaves(side, bytes, o), Send(bytes, o)
    PROVE  IInv'
<1>0. PICK d \in Nat, n \in Nat : d = Len(decoded) /\ n = Len(sent)
  BY Basics, Zenon
<1>1. /\ wire' = wire \o bytes /\ side' = side
      /\ receive_buffer' = receive_buffer /\ decoded' = decoded /\ status' = status
  BY Zenon DEF Send
<1>2. /\ d \in Nat /\ n \in Nat /\ d <= n
      /\ receive_buffer \in Text /\ wire \in Text /\ Len(receive_buffer) \in Nat /\ Len(wire) \in Nat
      /\ \A k \in 0..n : End(k) \in Nat
      /\ Len(receive_buffer) + Len(wire) = End(n) - End(d)
      /\ \A j, k \in 0..n : j < k => End(j) + 12 <= End(k)
  BY <1>0, Basics, Zenon
<1>3. bytes \in Text /\ Len(bytes) \in Nat /\ Len(bytes) >= 12
  BY DEF Behaves, Text
<1>4. End(n) \in Nat /\ n \in 0..n
  BY <1>2
<1>6. Typed /\ Framed
  BY Zenon DEF IInv
<1>7. /\ sent' \in Seq([holds : Outcomes, end : Nat]) /\ Len(sent') = n + 1
      /\ \A k \in 1..n : sent'[k] = sent[k]
      /\ sent'[n + 1].holds = o
      /\ \A k \in 0..n : End(k)' = End(k)
      /\ End(n + 1)' = End(n) + Len(bytes)
  BY <1>0, <1>3, Grows, Zenon
<1>8. Typed'
  <2>1. wire' \in Text
    BY <1>1, <1>2, <1>3, JoinText, Zenon
  <2>2. Outcomes' = Outcomes
    BY <1>1, SameSide, Zenon
  <2> QED
    BY <1>1, <1>6, <1>7, <2>1, <2>2, Zenon DEF Typed
<1>10. Rest' = Rest \o bytes
  BY <1>1, <1>2, <1>3, Regroup, Zenon DEF Rest
<1>11. ASSUME NEW k \in (d + 1)..n PROVE Pkt(k)' = Pkt(k)
  <2> DEFINE a == End(k - 1) - End(d) + 1
             b == End(k) - End(d)
  <2>1. Rest \in Text /\ k \in 0..n /\ k - 1 \in 0..n /\ a \in 1..Len(Rest) /\ b \in a..Len(Rest)
    BY <1>0, PktRange, Zenon
  <2>2. d \in 0..n
    BY <1>2
  <2>3. End(k - 1)' = End(k - 1) /\ End(k)' = End(k) /\ End(d)' = End(d)
    BY <1>7, <2>1, <2>2, Zenon
  <2>4. SubSeq(Rest \o bytes, a, b) = SubSeq(Rest, a, b)
    BY <1>3, <2>1, SubCat, Zenon
  <2> QED
    BY <1>0, <1>1, <1>10, <2>3, <2>4, Zenon DEF Pkt
<1>12. Pkt(n + 1)' = bytes
  <2>1. Rest \in Text /\ Len(Rest) = End(n) - End(d)
    BY <1>0, PktRange, Zenon
  <2>2. d \in 0..n /\ (n + 1) - 1 = n
    BY <1>2
  <2>3. End(n)' = End(n) /\ End(d)' = End(d)
    BY <1>4, <1>7, <2>2, Zenon
  <2>4. End(n + 1)' - End(d)' = Len(Rest) + Len(bytes) /\ End(n)' - End(d)' + 1 = Len(Rest) + 1
    <3>1. End(d) \in Nat
      BY <1>2, <2>2, Zenon
    <3> QED
      BY <1>3, <1>4, <1>7, <2>1, <2>3, <3>1, SMTT(20)
  <2>5. Pkt(n + 1)' = SubSeq(Rest', End(n)' - End(d)' + 1, End(n + 1)' - End(d)')
    BY <1>0, <1>1, <2>2, Zenon DEF Pkt
  <2> QED
    BY <1>3, <1>10, <2>1, <2>4, <2>5, TextBack, Zenon
<1>13. \A k \in (d + 1)..(n + 1) : k \in (d + 1)..n \/ k = n + 1
  BY <1>2
<1>14. \A k \in (d + 1)..(n + 1) : Behaves(side', Pkt(k)', sent'[k].holds)
  <2>1. ASSUME NEW k \in (d + 1)..n PROVE Behaves(side', Pkt(k)', sent'[k].holds)
    <3>1. Behaves(side, Pkt(k), sent[k].holds)
      BY <1>0, <1>6, Zenon DEF Framed
    <3>2. k \in 1..n
      BY <1>2
    <3> QED
      BY <1>1, <1>7, <1>11, <3>1, <3>2, Zenon
  <2>2. Behaves(side', Pkt(n + 1)', sent'[n + 1].holds)
    BY <1>1, <1>7, <1>12, Zenon
  <2> QED
    BY <1>13, <2>1, <2>2, Zenon
<1>15. \A j, k \in 0..(n + 1) : j < k => End(j)' + 12 <= End(k)'
  <2> SUFFICES ASSUME NEW j \in 0..(n + 1), NEW k \in 0..(n + 1), j < k PROVE End(j)' + 12 <= End(k)'
    BY Zenon
  <2>1. j \in 0..n /\ (k \in 0..n \/ k = n + 1)
    BY <1>2
  <2>2. End(j)' = End(j) /\ End(j) \in Nat
    BY <1>2, <1>7, <2>1, Zenon
  <2>3. CASE k \in 0..n
    BY <1>2, <1>7, <2>1, <2>3, Zenon
  <2>4. CASE k = n + 1
    <3>1. End(j) <= End(n)
      BY <1>0, <1>2, <1>4, <2>1, EndMono, SMTT(20)
    <3>2. End(k)' = End(n) + Len(bytes)
      BY <1>7, <2>4, Zenon
    <3> QED
      BY <1>3, <1>4, <2>2, <3>1, <3>2
  <2> QED
    BY <2>1, <2>3, <2>4, Zenon
<1>16. Len(receive_buffer') + Len(wire') = End(n + 1)' - End(d)'
  <2> DEFINE x == Len(receive_buffer)
             y == Len(wire)
             b == Len(bytes)
             e == End(d)
             f == End(n)
  <2>1. Len(wire') = y + b
    <3>1. wire \in Text /\ bytes \in Text /\ wire' = wire \o bytes
      BY <1>1, <1>2, <1>3, Zenon
    <3>2. Len(wire \o bytes) = Len(wire) + Len(bytes)
      BY <3>1 DEF Text
    <3> QED
      BY <3>1, <3>2, Zenon
  <2>2. d \in 0..n
    BY <1>2
  <2>3. Len(receive_buffer') = x /\ End(n + 1)' = f + b /\ End(d)' = e
    BY <1>1, <1>7, <2>2, Zenon
  <2>4. x \in Nat /\ y \in Nat /\ b \in Nat /\ e \in Nat /\ f \in Nat /\ x + y = f - e
    BY <1>2, <1>3, <1>4, <2>2, Zenon
  <2> HIDE DEF x, y, b, e, f
  <2>5. x + (y + b) = (f + b) - e
    BY <2>4
  <2> QED
    BY <2>1, <2>3, <2>5, Zenon
<1>17. d <= n + 1
  BY <1>2
<1>18. \A k \in 1..d : decoded'[k] = sent'[k].holds
  <2>1. \A k \in 1..d : k \in 1..n /\ decoded[k] = sent[k].holds
    BY <1>0, <1>2, <1>6 DEF Framed
  <2> QED
    BY <1>1, <1>7, <2>1, Zenon
<1>19. Len(decoded') = d /\ Len(sent') = n + 1
  BY <1>0, <1>1, <1>7, Zenon
<1>20. Framed'
  BY <1>14, <1>15, <1>16, <1>17, <1>18, <1>19, Zenon DEF Framed
<1> QED
  BY <1>8, <1>20, Zenon DEF IInv

\* Moving a byte from one text to the next leaves their concatenation.
LEMMA MoveHead ==
    ASSUME NEW r \in Text, NEW w \in Text, w # <<>>
    PROVE  /\ Append(r, Head(w)) \in Text /\ Tail(w) \in Text
           /\ Len(Append(r, Head(w))) = Len(r) + 1 /\ Len(Tail(w)) = Len(w) - 1
           /\ Append(r, Head(w)) \o Tail(w) = r \o w
<1> DEFINE a == Append(r, Head(w))
           b == Tail(w)
           x == a \o b
           y == r \o w
<1>0. Len(r) \in Nat /\ Len(w) \in Nat /\ Len(w) >= 1
  BY DEF Text
<1>1. a \in Text /\ Len(a) = Len(r) + 1 /\ (\A i \in 1..Len(r) : a[i] = r[i]) /\ a[Len(r) + 1] = w[1]
  BY <1>0 DEF Text
<1>2. b \in Text /\ Len(b) = Len(w) - 1 /\ \A i \in 1..(Len(w) - 1) : b[i] = w[i + 1]
  BY <1>0 DEF Text
<1> HIDE DEF a, b
<1>3. /\ x \in Text /\ Len(x) = Len(r) + Len(w)
      /\ \A i \in 1..(Len(r) + 1) : x[i] = a[i]
      /\ \A i \in (Len(r) + 2)..(Len(r) + Len(w)) : x[i] = b[i - (Len(r) + 1)]
  <2>1. Len(a) \in Nat /\ Len(b) \in Nat /\ Len(a) + Len(b) = Len(r) + Len(w)
    BY <1>0, <1>1, <1>2
  <2>2. /\ x \in Text /\ Len(x) = Len(a) + Len(b)
        /\ \A i \in 1..Len(a) : x[i] = a[i]
        /\ \A i \in (Len(a) + 1)..(Len(a) + Len(b)) : x[i] = b[i - Len(a)]
    <3>1. a \in Text /\ b \in Text
      BY <1>1, <1>2, Zenon
    <3> QED
      BY <3>1 DEF Text
  <2>3. (Len(r) + 1) + 1 = Len(r) + 2
    BY <1>0
  <2> QED
    BY <1>1, <2>1, <2>2, <2>3, Zenon
<1>4. /\ y \in Text /\ Len(y) = Len(r) + Len(w)
      /\ \A i \in 1..Len(r) : y[i] = r[i]
      /\ \A i \in (Len(r) + 1)..(Len(r) + Len(w)) : y[i] = w[i - Len(r)]
  BY <1>0 DEF Text
<1> HIDE DEF x, y
<1>5. ASSUME NEW i \in 1..(Len(r) + Len(w)) PROVE x[i] = y[i]
  <2>1. CASE i \in 1..Len(r)
    BY <1>0, <1>1, <1>3, <1>4, <2>1
  <2>2. CASE i = Len(r) + 1
    <3>1. i \in 1..(Len(r) + 1) /\ i \in (Len(r) + 1)..(Len(r) + Len(w)) /\ i - Len(r) = 1
      BY <1>0, <2>2
    <3>2. x[i] = a[i] /\ y[i] = w[i - Len(r)]
      BY <1>3, <1>4, <3>1, Zenon
    <3> QED
      BY <1>1, <2>2, <3>1, <3>2, Zenon
  <2>3. CASE i \in (Len(r) + 2)..(Len(r) + Len(w))
    <3>1. /\ i \in (Len(r) + 1)..(Len(r) + Len(w)) /\ i - (Len(r) + 1) \in 1..(Len(w) - 1)
          /\ (i - (Len(r) + 1)) + 1 = i - Len(r)
      BY <1>0, <2>3
    <3>2. x[i] = b[i - (Len(r) + 1)] /\ y[i] = w[i - Len(r)]
      BY <1>3, <1>4, <2>3, <3>1, Zenon
    <3> QED
      BY <1>2, <3>1, <3>2, Zenon
  <2> QED
    BY <1>0, <2>1, <2>2, <2>3
<1>6. x = y
  BY <1>3, <1>4, <1>5, SameSeq, Zenon DEF Text
<1> QED
  BY <1>1, <1>2, <1>6, Zenon DEF a, b, x, y

\* Draining c bytes from the front (receive_buffer.drain).
LEMMA DropFront ==
    ASSUME NEW s \in Text, NEW t \in Text, NEW c \in 0..Len(s)
    PROVE  /\ SubSeq(s, c + 1, Len(s)) \in Text /\ Len(SubSeq(s, c + 1, Len(s))) = Len(s) - c
           /\ SubSeq(s, c + 1, Len(s)) \o t = SubSeq(s \o t, c + 1, Len(s \o t))
<1> DEFINE f == SubSeq(s, 1, c)
           b == SubSeq(s, c + 1, Len(s))
<1>0. Len(s) \in Nat
  BY DEF Text
<1>1. f \in Text /\ b \in Text /\ Len(f) = c /\ Len(b) = Len(s) - c
  BY <1>0 DEF Text
<1>2. s = f \o b
  BY SplitAt, Zenon
<1> HIDE DEF f, b
<1>3. (f \o b) \o t = f \o (b \o t)
  BY <1>1, Regroup, ZenonT(40)
<1>4. b \o t \in Text
  BY <1>1, JoinText, Zenon
<1>5. SubSeq(f \o (b \o t), Len(f) + 1, Len(f \o (b \o t))) = b \o t
  BY <1>1, <1>4, BackOf, Zenon DEF Text
<1>6. SubSeq(s \o t, c + 1, Len(s \o t)) = b \o t
  BY <1>1, <1>2, <1>3, <1>5, Zenon
<1> QED
  BY <1>1, <1>6, Zenon DEF b

\* A byte that arrives preserves it: the bytes not decoded stay the same.
LEMMA ReadIInv ==
    ASSUME IInv, Read
    PROVE  IInv'
<1>1. /\ receive_buffer' = Append(receive_buffer, Head(wire)) /\ wire' = Tail(wire) /\ wire # <<>>
      /\ side' = side /\ sent' = sent /\ decoded' = decoded /\ status' = status
  BY Zenon DEF Read
<1>2. Typed /\ Framed /\ receive_buffer \in Text /\ wire \in Text
  BY Zenon DEF IInv, Typed
<1>3. /\ receive_buffer' \in Text /\ wire' \in Text
      /\ Len(receive_buffer') = Len(receive_buffer) + 1 /\ Len(wire') = Len(wire) - 1
      /\ receive_buffer' \o wire' = receive_buffer \o wire
  BY <1>1, <1>2, MoveHead, Zenon
<1>4. Typed'
  <2>1. Outcomes' = Outcomes
    BY <1>1, SameSide, Zenon
  <2> QED
    BY <1>1, <1>2, <1>3, <2>1, Zenon DEF Typed
<1>5. \A k : End(k)' = End(k)
  BY <1>1, Zenon DEF End
<1>6. End(Len(decoded))' = End(Len(decoded)) /\ End(Len(sent))' = End(Len(sent))
  BY <1>1, Zenon DEF End
<1>7. \A k : Pkt(k)' = Pkt(k)
  BY <1>1, <1>3, Zenon DEF Pkt, End, Rest
<1>8. Len(receive_buffer') + Len(wire') = Len(receive_buffer) + Len(wire)
  <2>1. Len(receive_buffer) \in Nat /\ Len(wire) \in Nat
    BY <1>2 DEF Text
  <2> QED
    BY <1>3, <2>1
<1>9. Framed'
  BY <1>1, <1>2, <1>5, <1>6, <1>7, <1>8, Zenon DEF Framed
<1> QED
  BY <1>4, <1>9, Zenon DEF IInv

\* What a step of the decoder does.
LEMMA DecodeStep ==
    ASSUME IInv, Decode
    PROVE  /\ status = "open" /\ side' = side /\ sent' = sent /\ wire' = wire
           /\ Len(decoded) < Len(sent) /\ End(Len(decoded) + 1) <= Received
           /\ \/ /\ sent[Len(decoded) + 1].holds # Bad
                 /\ decoded' = Append(decoded, sent[Len(decoded) + 1].holds)
                 /\ receive_buffer' = SubSeq(receive_buffer,
                                             (End(Len(decoded) + 1) - End(Len(decoded))) + 1,
                                             Len(receive_buffer))
                 /\ status' = status
              \/ /\ sent[Len(decoded) + 1].holds = Bad
                 /\ status' = "failed"
                 /\ decoded' = decoded /\ receive_buffer' = receive_buffer
<1> DEFINE r == decode_from(side, receive_buffer)
           o == sent[Len(decoded) + 1].holds
           L == End(Len(decoded) + 1) - End(Len(decoded))
<1>1. /\ status = "open" /\ side' = side /\ sent' = sent /\ wire' = wire
      /\ \/ /\ r.st = "some"
            /\ decoded' = Append(decoded, r.msg)
            /\ receive_buffer' = SubSeq(receive_buffer, r.consumed + 1, Len(receive_buffer))
            /\ status' = status
         \/ /\ r.st = "error"
            /\ status' = "failed"
            /\ decoded' = decoded /\ receive_buffer' = receive_buffer
  BY Zenon DEF Decode
<1>2. None.st = "none" /\ Error.st = "error"
  BY Zenon DEF None, Error
<1>3. Len(decoded) < Len(sent) /\ End(Len(decoded) + 1) <= Received
  <2>1. r # None
    BY <1>1, <1>2, Zenon
  <2>2. /\ Len(decoded) \in Nat /\ Len(sent) \in Nat /\ Len(decoded) <= Len(sent)
        /\ Len(receive_buffer) \in Nat /\ \A k \in 0..Len(sent) : End(k) \in Nat
    BY Basics, Zenon
  <2>3. ~(Len(decoded) = Len(sent)) /\ ~(End(Len(decoded) + 1) > Received)
    BY <2>1, Decodes, Zenon
  <2>4. Len(decoded) < Len(sent) /\ Len(decoded) \in 0..Len(sent) /\ Len(decoded) + 1 \in 0..Len(sent)
    BY <2>2, <2>3
  <2>5. End(Len(decoded)) \in Nat /\ End(Len(decoded) + 1) \in Nat
    BY <2>2, <2>4, Zenon
  <2> QED
    BY <2>2, <2>3, <2>4, <2>5 DEF Received
<1>4. r = IF o = Bad THEN Error ELSE [st |-> "some", msg |-> o, consumed |-> L]
  BY <1>3, Decodes, Zenon
<1> HIDE DEF r, o, L
<1>5. o = Bad => r.st = "error"
  BY <1>2, <1>4, Zenon
<1>6. o # Bad => r.st = "some" /\ r.msg = o /\ r.consumed = L
  BY <1>4, Zenon
<1> QED
  BY <1>1, <1>3, <1>5, <1>6, Zenon DEF o, L

\* The decoder preserves it: it takes exactly the next packet, or fails and takes nothing.
LEMMA DecodeIInv ==
    ASSUME IInv, Decode
    PROVE  IInv'
<1>0. PICK d \in Nat, n \in Nat : d = Len(decoded) /\ n = Len(sent)
  BY Basics, Zenon
<1> DEFINE o == sent[d + 1].holds
           L == End(d + 1) - End(d)
           rb == receive_buffer
<1>1. /\ side' = side /\ sent' = sent /\ wire' = wire
      /\ d < n /\ End(d + 1) <= Received
      /\ \/ /\ decoded' = Append(decoded, o)
            /\ rb' = SubSeq(rb, L + 1, Len(rb)) /\ status' = status
         \/ status' = "failed" /\ decoded' = decoded /\ rb' = rb
  BY <1>0, DecodeStep, Zenon
<1>2. Typed /\ Framed /\ Outcomes' = Outcomes
  BY <1>1, SameSide, Zenon DEF IInv
<1>3. CASE status' = "failed" /\ decoded' = decoded /\ rb' = rb
  <2>1. Typed'
    BY <1>1, <1>2, <1>3, Zenon DEF Typed
  <2>2. Framed'
    BY <1>1, <1>2, <1>3, Zenon DEF Framed, Pkt, End, Rest
  <2> QED
    BY <2>1, <2>2, Zenon DEF IInv
<1>4. CASE /\ decoded' = Append(decoded, o)
           /\ rb' = SubSeq(rb, L + 1, Len(rb)) /\ status' = status
  <2>1. /\ d <= n
        /\ rb \in Text /\ wire \in Text /\ Len(rb) \in Nat /\ Len(wire) \in Nat
        /\ \A k \in 0..n : End(k) \in Nat
        /\ Len(rb) + Len(wire) = End(n) - End(d)
        /\ \A j, k \in 0..n : j < k => End(j) + 12 <= End(k)
    BY <1>0, Basics, Zenon
  <2>2. d + 1 \in 1..n /\ d + 1 \in 0..n /\ d \in 0..n /\ n \in 0..n
    BY <1>1
  <2>3. End(d) \in Nat /\ End(d + 1) \in Nat /\ End(n) \in Nat
    BY <2>1, <2>2, Zenon
  <2>4. L \in 0..Len(rb) /\ L \in Nat
    <3>1. Received = End(d) + Len(rb)
      BY <1>0, Zenon DEF Received
    <3>2. End(d) + 12 <= End(d + 1)
      BY <2>1, <2>2
    <3>3. End(d + 1) <= End(d) + Len(rb) /\ Len(rb) \in Nat
      BY <1>1, <2>1, <3>1, Zenon
    <3> HIDE DEF rb
    <3> QED
      BY <2>3, <3>2, <3>3
  <2>5. o \in Outcomes
    <3>1. sent \in Seq([holds : Outcomes, end : Nat])
      BY <1>2, Zenon DEF Typed
    <3>2. sent[d + 1] \in [holds : Outcomes, end : Nat]
      BY <1>0, <2>2, <3>1, ElementOf, Zenon
    <3> QED
      BY <3>2, Zenon
  <2>6. decoded \in Seq(Outcomes)
    BY <1>2, Zenon DEF Typed
  <2>7. /\ decoded' \in Seq(Outcomes) /\ Len(decoded') = d + 1
        /\ \A k \in 1..d : decoded'[k] = decoded[k]
        /\ decoded'[d + 1] = o
    <3> HIDE DEF o
    <3>1. /\ Append(decoded, o) \in Seq(Outcomes) /\ Len(Append(decoded, o)) = Len(decoded) + 1
          /\ \A k \in 1..Len(decoded) : Append(decoded, o)[k] = decoded[k]
          /\ Append(decoded, o)[Len(decoded) + 1] = o
      BY <2>5, <2>6, Appended, ZenonT(40)
    <3> QED
      BY <1>0, <1>4, <3>1, Zenon
  <2>8. rb' \in Text /\ Len(rb') = Len(rb) - L /\ Rest' = SubSeq(Rest, L + 1, Len(Rest))
    <3> HIDE DEF L
    <3>1. /\ SubSeq(rb, L + 1, Len(rb)) \in Text /\ Len(SubSeq(rb, L + 1, Len(rb))) = Len(rb) - L
          /\ SubSeq(rb, L + 1, Len(rb)) \o wire = SubSeq(rb \o wire, L + 1, Len(rb \o wire))
      BY <2>1, <2>4, DropFront, Zenon
    <3> QED
      BY <1>1, <1>4, <3>1, Zenon DEF Rest
  <2>9. Typed'
    BY <1>1, <1>2, <1>4, <2>7, <2>8, Zenon DEF Typed
  <2>10. \A k : End(k)' = End(k)
    BY <1>1, Zenon DEF End
  <2>11. d + 1 <= n /\ Len(sent') = n
    BY <1>0, <1>1
  <2>12. \A k \in 1..(d + 1) : decoded'[k] = sent'[k].holds
    <3>1. \A k \in 1..(d + 1) : k \in 1..d \/ k = d + 1
      OBVIOUS
    <3>2. \A k \in 1..d : decoded[k] = sent[k].holds
      BY <1>0, <1>2, Zenon DEF Framed
    <3> QED
      BY <1>1, <2>7, <3>1, <3>2, Zenon
  <2>13. Len(rb') + Len(wire') = End(n) - End(d + 1)
    <3> DEFINE x == Len(rb)
               y == Len(wire)
               z == Len(rb')
               e == End(d)
               f == End(d + 1)
               g == End(n)
    <3>1. x + y = g - e
      BY <2>1, Zenon
    <3>2. x \in Nat /\ y \in Nat
      BY <2>1, Zenon
    <3>3. z = x - (f - e)
      BY <2>8, Zenon
    <3>4. e \in Nat /\ f \in Nat /\ g \in Nat
      BY <2>3, Zenon
    <3> HIDE DEF x, y, z, e, f, g
    <3>5. z + y = g - f
      BY <3>1, <3>2, <3>3, <3>4
    <3> QED
      BY <1>1, <3>5, Zenon DEF y, z, g, f
  <2>14. ASSUME NEW k \in ((d + 1) + 1)..n PROVE Behaves(side', Pkt(k)', sent'[k].holds)
    <3> DEFINE a == End(k - 1) - End(d) + 1
               b == End(k) - End(d)
    <3>1. k \in (d + 1)..n
      OBVIOUS
    <3>2. Rest \in Text /\ k \in 0..n /\ k - 1 \in 0..n /\ a \in 1..Len(Rest) /\ b \in a..Len(Rest)
      BY <1>0, <3>1, PktRange, Zenon
    <3>3. Behaves(side, Pkt(k), sent[k].holds)
      BY <1>0, <1>2, <3>1, Zenon DEF Framed
    <3>4. Pkt(k) = SubSeq(Rest, a, b)
      BY <1>0, Zenon DEF Pkt
    <3>5. End(d + 1) <= End(k - 1)
      <4>1. d + 1 <= k - 1
        OBVIOUS
      <4> QED
        BY <1>0, <2>2, <3>2, <4>1, EndMono, Zenon
    <3>6. End(k) \in Nat /\ End(k - 1) \in Nat
      BY <2>1, <3>2, Zenon
    <3>7. /\ End(k - 1) - End(d + 1) + 1 = a - L /\ End(k) - End(d + 1) = b - L
          /\ a >= L + 1
      BY <2>3, <3>5, <3>6
    <3>8. Pkt(k)' = SubSeq(Rest', End(k - 1) - End(d + 1) + 1, End(k) - End(d + 1))
      BY <2>7, <2>10, Zenon DEF Pkt
    <3> HIDE DEF a, b, L
    <3>9. L \in 0..Len(Rest) /\ a \in (L + 1)..Len(Rest)
      BY <2>4, <3>2, <3>7
    <3>10. SubSeq(SubSeq(Rest, L + 1, Len(Rest)), a - L, b - L) = SubSeq(Rest, a, b)
      BY <3>2, <3>9, SubSub, Zenon
    <3> QED
      BY <1>1, <2>8, <3>3, <3>4, <3>7, <3>8, <3>10, Zenon
  <2>15. \A j, k \in 0..n : j < k => End(j)' + 12 <= End(k)'
    BY <2>1, <2>10, Zenon
  <2> HIDE DEF o, L, rb
  <2>16. Len(receive_buffer') + Len(wire') = End(n)' - End(d + 1)'
    BY <2>10, <2>13, Zenon DEF rb
  <2>17. Framed'
    BY <2>7, <2>11, <2>12, <2>14, <2>15, <2>16, Zenon DEF Framed
  <2> QED
    BY <2>9, <2>17, Zenon DEF IInv
<1> QED
  BY <1>1, <1>3, <1>4, Zenon

\* If the peer takes a step, it sends a packet that behaves: what the codec has to
\* show (module PacketProofs).
PeerBehaves ==
    Peer => \E bytes \in Text, o \in Outcomes : Behaves(side, bytes, o) /\ Send(bytes, o)

\* Every step preserves the invariant, if what the peer sends behaves.
LEMMA NextIInv == PeerBehaves /\ IInv /\ [Next]_vars => IInv'
<1> SUFFICES ASSUME PeerBehaves, IInv, [Next]_vars PROVE IInv'
  BY Zenon
<1>1. CASE Peer
  <2>1. PICK bytes \in Text, o \in Outcomes : Behaves(side, bytes, o) /\ Send(bytes, o)
    BY <1>1, Zenon DEF PeerBehaves
  <2> QED
    BY <2>1, SendIInv, Zenon
<1>2. CASE Read
  BY <1>2, ReadIInv, Zenon
<1>3. CASE Decode
  BY <1>3, DecodeIInv, Zenon
<1>4. CASE UNCHANGED vars
  BY <1>4, ZenonT(40) DEF vars, IInv, Typed, Framed, Pkt, End, Rest, Outcomes, Outcome
<1> QED
  BY <1>1, <1>2, <1>3, <1>4, Zenon DEF Next

\* The invariant implies it: what is decoded is what was sent.
LEMMA SentIsDecoded == IInv => DecodedAsSent
<1> SUFFICES ASSUME IInv PROVE DecodedAsSent
  BY Zenon
<1>1. /\ Len(decoded) \in Nat /\ Len(sent) \in Nat /\ Len(decoded) <= Len(sent)
      /\ \A k \in 1..Len(decoded) : decoded[k] = sent[k].holds
      /\ decoded \in Seq(Outcomes)
  BY Basics, Zenon DEF IInv, Typed, Framed
<1> QED
  BY <1>1 DEF DecodedAsSent

\* The invariant implies it: None leaves no complete packet (Decodes).
LEMMA NoneIsStuck == IInv => NoPacketIsStuck
<1> SUFFICES ASSUME IInv, decode_from(side, receive_buffer).st = "none", NEW k \in Complete
             PROVE  FALSE
  BY Zenon DEF NoPacketIsStuck
<1>1. /\ Len(decoded) \in Nat /\ Len(sent) \in Nat /\ Len(decoded) <= Len(sent)
      /\ \A j \in 0..Len(sent) : End(j) \in Nat
      /\ \A i, j \in 0..Len(sent) : i <= j => End(i) <= End(j)
      /\ Len(receive_buffer) \in Nat
  BY Basics, EndMono, Zenon
<1>2. k \in 1..Len(sent) /\ k > Len(decoded) /\ End(k) <= Received
  <2>1. sent \in Seq([holds : Outcomes, end : Nat])
    BY Zenon DEF IInv, Typed
  <2>2. DOMAIN sent = 1..Len(sent)
    BY <2>1
  <2> QED
    BY <2>2, Zenon DEF Complete
<1>3. /\ Len(decoded) + 1 \in 0..Len(sent) /\ k \in 0..Len(sent) /\ Len(decoded) + 1 <= k
      /\ Len(decoded) < Len(sent) /\ Len(decoded) \in 0..Len(sent)
  BY <1>1, <1>2
<1>4. End(Len(decoded) + 1) <= End(k)
  BY <1>1, <1>3, Zenon
<1>5. End(Len(decoded) + 1) <= Received
  <2>1. End(Len(decoded)) \in Nat /\ End(k) \in Nat /\ End(Len(decoded) + 1) \in Nat
    BY <1>1, <1>3, Zenon
  <2>2. Received \in Nat
    BY <1>1, <2>1 DEF Received
  <2> QED
    BY <1>2, <1>4, <2>1, <2>2
<1> DEFINE r == decode_from(side, receive_buffer)
           o == sent[Len(decoded) + 1].holds
           L == End(Len(decoded) + 1) - End(Len(decoded))
<1>6. r = IF o = Bad THEN Error ELSE [st |-> "some", msg |-> o, consumed |-> L]
  BY <1>3, <1>5, Decodes, Zenon
<1> HIDE DEF r, o, L
<1>7. r.st # "none"
  BY <1>6, Zenon DEF Error
<1> QED
  BY <1>7, Zenon DEF r

-----------------------------------------------------------------------------
(* The bytes implement the queue of packets.                               *)

\* Packet k is the last one decoded or complete.
IsLast(k) ==
    /\ k \in Len(decoded)..Len(sent)
    /\ End(k) <= Received /\ (k = Len(sent) \/ End(k + 1) > Received)

\* The bytes received lie between the packets decoded and those sent.
LEMMA Bounds ==
    ASSUME IInv
    PROVE  Received \in Nat /\ Received <= End(Len(sent)) /\ End(Len(decoded)) <= Received
<1> DEFINE x == Len(receive_buffer)
           y == Len(wire)
           e == End(Len(decoded))
           f == End(Len(sent))
<1>1. /\ Len(decoded) \in Nat /\ Len(sent) \in Nat /\ Len(decoded) <= Len(sent)
      /\ x \in Nat /\ y \in Nat /\ x + y = f - e /\ \A k \in 0..Len(sent) : End(k) \in Nat
  BY Basics, Zenon
<1>2. Len(decoded) \in 0..Len(sent) /\ Len(sent) \in 0..Len(sent)
  BY <1>1
<1>3. e \in Nat /\ f \in Nat
  BY <1>1, <1>2, Zenon
<1>4. Received = e + x
  BY Zenon DEF Received
<1> HIDE DEF x, y, e, f
<1>5. Received \in Nat /\ Received <= f /\ e <= Received
  BY <1>1, <1>3, <1>4
<1> QED
  BY <1>5, Zenon DEF e, f

\* There is exactly one last packet.
LEMMA LastIs == IInv => IsLast(Last) /\ \A k : IsLast(k) => k = Last
<1> SUFFICES ASSUME IInv PROVE IsLast(Last) /\ \A k : IsLast(k) => k = Last
  BY Zenon
<1> DEFINE d == Len(decoded)
           n == Len(sent)
<1>1. /\ d \in Nat /\ n \in Nat /\ d <= n /\ \A k \in 0..n : End(k) \in Nat
      /\ \A j, k \in 0..n : j <= k => End(j) <= End(k)
      /\ Received \in Nat /\ End(d) <= Received
  BY Basics, EndMono, Bounds, Zenon
<1>2. \E k : IsLast(k)
  <2> DEFINE S == {k \in d..n : k = n \/ End(k + 1) > Received}
  <2>1. S \in SUBSET Nat /\ n \in S
    BY <1>1
  <2>2. PICK k \in S : \A j \in S : k <= j
    <3> HIDE DEF S
    <3> QED
      BY <2>1, Least, Zenon
  <2>3. k \in d..n /\ (k = n \/ End(k + 1) > Received) /\ k \in Nat
    BY <2>1, <2>2, Zenon
  <2>4. End(k) <= Received
    <3>1. CASE k = d
      BY <1>1, <3>1, Zenon
    <3>2. CASE k # d
      <4>1. k - 1 \in d..n /\ k - 1 # n /\ (k - 1) + 1 = k /\ ~(k <= k - 1) /\ k \in 0..n
        BY <1>1, <2>3, <3>2
      <4>2. ~(End((k - 1) + 1) > Received)
        BY <2>2, <4>1, Zenon
      <4>3. ~(End(k) > Received)
        BY <4>1, <4>2, Zenon
      <4>4. End(k) \in Nat
        BY <1>1, <4>1, Zenon
      <4> HIDE DEF d, n
      <4> QED
        BY <1>1, <4>3, <4>4
    <3> QED
      BY <3>1, <3>2, Zenon
  <2>5. IsLast(k)
    BY <2>3, <2>4, Zenon DEF IsLast
  <2> QED
    BY <2>5, Zenon
<1>3. IsLast(Last)
  <2>1. \E k \in d..n : End(k) <= Received /\ (k = n \/ End(k + 1) > Received)
    BY <1>2, Zenon DEF IsLast
  <2> QED
    BY <2>1, Zenon DEF IsLast, Last
<1>4. ASSUME NEW j, NEW k, IsLast(j), IsLast(k) PROVE ~(j < k)
  <2> SUFFICES ASSUME j < k PROVE FALSE
    BY Zenon
  <2>1. /\ j \in d..n /\ k \in d..n /\ End(k) <= Received
        /\ (j = n \/ End(j + 1) > Received)
    BY <1>4, Zenon DEF IsLast
  <2>2. j + 1 <= k /\ j + 1 \in 0..n /\ k \in 0..n /\ j # n
    BY <1>1, <2>1
  <2>3. End(j + 1) <= End(k) /\ End(j + 1) > Received /\ End(j + 1) \in Nat /\ End(k) \in Nat
    BY <1>1, <2>1, <2>2, Zenon
  <2> HIDE DEF d, n
  <2> QED
    BY <1>1, <2>1, <2>3
<1>5. ASSUME NEW k, IsLast(k) PROVE k = Last
  <2>1. ~(k < Last) /\ ~(Last < k)
    BY <1>3, <1>4, <1>5, Zenon
  <2>2. k \in d..n /\ Last \in d..n
    BY <1>3, <1>5, Zenon DEF IsLast
  <2> QED
    BY <1>1, <2>1, <2>2
<1> QED
  BY <1>3, <1>5, Zenon

\* Packets d + 1 .. l of s.
QueueOf(s, d, l) == [j \in 1..(l - d) |-> s[d + j].holds]

\* Tail, element by element.
LEMMA TailIs ==
    ASSUME NEW S, NEW s \in Seq(S), s # <<>>
    PROVE  Tail(s) = [j \in 1..(Len(s) - 1) |-> s[j + 1]]
<1> DEFINE t == Tail(s)
           m == Len(s) - 1
           f == [j \in 1..m |-> s[j + 1]]
<1>1. m \in Nat
  OBVIOUS
<1>2. t \in Seq(S) /\ Len(t) = m /\ \A j \in 1..m : t[j] = s[j + 1]
  OBVIOUS
<1>3. \A j \in 1..m : s[j + 1] \in S
  OBVIOUS
<1> HIDE DEF t, m
<1>4. f \in Seq(S) /\ Len(f) = m /\ \A j \in 1..m : f[j] = s[j + 1]
  BY <1>1, <1>3
<1> HIDE DEF f
<1>5. t = f
  BY <1>2, <1>4, SameSeq, Zenon
<1> QED
  BY <1>5, Zenon DEF t, f, m

\* The queue of complete packets as a sequence: its head, its tail and its prefixes.
LEMMA QueueIs ==
    ASSUME NEW s, NEW d \in Nat, NEW l \in Nat, d <= l
    PROVE  /\ Len(QueueOf(s, d, l)) = l - d
           /\ d = l => QueueOf(s, d, l) = <<>>
           /\ d < l => /\ QueueOf(s, d, l) # <<>>
                       /\ Head(QueueOf(s, d, l)) = s[d + 1].holds
                       /\ Tail(QueueOf(s, d, l)) = QueueOf(s, d + 1, l)
           /\ \A k \in d..l : QueueOf(s, d, k) = SubSeq(QueueOf(s, d, l), 1, k - d)
<1> DEFINE q == QueueOf(s, d, l)
           V == {s[d + j].holds : j \in 1..(l - d)}
<1>1. q = [j \in 1..(l - d) |-> s[d + j].holds]
  BY Zenon DEF QueueOf
<1>2. q \in Seq(V) /\ Len(q) = l - d
  <2> HIDE DEF q
  <2>1. q \in [1..(l - d) -> V]
    BY <1>1, Zenon
  <2>2. l - d \in Nat
    OBVIOUS
  <2> HIDE DEF V
  <2> QED
    BY <2>1, <2>2
<1> HIDE DEF V
<1>3. d = l => q = <<>>
  BY <1>1
<1>4. ASSUME d < l PROVE q # <<>> /\ Head(q) = s[d + 1].holds
  <2>1. 1 \in 1..(l - d)
    BY <1>4
  <2>2. q[1] = s[d + 1].holds
    BY <1>1, <2>1, Zenon
  <2> HIDE DEF q
  <2> QED
    BY <1>2, <1>4, <2>2
<1>5. ASSUME d < l PROVE Tail(q) = QueueOf(s, d + 1, l)
  <2> HIDE DEF q
  <2>1. Tail(q) = [j \in 1..((l - d) - 1) |-> q[j + 1]]
    <3>1. q # <<>>
      BY <1>4, <1>5, Zenon
    <3> QED
      BY <1>2, <3>1, TailIs, Zenon
  <2>2. (l - d) - 1 = l - (d + 1)
    OBVIOUS
  <2>3. \A j \in 1..(l - (d + 1)) : q[j + 1] = s[(d + 1) + j].holds
    <3> SUFFICES ASSUME NEW j \in 1..(l - (d + 1)) PROVE q[j + 1] = s[(d + 1) + j].holds
      BY Zenon
    <3>1. j + 1 \in 1..(l - d) /\ d + (j + 1) = (d + 1) + j
      OBVIOUS
    <3>2. q[j + 1] = s[d + (j + 1)].holds
      BY <1>1, <3>1, Zenon
    <3> QED
      BY <3>1, <3>2, Zenon
  <2> QED
    BY <2>1, <2>2, <2>3, Zenon DEF QueueOf
<1>6. ASSUME NEW k \in d..l PROVE QueueOf(s, d, k) = SubSeq(q, 1, k - d)
  <2> HIDE DEF q
  <2>1. SubSeq(q, 1, k - d) = [j \in 1..(k - d) |-> q[j]]
    BY <1>2
  <2>2. \A j \in 1..(k - d) : j \in 1..(l - d)
    OBVIOUS
  <2> QED
    BY <1>1, <2>1, <2>2, Zenon DEF QueueOf
<1> QED
  BY <1>2, <1>3, <1>4, <1>5, <1>6, Zenon

\* The same after a step.
LEMMA NextLastIs == IInv' => IsLast(Last)' /\ \A k : IsLast(k)' => k = Last'
<1>1. (IInv => IsLast(Last) /\ \A k : IsLast(k) => k = Last)'
  BY LastIs, PTL
<1> QED
  BY <1>1, Zenon

\* The state of PacketBuffer that the bytes stand for.
Queue   == QueueOf(sent, Len(decoded), Last)

\* Bytes of an incomplete packet.
Partial == Received > End(Last)

\* Sending is a step the receiving buffer does not see.
LEMMA SendHides ==
    ASSUME IInv, IInv', NEW bytes \in Text, NEW o \in Outcomes, Behaves(side, bytes, o), Send(bytes, o)
    PROVE  Queue' = Queue /\ Partial' = Partial /\ decoded' = decoded /\ status' = status
<1>0. PICK d \in Nat, n \in Nat, l \in {Last} : d = Len(decoded) /\ n = Len(sent) /\ l = Last
  BY Basics, Zenon
<1>1. decoded' = decoded /\ status' = status /\ receive_buffer' = receive_buffer
  BY Zenon DEF Send
<1>2. /\ Len(sent') = n + 1
      /\ \A k \in 1..n : sent'[k] = sent[k]
      /\ \A k \in 0..n : End(k)' = End(k)
      /\ End(n + 1)' = End(n) + Len(bytes)
  BY <1>0, Grows, Zenon
<1>3. d <= n /\ Received \in Nat /\ Received <= End(n) /\ \A k \in 0..n : End(k) \in Nat
  BY <1>0, Basics, Bounds, Zenon
<1>4. l \in d..n /\ End(l) <= Received /\ (l = n \/ End(l + 1) > Received)
  BY <1>0, LastIs, Zenon DEF IsLast
<1>5. d \in 0..n /\ n \in 0..n /\ l \in 0..n /\ l \in d..(n + 1) /\ (l # n => l + 1 \in 0..n)
  BY <1>3, <1>4
<1>6. Len(bytes) \in Nat /\ Len(bytes) >= 12
  BY DEF Behaves, Text
<1>7. Received' = Received
  BY <1>0, <1>1, <1>2, <1>5, Zenon DEF Received
<1>8. End(l + 1)' > Received
  <2>1. CASE l = n
    <3>1. End(l + 1)' = End(n) + Len(bytes) /\ End(n) \in Nat
      BY <1>2, <1>3, <1>5, <2>1, Zenon
    <3> QED
      BY <1>3, <1>6, <3>1
  <2>2. CASE l # n
    BY <1>2, <1>4, <1>5, <2>2, Zenon
  <2> QED
    BY <2>1, <2>2, Zenon
<1>9. IsLast(l)'
  BY <1>0, <1>1, <1>2, <1>4, <1>5, <1>7, <1>8, Zenon DEF IsLast
<1>10. Last' = l
  BY <1>9, NextLastIs, Zenon
<1>11. Queue' = Queue
  <2>1. \A j \in 1..(l - d) : d + j \in 1..n
    BY <1>3, <1>4
  <2>2. \A j \in 1..(l - d) : sent'[d + j].holds = sent[d + j].holds
    BY <1>2, <2>1, Zenon
  <2> QED
    BY <1>0, <1>1, <1>10, <2>2, Zenon DEF Queue, QueueOf
<1>12. Partial' = Partial
  <2>1. End(Last)' = End(l)'
    BY <1>10, Zenon DEF End
  <2>2. End(l)' = End(l)
    BY <1>2, <1>5, Zenon
  <2> QED
    BY <1>0, <1>7, <2>1, <2>2, Zenon DEF Partial
<1> QED
  BY <1>1, <1>11, <1>12, Zenon

\* Bounds of the next number.
LEMMA Below ==
    ASSUME NEW d \in Nat, NEW n \in Nat, NEW l \in d..n, NEW m \in d..n, m < l
    PROVE  m # n /\ m + 1 <= l /\ m + 1 \in 0..n /\ l \in 0..n
  OBVIOUS

\* A byte that arrives completes packets or begins one (Arrive).
LEMMA ReadArrives ==
    ASSUME IInv, IInv', Read
    PROVE  /\ Len(Queue) <= Len(Queue') /\ Queue = SubSeq(Queue', 1, Len(Queue))
           /\ Queue' # Queue \/ Partial'
           /\ decoded' = decoded /\ status' = status /\ status = "open"
<1>0. PICK d \in Nat, n \in Nat, l \in {Last}, m \in {Last'} : d = Len(decoded) /\ n = Len(sent) /\ l = Last /\ m = Last'
  BY Basics, Zenon
<1>1. /\ decoded' = decoded /\ status' = status /\ status = "open" /\ sent' = sent
      /\ wire # <<>> /\ receive_buffer' = Append(receive_buffer, Head(wire))
  BY Zenon DEF Read
<1>2. d <= n /\ Received \in Nat /\ \A k \in 0..n : End(k) \in Nat
  BY <1>0, Basics, Bounds, Zenon
<1>3. \A j, k \in 0..n : j <= k => End(j) <= End(k)
  BY <1>0, EndMono, Zenon
<1>4. \A k : End(k)' = End(k)
  BY <1>1, Zenon DEF End
<1>5. Received' = Received + 1
  <2> DEFINE x == Len(receive_buffer)
             y == Len(receive_buffer')
             e == End(d)
  <2>1. receive_buffer \in Text /\ wire \in Text
    BY Basics, Zenon
  <2>2. y = x + 1
    BY <1>1, <2>1, MoveHead, Zenon
  <2>3. Received = e + x /\ Received' = e + y
    BY <1>0, <1>1, <1>4, Zenon DEF Received
  <2>4. e \in Nat /\ x \in Nat
    <3>1. d \in 0..n
      BY <1>2
    <3> QED
      BY <1>2, <3>1, Basics, Zenon
  <2> HIDE DEF x, y, e
  <2> QED
    BY <2>2, <2>3, <2>4
<1>6. l \in d..n /\ End(l) <= Received
  BY <1>0, LastIs, Zenon DEF IsLast
<1>7. m \in d..n /\ (m = n \/ End(m + 1) > Received + 1)
  <2>1. IsLast(m)'
    <3>1. IsLast(Last)'
      BY NextLastIs, Zenon
    <3> QED
      BY <1>0, <3>1, Zenon DEF IsLast, End
  <2> QED
    BY <1>0, <1>1, <1>4, <1>5, <2>1, Zenon DEF IsLast
<1>8. l <= m
  <2> SUFFICES ASSUME m < l PROVE FALSE
    BY <1>6, <1>7
  <2>1. m # n /\ m + 1 <= l /\ m + 1 \in 0..n /\ l \in 0..n
    <3>1. l \in d..n /\ m \in d..n
      BY <1>6, <1>7, Zenon
    <3> QED
      BY <3>1, Below, Zenon
  <2>2. End(m + 1) > Received + 1 /\ End(m + 1) <= End(l) /\ End(m + 1) \in Nat /\ End(l) \in Nat
    BY <1>2, <1>3, <1>7, <2>1, Zenon
  <2> QED
    BY <1>2, <1>6, <2>2
<1>9. Queue = QueueOf(sent, d, l) /\ Queue' = QueueOf(sent, d, m)
  BY <1>0, <1>1, Zenon DEF Queue, QueueOf
<1>10. d <= l /\ d <= m /\ l \in Nat /\ m \in Nat /\ l \in d..m
  BY <1>6, <1>7, <1>8
<1>11. /\ Len(Queue) = l - d /\ Len(Queue') = m - d
       /\ Queue = SubSeq(Queue', 1, l - d)
  BY <1>9, <1>10, QueueIs, ZenonT(40)
<1>12. l - d <= m - d
  BY <1>8, <1>10
<1>13. ASSUME Queue' = Queue PROVE Partial'
  <2>1. m - d = l - d
    BY <1>11, <1>13, Zenon
  <2>2. m = l
    BY <1>10, <2>1
  <2>3. End(Last)' = End(l)
    BY <1>0, <1>1, <2>2, Zenon DEF End
  <2>4. End(l) \in Nat
    <3>1. l \in 0..n
      BY <1>6
    <3> QED
      BY <1>2, <3>1, Zenon
  <2>5. Received + 1 > End(l)
    BY <1>2, <1>6, <2>4
  <2> QED
    BY <1>5, <2>3, <2>5, Zenon DEF Partial
<1> QED
  BY <1>1, <1>11, <1>12, <1>13, Zenon

\* Decoding takes the first complete packet (Take), or fails on it (Fail).
LEMMA DecodeTakes ==
    ASSUME IInv, IInv', Decode
    PROVE  /\ status = "open" /\ Queue # <<>> /\ Partial' = Partial
           /\ \/ /\ Head(Queue) # Bad /\ decoded' = Append(decoded, Head(Queue))
                 /\ Queue' = Tail(Queue) /\ status' = status
              \/ /\ Head(Queue) = Bad /\ status' = "failed"
                 /\ Queue' = Queue /\ decoded' = decoded
<1>0. PICK d \in Nat, n \in Nat, l \in {Last} : d = Len(decoded) /\ n = Len(sent) /\ l = Last
  BY Basics, Zenon
<1> DEFINE o == sent[d + 1].holds
           L == End(d + 1) - End(d)
           rb == receive_buffer
<1>1. /\ status = "open" /\ sent' = sent /\ d < n /\ End(d + 1) <= Received
      /\ \/ /\ o # Bad /\ decoded' = Append(decoded, o)
            /\ rb' = SubSeq(rb, L + 1, Len(rb)) /\ status' = status
         \/ /\ o = Bad /\ status' = "failed" /\ decoded' = decoded /\ rb' = rb
  BY <1>0, DecodeStep, Zenon
<1>2. d <= n /\ Received \in Nat /\ \A k \in 0..n : End(k) \in Nat
  BY <1>0, Basics, Bounds, Zenon
<1>3. l \in d..n /\ End(l) <= Received /\ (l = n \/ End(l + 1) > Received)
  BY <1>0, LastIs, Zenon DEF IsLast
<1>4. \A k : End(k)' = End(k)
  BY <1>1, Zenon DEF End
<1>5. d < l /\ l \in Nat /\ d <= l
  <2>1. d + 1 \in 0..n
    BY <1>1
  <2>2. End(d + 1) \in Nat
    BY <1>2, <2>1, Zenon
  <2>3. ~(End(d + 1) > Received)
    BY <1>1, <1>2, <2>2
  <2>4. l # d
    BY <1>1, <1>3, <2>3
  <2> QED
    BY <1>3, <2>4
<1>6. Queue = QueueOf(sent, d, l)
  BY <1>0, Zenon DEF Queue
<1>7. Queue # <<>> /\ Head(Queue) = o /\ Tail(Queue) = QueueOf(sent, d + 1, l)
  BY <1>5, <1>6, QueueIs, Zenon
<1>8. CASE o = Bad /\ status' = "failed" /\ decoded' = decoded /\ rb' = rb
  <2>1. Last' = Last
    BY <1>1, <1>8, Zenon DEF Last, End, Received
  <2>2. Queue' = Queue /\ Partial' = Partial
    BY <1>1, <1>8, <2>1, Zenon DEF Queue, Partial, End, Received
  <2> QED
    BY <1>1, <1>7, <1>8, <2>2, Zenon
<1>9. CASE /\ o # Bad /\ decoded' = Append(decoded, o)
           /\ rb' = SubSeq(rb, L + 1, Len(rb)) /\ status' = status
  <2>1. Len(decoded') = d + 1
    <3>1. decoded \in Seq(Outcomes)
      BY Zenon DEF IInv, Typed
    <3> HIDE DEF o
    <3>2. Len(Append(decoded, o)) = Len(decoded) + 1
      BY <3>1
    <3> QED
      BY <1>0, <1>9, <3>2, Zenon
  <2>2. Received' = Received
    <3> DEFINE x == Len(rb)
               y == Len(rb')
               e == End(d)
               f == End(d + 1)
    <3>1. Received = e + x /\ Received' = f + y
      BY <1>0, <1>4, <2>1, Zenon DEF Received
    <3>2. rb \in Text
      BY Basics, Zenon
    <3>a. x \in Nat
      BY Basics, Zenon
    <3>3. d \in 0..n /\ d + 1 \in 0..n
      BY <1>1
    <3>4. e \in Nat /\ f \in Nat /\ e + 12 <= f
      <4>1. \A j, k \in 0..n : j < k => End(j) + 12 <= End(k)
        BY <1>0, Basics, Zenon
      <4>2. d < d + 1
        OBVIOUS
      <4> QED
        BY <1>2, <3>3, <4>1, <4>2, Zenon
    <3>5. L = f - e /\ f <= Received
      BY <1>1, Zenon
    <3> HIDE DEF x, y, e, f, L
    <3>6. L \in 0..x
      BY <3>1, <3>a, <3>4, <3>5
    <3>7. y = x - L
      BY <1>9, <3>2, <3>6, DropFront, Zenon DEF x, y
    <3> QED
      BY <3>1, <3>a, <3>4, <3>5, <3>7
  <2>3. l \in (d + 1)..n
    BY <1>3, <1>5
  <2>4. IsLast(l)'
    BY <1>0, <1>1, <1>3, <1>4, <2>1, <2>2, <2>3, Zenon DEF IsLast
  <2>5. Last' = l
    BY <2>4, NextLastIs, Zenon
  <2>6. Queue' = QueueOf(sent, d + 1, l)
    BY <1>1, <2>1, <2>5, Zenon DEF Queue, QueueOf
  <2>7. Partial' = Partial
    <3>1. End(Last)' = End(l)
      BY <1>1, <2>5, Zenon DEF End
    <3> QED
      BY <1>0, <2>2, <3>1, Zenon DEF Partial
  <2> HIDE DEF o
  <2> QED
    BY <1>1, <1>7, <1>9, <2>6, <2>7, Zenon
<1> QED
  BY <1>1, <1>8, <1>9, Zenon

\* An empty stream stands for an empty queue.
LEMMA BufferInit == Init => Buffer!Init
<1> SUFFICES ASSUME Init PROVE Buffer!Init
  BY Zenon
<1>1. IInv
  BY InitIInv, Zenon
<1>2. /\ decoded = <<>> /\ status = "open" /\ Len(decoded) = 0 /\ Len(sent) = 0
      /\ Len(receive_buffer) = 0
  BY Zenon DEF Init
<1>3. Last \in 0..0
  BY <1>1, <1>2, LastIs, Zenon DEF IsLast
<1>4. Last = 0
  BY <1>3
<1>5. Queue = <<>>
  BY <1>2, <1>4, QueueIs DEF Queue
<1>6. Partial = FALSE
  BY <1>2, <1>4 DEF Partial, Received, End
<1> QED
  BY <1>2, <1>5, <1>6, Zenon DEF Buffer!Init, Queue, QueueOf, Partial

\* Every step is one of PacketBuffer, or hidden from it, if what the peer sends behaves.
LEMMA BufferStep == PeerBehaves /\ IInv /\ IInv' /\ [Next]_vars => [Buffer!Next]_(Buffer!vars)
<1> SUFFICES ASSUME PeerBehaves, IInv, IInv', [Next]_vars PROVE [Buffer!Next]_(Buffer!vars)
  BY Zenon
<1>1. CASE Peer
  <2>1. PICK bytes \in Text, o \in Outcomes : Behaves(side, bytes, o) /\ Send(bytes, o)
    BY <1>1, Zenon DEF PeerBehaves
  <2>2. Queue' = Queue /\ Partial' = Partial /\ decoded' = decoded /\ status' = status
    BY <2>1, SendHides, Zenon
  <2> QED
    BY <2>2, Zenon DEF Buffer!vars, Queue, QueueOf, Partial
<1>2. CASE Read
  <2>1. Buffer!Arrive /\ status = "open"
    BY <1>2, ReadArrives, Zenon DEF Buffer!Arrive, Queue, QueueOf, Partial
  <2> QED
    BY <2>1, Zenon DEF Buffer!Next
<1>3. CASE Decode
  <2>1. (Buffer!Take \/ Buffer!Fail) /\ status = "open"
    BY <1>3, DecodeTakes, Zenon DEF Buffer!Take, Buffer!Fail, Queue, QueueOf, Partial
  <2> QED
    BY <2>1, Zenon DEF Buffer!Next
<1>4. CASE UNCHANGED vars
  <2>1. sent' = sent /\ decoded' = decoded /\ receive_buffer' = receive_buffer /\ status' = status
    BY <1>4, Zenon DEF vars
  <2>2. Last' = Last
    BY <2>1, Zenon DEF Last, End, Received
  <2>3. Queue' = Queue /\ Partial' = Partial
    BY <2>1, <2>2, Zenon DEF Queue, Partial, End, Received
  <2> QED
    BY <2>1, <2>3, Zenon DEF Buffer!vars, Queue, QueueOf, Partial
<1> QED
  BY <1>1, <1>2, <1>3, <1>4, Zenon DEF Next
=============================================================================
