---------------------------- MODULE PacketProofs ----------------------------
(***************************************************************************)
(* The codec and the stream together: every packet a peer sends behaves    *)
(* (CodecProofs), so the invariant of the stream holds in every state      *)
(* (StreamProofs), and with it DecodedAsSent, NoPacketIsStuck and the      *)
(* refinement of PacketBuffer.                                             *)
(***************************************************************************)
EXTENDS CodecProofs, StreamProofs

\* What the lemmas of the codec assume.
LEMMA Inductive == NatInductive
  BY Induction, Zenon DEF NatInductive

\* A payload decodes to what its message should decode to, whatever follows it:
\* encode_payload against decode_client_payload and decode_daemon_payload.
THEOREM PayloadRoundTrip ==
    ASSUME NEW m, IsMessage(m), side \in {"client", "daemon"}, NEW extra \in Text
    PROVE  \E r : Reads(m.type, encode_payload(m) \o extra) = IF Outcome(m) = Bad THEN Eof ELSE Got(Outcome(m), r)
  BY Inductive, ReadsBack, Zenon

\* Every step of the peer sends a packet that behaves: Encode and its variants.
LEMMA PeerSends == IInv => PeerBehaves
<1> SUFFICES ASSUME IInv, Peer
             PROVE  \E bytes \in Text, o \in Outcomes : Behaves(side, bytes, o) /\ Send(bytes, o)
  BY Zenon DEF PeerBehaves
<1>1. side \in {"client", "daemon"}
  BY Zenon DEF IInv, Typed
<1>2. Bad \in Outcomes /\ \A m \in Messages \cup OtherVersion : Outcome(m) \in Outcomes
  BY Zenon DEF Outcomes
<1>3. \A bytes, o : Behaves(side, bytes, o) => bytes \in Text
  BY Zenon DEF Behaves
<1>4. ASSUME NEW m \in Messages, Encode(m)
      PROVE  \E bytes \in Text, o \in Outcomes : Behaves(side, bytes, o) /\ Send(bytes, o)
  <2>1. Behaves(side, encode(m), Outcome(m)) /\ Send(encode(m), Outcome(m))
    BY <1>1, <1>4, EncodeBehaves, Inductive, Zenon DEF Encode
  <2> QED
    BY <1>2, <1>3, <2>1, Zenon
<1>5. ASSUME NEW m \in OtherVersion, Extended(m)
      PROVE  \E bytes \in Text, o \in Outcomes : Behaves(side, bytes, o) /\ Send(bytes, o)
  <2> DEFINE p == encode_packet(Code(m.type), Append(encode_payload(m), 1))
  <2>1. Behaves(side, p, Outcome(m)) /\ Send(p, Outcome(m))
    BY <1>1, <1>5, ExtendedBehaves, Inductive, Zenon DEF Extended
  <2> HIDE DEF p
  <2> QED
    BY <1>2, <1>3, <2>1, Zenon
<1>6. ASSUME NEW m \in OtherVersion, Truncated(m)
      PROVE  \E bytes \in Text, o \in Outcomes : Behaves(side, bytes, o) /\ Send(bytes, o)
  <2> DEFINE p == encode_packet(Code(m.type), Front(encode_payload(m)))
  <2>1. Behaves(side, p, Bad) /\ Send(p, Bad)
    BY <1>1, <1>6, TruncatedBehaves, Inductive, Zenon DEF Truncated
  <2> HIDE DEF p
  <2> QED
    BY <1>2, <1>3, <2>1, Zenon
<1>7. ASSUME NEW m \in OtherVersion, UnknownType(m)
      PROVE  \E bytes \in Text, o \in Outcomes : Behaves(side, bytes, o) /\ Send(bytes, o)
  <2> DEFINE p == encode_packet(0, encode_payload(m))
  <2>1. Behaves(side, p, Bad) /\ Send(p, Bad)
    BY <1>7, UnknownBehaves, Inductive, Zenon DEF UnknownType
  <2> HIDE DEF p
  <2> QED
    BY <1>2, <1>3, <2>1, Zenon
<1>8. ASSUME OtherMagic
      PROVE  \E bytes \in Text, o \in Outcomes : Behaves(side, bytes, o) /\ Send(bytes, o)
  <2> DEFINE p == [k \in 1..HEADER_LEN |-> 0]
  <2>1. Behaves(side, p, Bad) /\ Send(p, Bad)
    BY <1>8, OtherMagicBehaves, Zenon DEF OtherMagic
  <2> HIDE DEF p
  <2> QED
    BY <1>2, <1>3, <2>1, Zenon
<1> QED
  BY <1>4, <1>5, <1>6, <1>7, <1>8, Zenon DEF Peer

\* The invariant holds in every state (the whole of encode, read and decode).
THEOREM Invariance == Spec => []IInv
<1>1. IInv /\ [Next]_vars => IInv'
  BY PeerSends, NextIInv, Zenon
<1> QED
  BY <1>1, InitIInv, PTL DEF Spec

\* For every connection, whatever messages are sent and however the bytes are split:
\* what decode_packet and decode_*_payload yield is what was sent, in order, up to
\* what the encoder cut.
THEOREM DecodesWhatWasSent == Spec => []DecodedAsSent
  BY SentIsDecoded, Invariance, PTL

\* A complete packet is never left waiting: when decode_packet returns None, no packet
\* in receive_buffer is complete.
THEOREM NothingStuck == Spec => []NoPacketIsStuck
  BY NoneIsStuck, Invariance, PTL

\* The bytes of receive_buffer implement PacketBuffer, the queue of packets that the
\* binary sessions are modelled with: packets are decoded once, in order, only when
\* complete, and an error comes only from a complete packet without a message.
THEOREM BufferRefinement == Spec => ImplementsBuffer
<1>1. Spec => []IInv
  BY Invariance, Zenon
<1>2. IInv /\ IInv' /\ [Next]_vars => [Buffer!Next]_(Buffer!vars)
  BY PeerSends, BufferStep, Zenon
<1> QED
  BY <1>1, <1>2, BufferInit, PTL DEF Spec, ImplementsBuffer, Buffer!Spec
=============================================================================
