----------------------------- MODULE GrpcProofs -----------------------------
(***************************************************************************)
(* Proofs for the gRPC transport (Grpc): what is acknowledged, what        *)
(* is written to the socket and what a subscriber is shown of it.          *)
(***************************************************************************)
EXTENDS Grpc, TLAPS, FiniteSetTheorems

(***************************************************************************)
(* Hexadecimal data.                                                       *)
(***************************************************************************)

\* A filter that everything passes changes nothing.
LEMMA FilterAll ==
    ASSUME NEW S, NEW s \in Seq(S)
    PROVE  filter(s, DOMAIN s) = s
<1> DEFINE n == Len(s)
           R == Earlier(1..n)
<1>1. n \in Nat /\ DOMAIN s = 1..n
  OBVIOUS
<1>2. Cardinality(1..n) = n
  BY <1>1, FS_Interval, SMTT(30)
<1>3. ASSUME NEW p \in 1..n PROVE Cardinality({q \in 1..n : q = p \/ <<q, p>> \in R}) = p
  <2>1. {q \in 1..n : q = p \/ <<q, p>> \in R} = 1..p
    BY DEF Earlier
  <2>2. Cardinality(1..p) = p
    BY FS_Interval
  <2> QED
    BY <2>1, <2>2, Zenon
<1>4. \A j \in 1..n : Nth(1..n, R)[j] = j
  BY <1>2, <1>3, Zenon DEF Nth
<1> HIDE DEF R
<1>5. Listed(s, 1..n, R) = [j \in 1..n |-> s[j]]
  BY <1>2, <1>4, Zenon DEF Listed
<1> QED
  BY <1>1, <1>5 DEF filter, R

Bytes == 0..255

\* No two of the sixteen values share a digit.
LEMMA LutEntries ==
    ASSUME NEW n \in 1..16
    PROVE  /\ DOMAIN LUT = 1..16 /\ DOMAIN Capitals = 1..16
           /\ \A m \in 1..16 : LUT[n] = LUT[m] \/ LUT[n] = Capitals[m] => n = m
  BY DEF LUT, Capitals

\* No digit is a blank.
LEMMA LutBlank == ASSUME NEW n \in 1..16 PROVE LUT[n] # " "
<1>1. LUT[n] \in {"0", "1", "2", "3", "4", "5", "6", "7", "8", "9", "a", "b", "c", "d", "e", "f"}
  BY DEF LUT
<1> QED
  BY <1>1, Zenon

\* Every digit has a value.
LEMMA DigitValue == ASSUME NEW c \in DOMAIN Digits PROVE Digits[c] \in 0..15
<1>1. DOMAIN LUT = 1..16 /\ DOMAIN Capitals = 1..16
  BY DEF LUT, Capitals
<1>2. PICK k \in 1..16 : c \in {LUT[k], Capitals[k]}
  BY <1>1, Zenon DEF Digits, Range
<1>3. k - 1 \in 0..15 /\ (k - 1) + 1 = k
  OBVIOUS
<1>4. \E n \in 0..15 : c \in {LUT[n + 1], Capitals[n + 1]}
  BY <1>2, <1>3, Zenon
<1> QED
  BY <1>4, Zenon DEF Digits

\* The digit of LUT for a value has that value.
LEMMA DigitOf == ASSUME NEW n \in 0..15 PROVE LUT[n + 1] \in DOMAIN Digits /\ Digits[LUT[n + 1]] = n
<1>1. n + 1 \in 1..16 /\ \A m \in 0..15 : m + 1 \in 1..16
  OBVIOUS
<1>2. LUT[n + 1] \in DOMAIN Digits
  BY <1>1, LutEntries, Zenon DEF Digits, Range
<1>3. \A m \in 0..15 : LUT[n + 1] \in {LUT[m + 1], Capitals[m + 1]} => m = n
  BY <1>1, LutEntries
<1> QED
  BY <1>2, <1>3, Zenon DEF Digits

\* An even number is twice its half.
LEMMA Halves ==
    ASSUME NEW m \in Nat, m % 2 = 0
    PROVE  m \div 2 \in Nat /\ m = 2 * (m \div 2)
  OBVIOUS

\* What hex_to_bytes accepts is a list of bytes.
LEMMA HexBytes ==
    ASSUME NEW s \in Seq(STRING)
    PROVE  /\ hex_to_bytes(s).ok \in BOOLEAN
           /\ hex_to_bytes(s).ok => hex_to_bytes(s).data \in Seq(Bytes)
<1> DEFINE P == {k \in DOMAIN s : s[k] # " "}
           t == filter(s, P)
<1>1. Cardinality(P) \in Nat
  <2>1. P \subseteq DOMAIN s
    BY Zenon
  <2> HIDE DEF P
  <2>2. DOMAIN s = 1..Len(s) /\ Len(s) \in Nat
    OBVIOUS
  <2>3. IsFiniteSet(DOMAIN s)
    BY <2>2, FS_Interval
  <2>4. IsFiniteSet(P)
    BY <2>1, <2>3, FS_Subset, Zenon
  <2> QED
    BY <2>4, FS_CardinalityType, Zenon
<1>2. t = [j \in 1..Cardinality(P) |-> s[Nth(P, Earlier(P))[j]]]
  BY Zenon DEF filter, Listed
<1> HIDE DEF P
<1>3. DOMAIN t = 1..Len(t) /\ Len(t) \in Nat
  BY <1>1, <1>2
<1>4. hex_to_bytes(s) = IF Len(t) % 2 = 0 /\ Range(t) \subseteq DOMAIN Digits
        THEN [ok |-> TRUE, data |-> [k \in 1..(Len(t) \div 2) |-> 16 * Digits[t[2 * k - 1]] + Digits[t[2 * k]]]]
        ELSE [ok |-> FALSE, data |-> <<>>]
  BY Zenon DEF hex_to_bytes, P
<1> HIDE DEF t
<1>5. CASE ~(Len(t) % 2 = 0 /\ Range(t) \subseteq DOMAIN Digits)
  BY <1>4, <1>5
<1>6. CASE Len(t) % 2 = 0 /\ Range(t) \subseteq DOMAIN Digits
  <2> DEFINE n == Len(t) \div 2
  <2>1. n \in Nat /\ Len(t) = 2 * n
    BY <1>3, <1>6, Halves, Zenon
  <2>2. ASSUME NEW k \in 1..n PROVE 16 * Digits[t[2 * k - 1]] + Digits[t[2 * k]] \in Bytes
    <3>1. 2 * k - 1 \in DOMAIN t /\ 2 * k \in DOMAIN t
      BY <1>3, <2>1
    <3>2. t[2 * k - 1] \in DOMAIN Digits /\ t[2 * k] \in DOMAIN Digits
      BY <1>6, <3>1, Zenon DEF Range
    <3>3. PICK hi \in 0..15, lo \in 0..15 : hi = Digits[t[2 * k - 1]] /\ lo = Digits[t[2 * k]]
      BY <3>2, DigitValue, Zenon
    <3>4. 16 * hi + lo \in Bytes
      BY DEF Bytes
    <3> QED
      BY <3>3, <3>4, Zenon
  <2>3. hex_to_bytes(s) = [ok |-> TRUE, data |-> [k \in 1..n |-> 16 * Digits[t[2 * k - 1]] + Digits[t[2 * k]]]]
    BY <1>4, <1>6, Zenon
  <2> HIDE DEF n
  <2>4. [k \in 1..n |-> 16 * Digits[t[2 * k - 1]] + Digits[t[2 * k]]] \in Seq(Bytes)
    BY <2>1, <2>2
  <2> QED
    BY <2>3, <2>4
<1> QED
  BY <1>5, <1>6, Zenon

\* The two digits hex_lower writes for a byte are the byte's.
LEMMA LowerDigits ==
    ASSUME NEW b \in Bytes
    PROVE  /\ b \div 16 \in 0..15 /\ b % 16 \in 0..15
           /\ 16 * Digits[LUT[1 + (b \div 16)]] + Digits[LUT[1 + (b % 16)]] = b
<1>1. b \div 16 \in 0..15 /\ b % 16 \in 0..15 /\ 16 * (b \div 16) + (b % 16) = b
  BY DEF Bytes
<1>2. \A n \in 0..15 : 1 + n = n + 1
  OBVIOUS
<1>3. Digits[LUT[1 + (b \div 16)]] = b \div 16 /\ Digits[LUT[1 + (b % 16)]] = b % 16
  BY <1>1, <1>2, DigitOf, Zenon
<1> QED
  BY <1>1, <1>3, Zenon

\* What hex_lower writes, hex_to_bytes reads back.
LEMMA HexRoundTrip ==
    ASSUME NEW data \in Seq(Bytes)
    PROVE  /\ hex_lower(data) \in Seq(Range(LUT))
           /\ hex_to_bytes(hex_lower(data)) = [ok |-> TRUE, data |-> data]
<1> DEFINE n == Len(data)
           h == hex_lower(data)
<1>1. n \in Nat /\ DOMAIN data = 1..n /\ \A k \in 1..n : data[k] \in Bytes
  OBVIOUS
<1> HIDE DEF n
<1>2. h = [k \in 1..(2 * n) |-> LUT[1 + (IF k % 2 = 1 THEN data[(k + 1) \div 2] \div 16 ELSE data[k \div 2] % 16)]]
  BY Zenon DEF hex_lower, n
<1> HIDE DEF h
<1>3. ASSUME NEW k \in 1..(2 * n) PROVE \E d \in 0..15 : h[k] = LUT[1 + d]
  <2>1. CASE k % 2 = 1
    <3>1. (k + 1) \div 2 \in 1..n
      BY <1>1, <2>1
    <3> QED
      BY <1>1, <1>2, <2>1, <3>1, LowerDigits, Zenon
  <2>2. CASE k % 2 # 1
    <3>1. k \div 2 \in 1..n
      BY <1>1, <2>2
    <3> QED
      BY <1>1, <1>2, <2>2, <3>1, LowerDigits, Zenon
  <2> QED
    BY <2>1, <2>2, Zenon
<1>4. ASSUME NEW k \in 1..(2 * n) PROVE h[k] \in Range(LUT) /\ h[k] # " " /\ h[k] \in DOMAIN Digits
  <2>1. PICK d \in 0..15 : h[k] = LUT[1 + d]
    BY <1>3, Zenon
  <2>2. 1 + d \in 1..16
    OBVIOUS
  <2> QED
    BY <2>1, <2>2, LutEntries, LutBlank, Zenon DEF Digits, Range
<1>5. PICK D : D = Range(LUT)
  BY Zenon
<1>6. h \in Seq(D) /\ Len(h) = 2 * n /\ DOMAIN h = 1..(2 * n)
  <2>1. \A k \in 1..(2 * n) : h[k] \in D
    BY <1>4, <1>5, Zenon
  <2> QED
    BY <1>1, <1>2, <2>1
<1>7. h \in Seq(Range(LUT)) /\ Len(h) = 2 * n /\ DOMAIN h = 1..(2 * n)
  BY <1>5, <1>6, Zenon
<1>8. {k \in DOMAIN h : h[k] # " "} = DOMAIN h
  BY <1>4, <1>7, Zenon
<1>9. filter(h, {k \in DOMAIN h : h[k] # " "}) = h
  BY <1>7, <1>8, FilterAll, Zenon
<1>10. Range(h) \subseteq DOMAIN Digits
  BY <1>4, <1>7, Zenon DEF Range
<1>11. (2 * n) % 2 = 0 /\ (2 * n) \div 2 = n
  BY <1>1
<1>12. hex_to_bytes(h) = [ok |-> TRUE, data |-> [k \in 1..n |-> 16 * Digits[h[2 * k - 1]] + Digits[h[2 * k]]]]
  BY <1>7, <1>9, <1>10, <1>11, Zenon DEF hex_to_bytes
<1>13. ASSUME NEW k \in 1..n PROVE 16 * Digits[h[2 * k - 1]] + Digits[h[2 * k]] = data[k]
  <2>1. 2 * k - 1 \in 1..(2 * n) /\ (2 * k - 1) % 2 = 1 /\ ((2 * k - 1) + 1) \div 2 = k
    BY <1>1
  <2>2. 2 * k \in 1..(2 * n) /\ (2 * k) % 2 # 1 /\ (2 * k) \div 2 = k
    BY <1>1
  <2>3. h[2 * k - 1] = LUT[1 + (data[k] \div 16)]
    BY <1>2, <2>1, Zenon
  <2>4. h[2 * k] = LUT[1 + (data[k] % 16)]
    BY <1>2, <2>2, Zenon
  <2> QED
    BY <1>1, <2>3, <2>4, LowerDigits, Zenon
<1>14. [k \in 1..n |-> 16 * Digits[h[2 * k - 1]] + Digits[h[2 * k]]] = data
  BY <1>1, <1>13
<1> QED
  BY <1>7, <1>12, <1>14, Zenon DEF h

(***************************************************************************)
(* Calls, jobs and what is written.                                        *)
(***************************************************************************)

CallStates == {"new", "list", "can_tx", "returned", "dropped"}
Answers    == {"none", "HelloAck", "PingResp", "IfacesResp", "Internal", "SendAckOk", "SendAckErr"}
JobStates  == {"none", "queued", "sent", "refused"}
CallRec    == [st : CallStates, of : Requests \cup {NoReq}, data : Seq(Bytes), resp : Answers]
FrameRec   == [iface : Ifaces, id : Nat, ext : BOOLEAN, is_fd : BOOLEAN, brs : BOOLEAN, esi : BOOLEAN,
               data : Seq(Bytes)]

BusRec     == [call : Calls, frame : FrameRec]

CallsTypeOK ==
    /\ calls \in [Calls -> CallRec]
    /\ job \in [Calls -> JobStates]
    /\ written \in Seq(BusRec)
    /\ echoed \subseteq Calls

IsSend(k) == calls[k].of \in {SendFrame(req) : req \in SendFrameReqs}

\* A job belongs to a send; an answered send has the answer of its finished job;
\* the echoed calls are those acknowledged.
JobsMatchCalls ==
    \A k \in Calls :
        /\ calls[k].st \in {"new", "list"} => job[k] = "none"
        /\ calls[k].st = "can_tx" => job[k] # "none"
        /\ job[k] # "none" => IsSend(k)
        /\ calls[k].st = "returned" => job[k] # "queued" /\ (calls[k].resp = "SendAckOk" <=> job[k] = "sent")
        /\ k \in echoed <=> calls[k].st = "returned" /\ calls[k].resp = "SendAckOk"

\* What was written: the frames of the jobs that sent, as requested.
BusMatchesJobs ==
    /\ \A k \in Calls : job[k] = "sent" <=> \E j \in DOMAIN written : written[j].call = k
    /\ \A j \in DOMAIN written :
          LET c == calls[written[j].call]
          IN  written[j].frame = CanFrame(c.of.req, c.data)

CallInv == CallsTypeOK /\ JobsMatchCalls /\ BusMatchesJobs

\* The request of a send is typed.
LEMMA SendReq ==
    ASSUME NEW of \in {SendFrame(req) : req \in SendFrameReqs}
    PROVE  /\ of.req \in SendFrameReqs /\ of.kind = "send_frame" /\ of \in Requests
           /\ of.req \in [iface : Ifaces, id : Nat, is_fd : BOOLEAN, brs : BOOLEAN, esi : BOOLEAN, data_hex : Seq(STRING)]
<1>1. PICK req \in SendFrameReqs : of = SendFrame(req)
  BY Zenon
<1>2. of.req = req /\ of.kind = "send_frame"
  BY <1>1, Zenon DEF SendFrame
<1> QED
  BY <1>2, GrpcAssumption, Zenon DEF Requests

\* A request that is a send is one of the sends.
LEMMA KindOfSend ==
    ASSUME NEW of \in Requests, of.kind = "send_frame"
    PROVE  of \in {SendFrame(req) : req \in SendFrameReqs}
  BY DEF Requests

\* The frame built from the request of a send is typed.
LEMMA CanFrameType ==
    ASSUME NEW k \in Calls, CallsTypeOK, IsSend(k)
    PROVE  CanFrame(calls[k].of.req, calls[k].data) \in FrameRec
<1>1. calls[k].data \in Seq(Bytes)
  BY Zenon DEF CallsTypeOK, CallRec
<1>2. calls[k].of.req \in [iface : Ifaces, id : Nat, is_fd : BOOLEAN, brs : BOOLEAN, esi : BOOLEAN,
                           data_hex : Seq(STRING)]
  BY SendReq, Zenon DEF IsSend
<1> QED
  BY <1>1, <1>2, GrpcAssumption DEF CanFrame, FrameRec

\* How a call begins.
Begun(k, of, st, resp) ==
    calls' = [calls EXCEPT ![k] = [st |-> st, of |-> of, data |-> <<>>, resp |-> resp]] /\ job' = job

\* What the first step of a call may leave behind: an answer, a list call at its
\* await, or a send with the bytes of its hex text and a job.
LEMMA StartCases ==
    ASSUME NEW k \in Calls, NEW of \in Requests, start(k, of), CallInv
    PROVE  \/ \E resp \in {"HelloAck", "PingResp", "SendAckErr"} : Begun(k, of, "returned", resp)
           \/ Begun(k, of, "list", "none")
           \/ /\ of \in {SendFrame(req) : req \in SendFrameReqs}
              /\ \E data \in Seq(Bytes) :
                    calls' = [calls EXCEPT ![k] = [st |-> "can_tx", of |-> of, data |-> data, resp |-> "none"]]
              /\ job' = [job EXCEPT ![k] = "queued"]
<1>1. CASE of.kind = "hello"
  BY <1>1, Zenon DEF start, Begun
<1>2. CASE of.kind = "ping"
  BY <1>2, Zenon DEF start, Begun
<1>3. CASE of.kind = "list_ifaces"
  BY <1>3, Zenon DEF start, Begun
<1>4. CASE of.kind = "send_frame" /\ ~hex_to_bytes(of.req.data_hex).ok
  BY <1>4, Zenon DEF start, Begun
<1>5. CASE of.kind = "send_frame" /\ hex_to_bytes(of.req.data_hex).ok
  <2>1. of \in {SendFrame(req) : req \in SendFrameReqs}
    BY <1>5, KindOfSend, Zenon
  <2>2. hex_to_bytes(of.req.data_hex).data \in Seq(Bytes)
    <3>1. of.req.data_hex \in Seq(STRING)
      BY <2>1, SendReq, Zenon
    <3> QED
      BY <1>5, <3>1, HexBytes, Zenon
  <2>3. /\ calls' = [calls EXCEPT ![k] = [st |-> "can_tx", of |-> of, data |-> hex_to_bytes(of.req.data_hex).data,
                                          resp |-> "none"]]
        /\ job' = [job EXCEPT ![k] = "queued"]
    BY <1>5, Zenon DEF start
  <2> QED
    BY <2>1, <2>2, <2>3, Zenon
<1>6. of.kind \in {"hello", "ping", "list_ifaces", "send_frame"}
  BY DEF Requests, SendFrame
<1> QED
  BY <1>1, <1>2, <1>3, <1>4, <1>5, <1>6, Zenon

\* What a call was asked stays when it is answered or dropped.
LEMMA AwaitShape ==
    ASSUME CallsTypeOK, NEW k \in Calls, NEW st \in CallStates, Await(k, st)
    PROVE  /\ calls' \in [Calls -> CallRec]
           /\ calls'[k].st = st /\ calls'[k].resp = calls[k].resp
           /\ \A j \in Calls : calls'[j].of = calls[j].of /\ calls'[j].data = calls[j].data
           /\ \A j \in Calls : j # k => calls'[j] = calls[j]
<1>1. calls' = [calls EXCEPT ![k] = [calls[k] EXCEPT !.st = st]]
  BY Zenon DEF Await
<1>2. calls \in [Calls -> CallRec]
  BY Zenon DEF CallsTypeOK
<1>3. calls[k] \in CallRec
  BY <1>2, Zenon
<1> DEFINE c == [calls[k] EXCEPT !.st = st]
<1>4. c \in CallRec /\ c.st = st /\ c.resp = calls[k].resp /\ c.of = calls[k].of /\ c.data = calls[k].data
  BY <1>3, Zenon DEF CallRec
<1> HIDE DEF c
<1>5. calls' = [calls EXCEPT ![k] = c]
  BY <1>1, Zenon DEF c
<1> QED
  BY <1>2, <1>4, <1>5, Zenon

\* An answer changes the state and the answer of its call, and nothing else.
LEMMA RespondShape ==
    ASSUME CallsTypeOK, NEW k \in Calls, NEW resp \in Answers, Respond(k, resp)
    PROVE  /\ calls' \in [Calls -> CallRec]
           /\ calls'[k].st = "returned" /\ calls'[k].resp = resp
           /\ \A j \in Calls : calls'[j].of = calls[j].of /\ calls'[j].data = calls[j].data
           /\ \A j \in Calls : j # k => calls'[j] = calls[j]
<1> DEFINE d == [calls[k] EXCEPT !.st = "returned"]
           c == [d EXCEPT !.resp = resp]
<1>1. calls \in [Calls -> CallRec]
  BY Zenon DEF CallsTypeOK
<1>2. calls[k] \in CallRec
  BY <1>1, Zenon
<1>3. d \in CallRec /\ d.st = "returned" /\ d.of = calls[k].of /\ d.data = calls[k].data
  BY <1>2, Zenon DEF CallRec, CallStates
<1>4. calls' = [calls EXCEPT ![k] = c]
  BY <1>1, Zenon DEF Respond
<1> HIDE DEF d
<1>5. c \in CallRec /\ c.st = "returned" /\ c.resp = resp /\ c.of = calls[k].of /\ c.data = calls[k].data
  BY <1>3, Zenon DEF CallRec
<1> HIDE DEF c
<1> QED
  BY <1>1, <1>4, <1>5, Zenon

\* A frame written belongs to a call and is typed.
LEMMA WrittenTypes ==
    ASSUME CallsTypeOK, NEW j \in DOMAIN written
    PROVE  written[j].call \in Calls /\ written[j].frame \in FrameRec
<1>1. written[j] \in BusRec
  BY DEF CallsTypeOK
<1> QED
  BY <1>1, Zenon DEF BusRec

\* What was written is unaffected by a step of a call that wrote nothing, or
\* keeps its data.
LEMMA BusKept ==
    ASSUME BusMatchesJobs, CallsTypeOK, written' = written, \A k \in Calls : job'[k] = "sent" <=> job[k] = "sent",
           \A k \in Calls : job[k] = "sent" => calls'[k].of = calls[k].of /\ calls'[k].data = calls[k].data
    PROVE  BusMatchesJobs'
<1>1. \A j \in DOMAIN written : written[j].call \in Calls
  BY WrittenTypes, Zenon
<1>2. \A j \in DOMAIN written : job[written[j].call] = "sent"
  BY <1>1, Zenon DEF BusMatchesJobs
<1> QED
  BY <1>1, <1>2 DEF BusMatchesJobs

\* The first step of a call keeps CallInv.
LEMMA StartKeeps ==
    ASSUME CallInv, NEW k \in Calls, NEW of \in Requests, start(k, of)
    PROVE  CallInv'
<1> USE DEF CallInv
<1>0. calls \in [Calls -> CallRec] /\ job \in [Calls -> JobStates]
  BY Zenon DEF CallsTypeOK
<1>1. calls[k].st = "new" /\ job[k] = "none" /\ k \notin echoed /\ written' = written /\ echoed' = echoed
  BY Zenon DEF start, JobsMatchCalls
<1>2. <<>> \in Seq(Bytes)
  OBVIOUS
<1>3. ASSUME NEW c \in CallRec, calls' = [calls EXCEPT ![k] = c], c.of = of,
             c.st \in {"list", "returned"}, c.resp # "SendAckOk", job' = job
      PROVE  CallInv'
  <2>1. CallsTypeOK'
    BY <1>0, <1>1, <1>3, Zenon DEF CallsTypeOK
  <2>2. JobsMatchCalls'
    BY <1>0, <1>1, <1>3, Zenon DEF JobsMatchCalls, IsSend
  <2>3. BusMatchesJobs'
    BY <1>0, <1>1, <1>3, BusKept, Zenon
  <2> QED
    BY <2>1, <2>2, <2>3, Zenon
<1>4. ASSUME NEW data \in Seq(Bytes), of \in {SendFrame(req) : req \in SendFrameReqs},
             calls' = [calls EXCEPT ![k] = [st |-> "can_tx", of |-> of, data |-> data, resp |-> "none"]],
             job' = [job EXCEPT ![k] = "queued"]
      PROVE  CallInv'
  <2> DEFINE c == [st |-> "can_tx", of |-> of, data |-> data, resp |-> "none"]
  <2>0. c \in CallRec /\ c.of = of /\ c.st = "can_tx" /\ c.resp = "none"
    BY Zenon DEF CallRec, CallStates, Answers
  <2>00. calls' = [calls EXCEPT ![k] = c]
    BY <1>4, Zenon
  <2> HIDE DEF c
  <2>1. CallsTypeOK'
    BY <1>0, <1>1, <1>4, <2>0, <2>00 DEF CallsTypeOK, JobStates
  <2>2. JobsMatchCalls'
    BY <1>0, <1>1, <1>4, <2>0, <2>00 DEF JobsMatchCalls, IsSend
  <2>3. BusMatchesJobs'
    BY <1>0, <1>1, <1>4, <2>0, <2>00, BusKept, Zenon
  <2> QED
    BY <2>1, <2>2, <2>3, Zenon
<1>5. ASSUME NEW resp \in {"HelloAck", "PingResp", "SendAckErr"}, Begun(k, of, "returned", resp) PROVE CallInv'
  <2> DEFINE c == [st |-> "returned", of |-> of, data |-> <<>>, resp |-> resp]
  <2>1. c \in CallRec /\ c.of = of /\ c.st = "returned" /\ c.resp # "SendAckOk"
    BY <1>2, Zenon DEF CallRec, CallStates, Answers
  <2>2. calls' = [calls EXCEPT ![k] = c] /\ job' = job
    BY <1>5, Zenon DEF Begun
  <2> HIDE DEF c
  <2> QED
    BY <1>3, <2>1, <2>2, Zenon
<1>6. CASE Begun(k, of, "list", "none")
  <2> DEFINE c == [st |-> "list", of |-> of, data |-> <<>>, resp |-> "none"]
  <2>1. c \in CallRec /\ c.of = of /\ c.st = "list" /\ c.resp # "SendAckOk"
    BY <1>2, Zenon DEF CallRec, CallStates, Answers
  <2>2. calls' = [calls EXCEPT ![k] = c] /\ job' = job
    BY <1>6, Zenon DEF Begun
  <2> HIDE DEF c
  <2> QED
    BY <1>3, <2>1, <2>2, Zenon
<1> QED
  BY <1>4, <1>5, <1>6, StartCases

\* The thread writes the frame: it is the one requested.
LEMMA SendKeeps ==
    ASSUME CallInv, NEW k \in Calls, send_blocking_ok(k)
    PROVE  CallInv'
<1> USE DEF CallInv
<1> DEFINE f == CanFrame(calls[k].of.req, calls[k].data)
           b == [call |-> k, frame |-> f]
<1>1. /\ job[k] = "queued" /\ job' = [job EXCEPT ![k] = "sent"] /\ written' = Append(written, b)
      /\ calls' = calls /\ echoed' = echoed
  BY Zenon DEF send_blocking_ok
<1>2. IsSend(k) /\ k \notin echoed /\ calls[k].st # "returned"
  BY <1>1, Zenon DEF JobsMatchCalls
<1>3. b \in BusRec
  BY <1>2, CanFrameType, Zenon DEF BusRec
<1>4. b.call = k /\ b.frame = f
  BY Zenon
<1>5. written \in Seq(BusRec) /\ job \in [Calls -> JobStates]
  BY Zenon DEF CallsTypeOK
<1> HIDE DEF b
<1>6. /\ written' \in Seq(BusRec)
      /\ DOMAIN written' = 1..(Len(written) + 1) /\ DOMAIN written = 1..Len(written) /\ Len(written) \in Nat
      /\ written'[Len(written) + 1] = b /\ \A j \in 1..Len(written) : written'[j] = written[j]
  BY <1>1, <1>3, <1>5
<1>7. CallsTypeOK'
  BY <1>1, <1>5, <1>6, Zenon DEF CallsTypeOK, JobStates
<1>8. JobsMatchCalls'
  BY <1>1, <1>2, <1>5, Zenon DEF JobsMatchCalls, IsSend
<1>9. BusMatchesJobs'
  <2>1. ASSUME NEW c \in Calls PROVE job'[c] = "sent" <=> \E j \in DOMAIN written' : written'[j].call = c
    <3>1. CASE c = k
      BY <1>1, <1>4, <1>5, <1>6, <3>1
    <3>2. CASE c # k
      <4>1. job'[c] = job[c]
        BY <1>1, <1>5, <3>2, Zenon
      <4>2. (\E j \in DOMAIN written' : written'[j].call = c) <=> \E j \in DOMAIN written : written[j].call = c
        BY <1>4, <1>6, <3>2
      <4> QED
        BY <4>1, <4>2, Zenon DEF BusMatchesJobs
    <3> QED
      BY <3>1, <3>2, Zenon
  <2>2. ASSUME NEW j \in DOMAIN written'
        PROVE  written'[j].frame = CanFrame(calls'[written'[j].call].of.req, calls'[written'[j].call].data)
    <3>1. CASE j \in 1..Len(written)
      BY <1>1, <1>6, <3>1, SMTT(30) DEF BusMatchesJobs
    <3>2. CASE j = Len(written) + 1
      BY <1>1, <1>4, <1>6, <3>2, Zenon DEF f
    <3> QED
      BY <1>6, <3>1, <3>2
  <2> QED
    BY <2>1, <2>2, Zenon DEF BusMatchesJobs
<1> QED
  BY <1>7, <1>8, <1>9, Zenon

\* A job that refuses its frame, or fails to write it, keeps CallInv.
LEMMA RefuseKeeps ==
    ASSUME CallInv, NEW k \in Calls, send_blocking_err(k)
    PROVE  CallInv'
<1> USE DEF CallInv
<1>1. /\ job[k] = "queued" /\ job' = [job EXCEPT ![k] = "refused"] /\ written' = written
      /\ calls' = calls /\ echoed' = echoed
  BY Zenon DEF send_blocking_err
<1>2. job \in [Calls -> JobStates]
  BY Zenon DEF CallsTypeOK
<1>3. CallsTypeOK'
  BY <1>1, <1>2, Zenon DEF CallsTypeOK, JobStates
<1>4. JobsMatchCalls'
  BY <1>1, <1>2, Zenon DEF JobsMatchCalls, IsSend
<1>5. BusMatchesJobs'
  BY <1>1, <1>2, BusKept, Zenon
<1> QED
  BY <1>3, <1>4, <1>5, Zenon

\* Answers and dropped calls.
LEMMA AnswerKeeps ==
    ASSUME CallInv, NEW k \in Calls, list_ifaces(k) \/ send_frame_ok(k) \/ send_frame_err(k) \/ drop_call(k)
    PROVE  CallInv'
<1> USE DEF CallInv
<1>0. calls \in [Calls -> CallRec] /\ echoed \subseteq Calls
  BY Zenon DEF CallsTypeOK
<1>1. job' = job /\ written' = written
  BY Zenon DEF list_ifaces, send_frame_ok, send_frame_err, drop_call
<1>2. CASE list_ifaces(k)
  <2>1. PICK resp \in {"IfacesResp", "Internal"} : Respond(k, resp)
    BY <1>2, Zenon DEF list_ifaces
  <2>2. calls[k].st = "list" /\ echoed' = echoed /\ resp \in Answers /\ resp # "SendAckOk"
    BY <1>2, Zenon DEF list_ifaces, Answers
  <2>3. CallsTypeOK'
    BY <1>1, <2>1, <2>2, RespondShape, Zenon DEF CallsTypeOK
  <2>4. JobsMatchCalls'
    BY <1>1, <2>1, <2>2, RespondShape DEF JobsMatchCalls, IsSend
  <2>5. BusMatchesJobs'
    BY <1>1, <2>1, <2>2, RespondShape, BusKept, Zenon
  <2> QED
    BY <2>3, <2>4, <2>5, Zenon
<1>3. CASE send_frame_ok(k)
  <2>1. /\ calls[k].st = "can_tx" /\ job[k] = "sent" /\ echoed' = echoed \cup {k}
        /\ Respond(k, "SendAckOk") /\ "SendAckOk" \in Answers
    BY <1>3, Zenon DEF send_frame_ok, Answers
  <2>3. CallsTypeOK'
    BY <1>0, <1>1, <2>1, RespondShape, Zenon DEF CallsTypeOK
  <2>4. JobsMatchCalls'
    BY <1>1, <2>1, RespondShape DEF JobsMatchCalls, IsSend
  <2>5. BusMatchesJobs'
    BY <1>1, <2>1, RespondShape, BusKept, Zenon
  <2> QED
    BY <2>3, <2>4, <2>5, Zenon
<1>4. CASE send_frame_err(k)
  <2>1. /\ calls[k].st = "can_tx" /\ job[k] = "refused" /\ echoed' = echoed
        /\ Respond(k, "SendAckErr") /\ "SendAckErr" \in Answers
    BY <1>4, Zenon DEF send_frame_err, Answers
  <2>3. CallsTypeOK'
    BY <1>1, <2>1, RespondShape, Zenon DEF CallsTypeOK
  <2>4. JobsMatchCalls'
    BY <1>1, <2>1, RespondShape DEF JobsMatchCalls, IsSend
  <2>5. BusMatchesJobs'
    BY <1>1, <2>1, RespondShape, BusKept, Zenon
  <2> QED
    BY <2>3, <2>4, <2>5, Zenon
<1>5. CASE drop_call(k)
  <2>1. /\ calls[k].st \in {"list", "can_tx"} /\ echoed' = echoed
        /\ Await(k, "dropped") /\ "dropped" \in CallStates
    BY <1>5, Zenon DEF drop_call, CallStates
  <2>3. CallsTypeOK'
    BY <1>1, <2>1, AwaitShape, Zenon DEF CallsTypeOK
  <2>4. JobsMatchCalls'
    BY <1>1, <2>1, AwaitShape DEF JobsMatchCalls, IsSend
  <2>5. BusMatchesJobs'
    BY <1>1, <2>1, AwaitShape, BusKept, Zenon
  <2> QED
    BY <2>3, <2>4, <2>5, Zenon
<1> QED
  BY <1>2, <1>3, <1>4, <1>5, Zenon

\* The stream and other publishers leave calls alone.
LEMMA CallInvStep == CallInv /\ [Next]_vars => CallInv'
<1> SUFFICES ASSUME CallInv, [Next]_vars PROVE CallInv'
  BY Zenon
<1>1. CASE UNCHANGED callVars
  BY <1>1 DEF CallInv, CallsTypeOK, JobsMatchCalls, BusMatchesJobs, IsSend, callVars
<1>2. Next => \/ \E k \in Calls : Step(k) \/ Job(k) \/ drop_call(k) \/ \E of \in Requests : start(k, of)
              \/ UNCHANGED callVars
  BY Zenon DEF Next, subscribe, Poll, poll_event, poll_lagged, drop_stream, publish_other
<1>3. UNCHANGED vars => UNCHANGED callVars
  BY Zenon DEF vars, callVars
<1> QED
  BY <1>1, <1>2, <1>3, StartKeeps, SendKeeps, RefuseKeeps, AnswerKeeps, Zenon DEF Step, Job

\* CallInv holds before any call.
LEMMA CallInvInit == Init => CallInv
<1> SUFFICES ASSUME Init PROVE CallInv
  BY Zenon
<1>1. New \in CallRec /\ New.st = "new" /\ New.resp = "none"
  <2>1. <<>> \in Seq(Bytes)
    OBVIOUS
  <2> QED
    BY <2>1, Zenon DEF New, CallRec, CallStates, Answers
<1>2. CallsTypeOK
  BY <1>1 DEF Init, CallsTypeOK, JobStates
<1>3. JobsMatchCalls
  BY <1>1, Zenon DEF Init, JobsMatchCalls
<1>4. BusMatchesJobs
  BY DEF Init, BusMatchesJobs
<1> QED
  BY <1>2, <1>3, <1>4, Zenon DEF CallInv

\* SendAck { ok: true } is answered exactly when write_frame returned Ok for the
\* frame of the call, however calls, blocking threads and cancellations
\* interleave (send_frame, BridgeService::handle, send_blocking).
THEOREM GrpcAcksAreTrue == Spec => []AcksAreTrue
<1>1. CallInv => AcksAreTrue
  BY DEF CallInv, JobsMatchCalls, BusMatchesJobs, AcksAreTrue
<1> QED
  BY <1>1, CallInvInit, CallInvStep, PTL DEF Spec

\* A frame written whose call was answered was published before the answer
\* (BridgeService::handle).
THEOREM GrpcSilentOnlyIfDropped == Spec => []SilentOnlyIfDropped
<1>1. CallInv => SilentOnlyIfDropped
  <2> SUFFICES ASSUME CallInv, NEW j \in DOMAIN written
               PROVE  written[j].call \in echoed \/ calls[written[j].call].st \in {"can_tx", "dropped"}
    BY Zenon DEF SilentOnlyIfDropped
  <2> DEFINE k == written[j].call
  <2>1. k \in Calls
    BY WrittenTypes, Zenon DEF CallInv
  <2>2. job[k] = "sent"
    BY <2>1, Zenon DEF CallInv, BusMatchesJobs
  <2>3. calls[k].st \in CallStates
    <3>1. calls[k] \in CallRec
      BY <2>1, Zenon DEF CallInv, CallsTypeOK
    <3> QED
      BY <3>1, Zenon DEF CallRec
  <2> HIDE DEF k
  <2>4. k \in echoed \/ calls[k].st \in {"can_tx", "dropped"}
    BY <2>1, <2>2, <2>3, Zenon DEF CallInv, JobsMatchCalls, CallStates
  <2> QED
    BY <2>4, Zenon DEF k
<1> QED
  BY <1>1, CallInvInit, CallInvStep, PTL DEF Spec

(***************************************************************************)
(* What a subscriber is shown.                                             *)
(***************************************************************************)

TxEvents == [dir : {"tx"}, id : Nat, is_fd : BOOLEAN, data : Seq(Bytes)]
EventRec == [iface : Ifaces, cls : Classes \cup TxEvents, n : Nat]
ShownRec == [iface : Ifaces, dir : {"tx"}, id : Nat, is_fd : BOOLEAN, data_hex : Seq(Range(LUT))]

StreamTypeOK ==
    /\ unread \in Seq(EventRec) /\ shown \in Seq(ShownRec)
    /\ published \in Nat

\* The event published for call k, and the message a subscriber gets for it.
EventOf(k) == TxEvent(calls[k].of.req, calls[k].data)
Display(k) ==
    [iface |-> calls[k].of.req.iface, dir |-> "tx", id |-> calls[k].of.req.id, is_fd |-> calls[k].of.req.is_fd,
     data_hex |-> hex_lower(calls[k].data)]

IsTx(p)       == unread[p].cls.dir = "tx"
Carries(p, k) == unread[p].iface = calls[k].of.req.iface /\ unread[p].cls = EventOf(k)

\* at says where the event of each call is: waiting at a position of unread,
\* shown (minus its position), or lost (0).  Every Tx event that waits or was
\* shown is the event of an echoed call, with its data.
Located(at) ==
    /\ \A p \in DOMAIN unread : IsTx(p) => \E k \in echoed : at[k] = p /\ Carries(p, k)
    /\ \A q \in DOMAIN shown : \E k \in echoed : at[k] = -q /\ shown[q] = Display(k)

SourcesInv == \E at \in [Calls -> Int] : Located(at)

\* The data of echoed calls stay.
DataKept == echoed \subseteq echoed' /\ \A k \in echoed : calls'[k].of = calls[k].of /\ calls'[k].data = calls[k].data

\* A step that moves no event and keeps the data of echoed calls keeps the
\* sources of events.
LEMMA SourcesKept ==
    ASSUME SourcesInv, UNCHANGED <<unread, shown>>, DataKept
    PROVE  SourcesInv'
<1>1. PICK at \in [Calls -> Int] : Located(at)
  BY Zenon DEF SourcesInv
<1>2. \A k \in echoed : EventOf(k)' = EventOf(k) /\ Display(k)' = Display(k)
  BY Zenon DEF EventOf, Display, DataKept
<1>3. Located(at)'
  BY <1>1, <1>2 DEF Located, IsTx, Carries, DataKept
<1> QED
  BY <1>1, <1>3, Zenon DEF SourcesInv

\* The event is the newest of L events; the d oldest are dropped.
Pushed(i, c, d, L) ==
    /\ DOMAIN unread' = 1..L /\ unread'[L].iface = i /\ unread'[L].cls = c
    /\ \A p \in 1..L : p # L => p + d \in DOMAIN unread /\ unread'[p] = unread[p + d]

\* What a publication does to the events that wait: it may drop the oldest.
LEMMA PublishShape ==
    ASSUME StreamTypeOK, NEW i, NEW c, publish_frame(i, c), [iface |-> i, cls |-> c, n |-> NextStamp] \in EventRec
    PROVE  /\ unread' \in Seq(EventRec) /\ published' = NextStamp
           /\ \/ unread' = unread
              \/ \E d \in {0, 1}, L \in Nat : Pushed(i, c, d, L)
<1> DEFINE ev == [iface |-> i, cls |-> c, n |-> NextStamp]
<1>1. unread \in Seq(EventRec) /\ ev \in EventRec /\ ev.iface = i /\ ev.cls = c
  BY Zenon DEF StreamTypeOK
<1>2. ~(Len(unread) < Cap) => unread # <<>>
  BY <1>1, BusAssumption
<1>3. /\ published' = NextStamp
      /\ \/ unread' = unread \/ unread' = Append(unread, ev)
         \/ unread # <<>> /\ unread' = Append(Tail(unread), ev)
  BY <1>2, Zenon DEF publish_frame, broadcast_send
<1> HIDE DEF ev
<1>4. CASE unread' = Append(unread, ev)
  <2> DEFINE L == Len(unread) + 1
  <2>1. /\ unread' \in Seq(EventRec) /\ L \in Nat /\ DOMAIN unread' = 1..L /\ unread'[L] = ev
        /\ \A p \in 1..L : p # L => p + 0 \in DOMAIN unread /\ unread'[p] = unread[p + 0]
    BY <1>1, <1>4
  <2> QED
    BY <1>1, <1>3, <2>1, Zenon DEF Pushed
<1>5. CASE unread # <<>> /\ unread' = Append(Tail(unread), ev)
  <2> DEFINE L == Len(unread)
  <2>1. /\ unread' \in Seq(EventRec) /\ L \in Nat /\ DOMAIN unread' = 1..L /\ unread'[L] = ev
        /\ \A p \in 1..L : p # L => p + 1 \in DOMAIN unread /\ unread'[p] = unread[p + 1]
    BY <1>1, <1>5
  <2> QED
    BY <1>1, <1>3, <2>1, SMTT(30) DEF Pushed
<1> QED
  BY <1>1, <1>3, <1>4, <1>5, Zenon

\* A new event that says "tx" has a source whose event is nowhere yet.
LEMMA PublishSources ==
    ASSUME StreamTypeOK, SourcesInv, NEW i, NEW c, publish_frame(i, c),
           [iface |-> i, cls |-> c, n |-> NextStamp] \in EventRec,
           shown' = shown, DataKept, NEW src,
           c.dir = "tx" => /\ src \in echoed' /\ src \notin echoed
                           /\ i = calls'[src].of.req.iface /\ c = EventOf(src)',
           echoed' \subseteq Calls
    PROVE  SourcesInv'
<1>1. CASE unread' = unread
  BY <1>1, SourcesKept, Zenon
<1>2. CASE unread' # unread
  <2>0. PICK d \in {0, 1}, L \in Nat : Pushed(i, c, d, L)
    BY <1>2, PublishShape, Zenon
  <2>1. /\ DOMAIN unread' = 1..L /\ unread'[L].iface = i /\ unread'[L].cls = c
        /\ \A p \in 1..L : p # L => p + d \in DOMAIN unread /\ unread'[p] = unread[p + d]
    BY <2>0, Zenon DEF Pushed
  <2>2. PICK at \in [Calls -> Int] : Located(at)
    BY Zenon DEF SourcesInv
  <2>3. PICK to : to = [k \in Calls |-> IF c.dir = "tx" /\ k = src THEN L ELSE IF at[k] > 0 THEN at[k] - d ELSE at[k]]
    BY Zenon
  <2>4. \A k \in echoed : /\ k \in echoed' /\ to[k] = (IF at[k] > 0 THEN at[k] - d ELSE at[k])
                          /\ EventOf(k)' = EventOf(k) /\ Display(k)' = Display(k)
                          /\ calls'[k].of.req.iface = calls[k].of.req.iface
    BY <2>3, Zenon DEF EventOf, Display, DataKept
  <2>5. ASSUME NEW p \in 1..L, IsTx(p)' PROVE \E k \in echoed' : to[k] = p /\ Carries(p, k)'
    <3>1. CASE p = L
      BY <2>1, <2>3, <2>5, <3>1, Zenon DEF IsTx, Carries
    <3>2. CASE p # L
      <4>1. PICK k \in echoed : at[k] = p + d /\ Carries(p + d, k)
        BY <2>1, <2>2, <2>5, <3>2, Zenon DEF IsTx, Located
      <4>2. to[k] = p /\ Carries(p, k)'
        BY <2>1, <2>4, <3>2, <4>1 DEF Carries
      <4> QED
        BY <2>4, <4>2, Zenon
    <3> QED
      BY <3>1, <3>2, Zenon
  <2>6. ASSUME NEW q \in DOMAIN shown PROVE \E k \in echoed' : to[k] = -q /\ shown[q] = Display(k)'
    <3>1. PICK k \in echoed : at[k] = -q /\ shown[q] = Display(k)
      BY <2>2, Zenon DEF Located
    <3>2. q \in Nat /\ ~(-q > 0)
      BY DEF StreamTypeOK
    <3> QED
      BY <2>4, <3>1, <3>2, Zenon
  <2>7. Located(to)'
    BY <2>1, <2>5, <2>6, Zenon DEF Located
  <2>8. to \in [Calls -> Int]
    BY <2>2, <2>3
  <2> QED
    BY <2>7, <2>8, Zenon DEF SourcesInv
<1> QED
  BY <1>1, <1>2, Zenon

\* An echoed call is a send; what is displayed of it reads back as its data.
LEMMA EchoedSends ==
    ASSUME CallInv, NEW k \in Calls, job[k] = "sent"
    PROVE  /\ calls[k].of.req \in [iface : Ifaces, id : Nat, is_fd : BOOLEAN, brs : BOOLEAN, esi : BOOLEAN,
                                   data_hex : Seq(STRING)]
           /\ calls[k].data \in Seq(Bytes)
           /\ EventOf(k) \in TxEvents
           /\ Display(k) \in ShownRec
           /\ hex_to_bytes(Display(k).data_hex) = [ok |-> TRUE, data |-> calls[k].data]
<1>1. IsSend(k)
  BY Zenon DEF CallInv, JobsMatchCalls
<1> DEFINE req == calls[k].of.req
           data == calls[k].data
<1>2. req \in [iface : Ifaces, id : Nat, is_fd : BOOLEAN, brs : BOOLEAN, esi : BOOLEAN, data_hex : Seq(STRING)]
  BY <1>1, SendReq, Zenon DEF IsSend
<1>3. data \in Seq(Bytes)
  <2>1. calls[k] \in CallRec
    BY Zenon DEF CallInv, CallsTypeOK
  <2> QED
    BY <2>1, Zenon DEF CallRec
<1>4. hex_lower(data) \in Seq(Range(LUT)) /\ hex_to_bytes(hex_lower(data)) = [ok |-> TRUE, data |-> data]
  BY <1>3, HexRoundTrip, Zenon
<1>5. EventOf(k) = [dir |-> "tx", id |-> req.id, is_fd |-> req.is_fd, data |-> data]
  BY Zenon DEF EventOf, TxEvent
<1>6. Display(k) = [iface |-> req.iface, dir |-> "tx", id |-> req.id, is_fd |-> req.is_fd, data_hex |-> hex_lower(data)]
  BY Zenon DEF Display
<1> HIDE DEF req, data
<1>7. EventOf(k) \in TxEvents
  BY <1>2, <1>3, <1>5 DEF TxEvents
<1>8. Display(k) \in ShownRec /\ Display(k).data_hex = hex_lower(data)
  BY <1>2, <1>4, <1>6 DEF ShownRec
<1> QED
  BY <1>2, <1>3, <1>4, <1>7, <1>8, Zenon DEF req, data

\* The stream takes the oldest event: it is shown with its source, or skipped.
LEMMA PollSources ==
    ASSUME StreamTypeOK, SourcesInv, CallInv, poll_event
    PROVE  SourcesInv' /\ StreamTypeOK'
<1>1. /\ unread # <<>> /\ unread' = Tail(unread) /\ published' = published
      /\ calls' = calls /\ echoed' = echoed
      /\ \/ shown' = shown
         \/ Head(unread).cls.dir = "tx" /\ shown' = Append(shown, domain_frame_to_pb(Head(unread)))
  BY Zenon DEF poll_event, recv_event, callVars
<1>2. unread \in Seq(EventRec) /\ shown \in Seq(ShownRec) /\ published \in Nat
  BY Zenon DEF StreamTypeOK
<1>3. PICK at \in [Calls -> Int] : Located(at)
  BY Zenon DEF SourcesInv
<1>4. /\ unread' \in Seq(EventRec) /\ 1 \in DOMAIN unread /\ Head(unread) = unread[1]
      /\ \A p \in DOMAIN unread' : p \in Nat /\ 1 <= p /\ p + 1 \in DOMAIN unread /\ unread'[p] = unread[p + 1]
  BY <1>1, <1>2
<1>5. PICK n \in Nat : n = Len(shown) + 1 /\ DOMAIN shown = 1..(n - 1)
  BY <1>2
<1>6. PICK to : to = [k \in Calls |-> IF at[k] = 1 THEN -n ELSE IF at[k] > 1 THEN at[k] - 1 ELSE at[k]]
  BY Zenon
<1>7. /\ echoed \subseteq Calls
      /\ \A k : EventOf(k)' = EventOf(k) /\ Display(k)' = Display(k)
  BY <1>1, Zenon DEF EventOf, Display, CallInv, CallsTypeOK
<1>8. \A p \in DOMAIN unread' : IsTx(p)' => \E k \in echoed' : to[k] = p /\ Carries(p, k)'
  <2> SUFFICES ASSUME NEW p \in DOMAIN unread', IsTx(p)' PROVE \E k \in echoed : to[k] = p /\ Carries(p, k)'
    BY <1>1, Zenon
  <2>0. p \in Nat /\ 1 <= p /\ p + 1 \in DOMAIN unread /\ unread'[p] = unread[p + 1]
    BY <1>4, Zenon
  <2>1. PICK k \in echoed : at[k] = p + 1 /\ Carries(p + 1, k)
    BY <1>3, <2>0, SMTT(30) DEF IsTx, Located
  <2>2. to[k] = p /\ Carries(p, k)'
    BY <1>1, <1>6, <1>7, <2>0, <2>1, SMTT(30) DEF Carries
  <2> QED
    BY <2>2, Zenon
<1>9. \A q \in DOMAIN shown : \E k \in echoed' : to[k] = -q /\ shown[q] = Display(k)'
  <2> TAKE q \in DOMAIN shown
  <2>1. PICK k \in echoed : at[k] = -q /\ shown[q] = Display(k)
    BY <1>3, Zenon DEF Located
  <2> QED
    BY <1>1, <1>5, <1>6, <1>7, <2>1, SMTT(30)
<1>10. to \in [Calls -> Int]
  BY <1>3, <1>5, <1>6
<1>11. CASE shown' = shown
  <2>1. Located(to)'
    BY <1>8, <1>9, <1>11, SMTT(30) DEF Located
  <2> QED
    BY <1>1, <1>2, <1>4, <1>10, <1>11, <2>1, SMTT(30) DEF SourcesInv, StreamTypeOK
<1>12. CASE Head(unread).cls.dir = "tx" /\ shown' = Append(shown, domain_frame_to_pb(Head(unread)))
  <2>1. PICK k \in echoed : at[k] = 1 /\ Carries(1, k)
    BY <1>3, <1>4, <1>12, Zenon DEF IsTx, Located
  <2>2. domain_frame_to_pb(Head(unread)) = Display(k)
    <3>1. Head(unread).iface = calls[k].of.req.iface /\ Head(unread).cls = EventOf(k)
      BY <1>4, <2>1, Zenon DEF Carries
    <3>2. /\ EventOf(k).dir = "tx" /\ EventOf(k).id = calls[k].of.req.id
          /\ EventOf(k).is_fd = calls[k].of.req.is_fd /\ EventOf(k).data = calls[k].data
      BY Zenon DEF EventOf, TxEvent
    <3> QED
      BY <3>1, <3>2, Zenon DEF domain_frame_to_pb, Display
  <2>3. Display(k) \in ShownRec
    BY <1>7, EchoedSends, Zenon DEF CallInv, JobsMatchCalls
  <2>4. /\ shown' \in Seq(ShownRec) /\ DOMAIN shown' = 1..n /\ shown'[n] = Display(k)
        /\ \A q \in 1..n : q # n => q \in DOMAIN shown /\ shown'[q] = shown[q]
    BY <1>2, <1>5, <1>12, <2>2, <2>3, SMTT(30)
  <2>5. to[k] = -n
    BY <1>6, <1>7, <2>1, Zenon
  <2>6. \A q \in DOMAIN shown' : \E j \in echoed' : to[j] = -q /\ shown'[q] = Display(j)'
    <3> SUFFICES ASSUME NEW q \in 1..n PROVE \E j \in echoed' : to[j] = -q /\ shown'[q] = Display(j)'
      BY <2>4, SMTT(30)
    <3>1. CASE q = n
      BY <1>1, <1>7, <2>4, <2>5, <3>1, SMTT(30)
    <3>2. CASE q # n
      BY <1>9, <2>4, <3>2, Zenon
    <3> QED
      BY <3>1, <3>2, Zenon
  <2>7. Located(to)'
    BY <1>8, <2>6, Zenon DEF Located
  <2> QED
    BY <1>1, <1>2, <1>4, <1>10, <2>4, <2>7, SMTT(30) DEF SourcesInv, StreamTypeOK
<1> QED
  BY <1>1, <1>11, <1>12, Zenon

StreamInv == StreamTypeOK /\ SourcesInv

\* A step that publishes nothing and leaves the stream alone.
LEMMA QuietStream ==
    ASSUME StreamInv, UNCHANGED <<unread, shown, published>>, DataKept
    PROVE  StreamInv'
  BY SourcesKept, Zenon DEF StreamInv, StreamTypeOK

\* Nothing waits: only what was shown needs a source.
LEMMA EmptyStream ==
    ASSUME StreamInv, unread' = <<>>, UNCHANGED <<published, callVars, shown>>
    PROVE  StreamInv'
<1>1. PICK at \in [Calls -> Int] : Located(at)
  BY Zenon DEF StreamInv, SourcesInv
<1>2. DOMAIN unread' = {} /\ unread' \in Seq(EventRec)
  OBVIOUS
<1>3. \A k : Display(k)' = Display(k)
  BY Zenon DEF Display, callVars
<1>4. Located(at)'
  BY <1>1, <1>2, <1>3, Zenon DEF Located, callVars
<1> QED
  BY <1>1, <1>2, <1>4, Zenon DEF StreamInv, StreamTypeOK, SourcesInv

\* The stamp of the next event is a number.
LEMMA StampType == ASSUME StreamInv PROVE NextStamp \in Nat
<1>1. published \in Nat /\ MaxStamp \in Nat
  BY BusAssumption, Zenon DEF StreamInv, StreamTypeOK
<1> QED
  BY <1>1 DEF NextStamp

\* The event a successful send publishes has that call as its source.
LEMMA EchoStream ==
    ASSUME CallInv, StreamInv, NEW k \in Calls, send_frame_ok(k)
    PROVE  StreamInv'
<1>1. /\ calls[k].st = "can_tx" /\ job[k] = "sent" /\ echoed' = echoed \cup {k} /\ Respond(k, "SendAckOk")
      /\ publish_frame(calls[k].of.req.iface, EventOf(k)) /\ shown' = shown
  BY Zenon DEF send_frame_ok, EventOf, streamVars
<1>2. k \notin echoed /\ echoed \subseteq Calls
  BY <1>1, Zenon DEF CallInv, CallsTypeOK, JobsMatchCalls
<1>3. \A j \in Calls : calls'[j].of = calls[j].of /\ calls'[j].data = calls[j].data
  BY <1>1, RespondShape, Zenon DEF CallInv, Answers
<1>4. PICK i, c : i = calls[k].of.req.iface /\ c = EventOf(k)
  BY Zenon
<1>5. /\ k \in echoed' /\ k \notin echoed /\ i = calls'[k].of.req.iface /\ c = EventOf(k)'
      /\ DataKept /\ echoed' \subseteq Calls
  BY <1>1, <1>2, <1>3, <1>4, Zenon DEF EventOf, DataKept
<1>6. publish_frame(i, c) /\ [iface |-> i, cls |-> c, n |-> NextStamp] \in EventRec
  BY <1>1, <1>4, EchoedSends, StampType, Zenon DEF EventRec
<1>7. SourcesInv'
  BY <1>1, <1>5, <1>6, PublishSources DEF StreamInv
<1> QED
  BY <1>1, <1>6, <1>7, PublishShape, StampType, Zenon DEF StreamInv, StreamTypeOK

\* Events of the receive loops say "rx" and need no source.
LEMMA OtherStream ==
    ASSUME CallInv, StreamInv, NEW i \in Ifaces, NEW c \in Classes, c.dir = "rx", publish_other(i, c)
    PROVE  StreamInv'
<1>1. publish_frame(i, c) /\ calls' = calls /\ echoed' = echoed /\ shown' = shown
  BY Zenon DEF publish_other, callVars, streamVars
<1>2. [iface |-> i, cls |-> c, n |-> NextStamp] \in EventRec
  BY StampType, Zenon DEF EventRec
<1>3. DataKept /\ echoed' \subseteq Calls /\ c.dir # "tx"
  BY <1>1, Zenon DEF DataKept, CallInv, CallsTypeOK
<1>4. SourcesInv'
  BY <1>1, <1>2, <1>3, PublishSources, Zenon DEF StreamInv
<1> QED
  BY <1>1, <1>2, <1>4, PublishShape, StampType, Zenon DEF StreamInv, StreamTypeOK

\* Every step keeps the sources of what waits and of what was shown.
LEMMA StreamInvStep == CallInv /\ StreamInv /\ [Next]_vars => StreamInv'
<1> SUFFICES ASSUME CallInv, StreamInv, [Next]_vars PROVE StreamInv'
  BY Zenon
<1>0. echoed \subseteq Calls /\ CallsTypeOK
  BY Zenon DEF CallInv, CallsTypeOK
<1>1. ASSUME NEW k \in Calls, NEW of \in Requests, start(k, of) PROVE StreamInv'
  <2>1. UNCHANGED <<unread, shown, published>> /\ echoed' = echoed /\ calls[k].st = "new"
    BY <1>1, Zenon DEF start, busVars, streamVars
  <2>2. k \notin echoed
    BY <2>1, Zenon DEF CallInv, JobsMatchCalls
  <2>3. \A j \in Calls : j # k => calls'[j] = calls[j]
    BY <1>0, <1>1, StartCases DEF Begun, CallsTypeOK
  <2> QED
    BY <1>0, <2>1, <2>2, <2>3, QuietStream, Zenon DEF DataKept
<1>2. ASSUME NEW k \in Calls, list_ifaces(k) \/ send_frame_err(k) PROVE StreamInv'
  <2>1. /\ UNCHANGED <<unread, shown, published>> /\ echoed' = echoed
        /\ \E resp \in Answers : Respond(k, resp)
    BY <1>2, Zenon DEF list_ifaces, send_frame_err, Answers, busVars, streamVars
  <2> QED
    BY <1>0, <2>1, RespondShape, QuietStream, SMTT(30) DEF DataKept
<1>3. ASSUME NEW k \in Calls, drop_call(k) PROVE StreamInv'
  <2>1. /\ UNCHANGED <<unread, shown, published>> /\ echoed' = echoed
        /\ Await(k, "dropped") /\ "dropped" \in CallStates
    BY <1>3, Zenon DEF drop_call, CallStates, busVars, streamVars
  <2> QED
    BY <1>0, <2>1, AwaitShape, QuietStream, Zenon DEF DataKept
<1>4. ASSUME NEW k \in Calls, Job(k) PROVE StreamInv'
  BY <1>4, QuietStream, Zenon DEF Job, send_blocking_ok, send_blocking_err, DataKept, busVars, streamVars
<1>5. ASSUME NEW ifaces \in SUBSET Ifaces, subscribe(ifaces) PROVE StreamInv'
  BY <1>5, EmptyStream, Zenon DEF subscribe
<1>6. CASE drop_stream
  BY <1>6, EmptyStream, Zenon DEF drop_stream, drop_receiver
<1>7. CASE poll_event
  BY <1>7, PollSources, Zenon DEF StreamInv
<1>8. CASE poll_lagged
  BY <1>8, QuietStream, Zenon DEF poll_lagged, recv_lagged, callVars, streamVars, DataKept
<1>9. CASE UNCHANGED vars
  BY <1>9, QuietStream, Zenon DEF vars, busVars, callVars, streamVars, DataKept
<1> QED
  BY <1>1, <1>2, <1>3, <1>4, <1>5, <1>6, <1>7, <1>8, <1>9, EchoStream, OtherStream, SMTT(30) DEF Next, Step, Poll

\* At first nothing waits and nothing was shown.
LEMMA StreamInvInit == Init => StreamInv
<1> SUFFICES ASSUME Init PROVE StreamInv
  BY Zenon
<1>1. unread = <<>> /\ shown = <<>> /\ published = 0
  BY Zenon DEF Init
<1>2. PICK at : at = [k \in Calls |-> 0]
  BY Zenon
<1>3. at \in [Calls -> Int] /\ Located(at)
  BY <1>1, <1>2 DEF Located
<1> QED
  BY <1>1, <1>3 DEF StreamInv, StreamTypeOK, SourcesInv

\* The events that look like the one shown at k come from as many calls, each
\* with a written frame of its own.
LEMMA SourcesWritten == CallInv /\ StreamInv => TxEventsMatchBus
<1> SUFFICES ASSUME CallInv, StreamInv, NEW k \in DOMAIN shown
             PROVE  Cardinality({j \in DOMAIN shown : shown[j] = shown[k]})
                      <= Cardinality({j \in DOMAIN written : Shows(shown[k], written[j].frame)})
  BY Zenon DEF TxEventsMatchBus
<1> DEFINE A == {j \in DOMAIN shown : shown[j] = shown[k]}
           B == {j \in DOMAIN written : Shows(shown[k], written[j].frame)}
<1>1. PICK at \in [Calls -> Int] : Located(at)
  BY Zenon DEF StreamInv, SourcesInv
<1>2. ASSUME NEW j \in A PROVE \E b \in B : at[written[b].call] = -j
  <2>1. PICK m \in echoed : at[m] = -j /\ shown[j] = Display(m) /\ shown[j] = shown[k]
    BY <1>1, Zenon DEF Located
  <2>2. m \in Calls /\ job[m] = "sent"
    BY Zenon DEF CallInv, CallsTypeOK, JobsMatchCalls
  <2>3. PICK b \in DOMAIN written : written[b].call = m
    BY <2>2, Zenon DEF CallInv, BusMatchesJobs
  <2>4. written[b].frame = CanFrame(calls[m].of.req, calls[m].data)
    BY <2>3, Zenon DEF CallInv, BusMatchesJobs
  <2>5. hex_to_bytes(Display(m).data_hex) = [ok |-> TRUE, data |-> calls[m].data]
    BY <2>2, EchoedSends, Zenon
  <2>6. Shows(Display(m), written[b].frame)
    <3>1. /\ Display(m).iface = calls[m].of.req.iface /\ Display(m).id = calls[m].of.req.id
          /\ Display(m).is_fd = calls[m].of.req.is_fd
      BY Zenon DEF Display
    <3>2. /\ written[b].frame.iface = calls[m].of.req.iface /\ written[b].frame.id = calls[m].of.req.id
          /\ written[b].frame.is_fd = calls[m].of.req.is_fd /\ written[b].frame.data = calls[m].data
      BY <2>4 DEF CanFrame
    <3> QED
      BY <2>5, <3>1, <3>2, Zenon DEF Shows
  <2> QED
    BY <2>1, <2>3, <2>6, Zenon
<1>3. \A i, j \in A : -i = -j => i = j
  BY DEF StreamInv, StreamTypeOK
<1> DEFINE f == [j \in A |-> CHOOSE b \in B : at[written[b].call] = -j]
<1>4. IsFiniteSet(B)
  <2>1. written \in Seq(BusRec)
    BY Zenon DEF CallInv, CallsTypeOK
  <2>2. DOMAIN written = 1..Len(written) /\ Len(written) \in Nat
    BY <2>1
  <2>3. B \subseteq DOMAIN written
    BY Zenon
  <2> HIDE DEF B
  <2>4. IsFiniteSet(DOMAIN written)
    BY <2>2, FS_Interval
  <2> QED
    BY <2>3, <2>4, FS_Subset, Zenon
<1> HIDE DEF A, B
<1>5. \A j \in A : f[j] \in B /\ at[written[f[j]].call] = -j
  BY <1>2, Zenon
<1>6. f \in Injection(A, B)
  <2>1. f \in [A -> B]
    BY <1>5, Zenon
  <2>2. \A i, j \in A : f[i] = f[j] => i = j
    BY <1>3, <1>5
  <2> HIDE DEF f
  <2> QED
    BY <2>1, <2>2, Zenon DEF Injection, IsInjective
<1>7. Cardinality(A) <= Cardinality(B)
  BY <1>4, <1>6, FS_Injection, Zenon
<1> QED
  BY <1>7, Zenon DEF A, B

\* Every Tx event a subscriber is shown is a frame that was written, with its
\* data, and no frame is shown twice, for any number of calls, any capacity of the frame
\* bus and however streams come and go (hex_to_bytes, publish_frame, subscribe,
\* domain_frame_to_pb, hex_lower).
THEOREM GrpcTxEventsMatchBus == Spec => []TxEventsMatchBus
<1>1. Init => CallInv /\ StreamInv
  BY CallInvInit, StreamInvInit, Zenon
<1>2. (CallInv /\ StreamInv) /\ [Next]_vars => (CallInv /\ StreamInv)'
  BY CallInvStep, StreamInvStep, Zenon
<1>3. CallInv /\ StreamInv => TxEventsMatchBus
  BY SourcesWritten, Zenon
<1> QED
  BY <1>1, <1>2, <1>3, PTL DEF Spec
=============================================================================
