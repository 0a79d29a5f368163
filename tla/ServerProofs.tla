---------------------------- MODULE ServerProofs ----------------------------
(***************************************************************************)
(* Proofs for the life of the process (Daemon) and the choice of a TCP     *)
(* session (TcpAccept), and the lemmas about the list operators (Lists)    *)
(* discovery is made of.                                                   *)
(***************************************************************************)
EXTENDS Daemon, TcpAccept, TLAPS, FiniteSetTheorems

(***************************************************************************)
(* Lists.                                                                  *)
(***************************************************************************)

\* Every set of numbers has a smallest one.
LEMMA NatMin ==
    ASSUME NEW T \in SUBSET Nat, T # {}
    PROVE  \E x \in T : \A y \in T : x <= y
<1> DEFINE R == {xy \in Nat \X Nat : xy[1] < xy[2]}
<1>1. IsWellFoundedOn(R, Nat)
  BY NatLessThanWellFounded, Zenon DEF OpToRel
<1>2. PICK x \in T : \A y \in T : <<y, x>> \notin R
  <2> HIDE DEF R
  <2> QED
    BY <1>1, WFMin, Zenon
<1>3. \A y \in T : ~(y < x)
  BY <1>2, Zenon
<1> QED
  BY <1>3

\* R is a strict and total order on P.
StrictOrder(R, P) ==
    /\ \A p \in P : <<p, p>> \notin R
    /\ \A p, q \in P : p = q \/ <<p, q>> \in R \/ <<q, p>> \in R
    /\ \A p, q, r \in P : <<p, q>> \in R /\ <<q, r>> \in R => <<p, r>> \in R

\* Nth lists the positions of P, each once, in their order.
LEMMA NthLists ==
    ASSUME NEW P, IsFiniteSet(P), NEW R, StrictOrder(R, P)
    PROVE  /\ Cardinality(P) \in Nat
           /\ Nth(P, R) \in [1..Cardinality(P) -> P]
           /\ \A i, j \in 1..Cardinality(P) : i < j => <<Nth(P, R)[i], Nth(P, R)[j]>> \in R
           /\ \A p \in P : \E j \in 1..Cardinality(P) : Nth(P, R)[j] = p
<1> DEFINE Upto(p) == {q \in P : q = p \/ <<q, p>> \in R}
           n == Cardinality(P)
           rank == [p \in P |-> Cardinality(Upto(p))]
<1>0. n \in Nat
  BY FS_CardinalityType, Zenon
<1>1. ASSUME NEW p \in P PROVE IsFiniteSet(Upto(p)) /\ Cardinality(Upto(p)) \in 1..n
  <2>1. Upto(p) \in SUBSET P /\ Upto(p) # {}
    BY Zenon
  <2>2. IsFiniteSet(Upto(p)) /\ Cardinality(Upto(p)) <= n
    BY <2>1, FS_Subset, Zenon
  <2>3. Cardinality(Upto(p)) \in Nat /\ Cardinality(Upto(p)) # 0
    BY <2>1, <2>2, FS_CardinalityType, FS_EmptySet, Zenon
  <2> QED
    BY <2>2, <2>3, <1>0
<1>2. ASSUME NEW p \in P, NEW q \in P, <<p, q>> \in R PROVE rank[p] < rank[q]
  <2>1. Upto(p) \in SUBSET Upto(q) /\ q \in Upto(q) /\ q \notin Upto(p)
    BY <1>2, Zenon DEF StrictOrder
  <2>2. Cardinality(Upto(p)) <= Cardinality(Upto(q)) /\ Cardinality(Upto(q)) # Cardinality(Upto(p))
    BY <2>1, <1>1, FS_Subset, Zenon
  <2>3. rank[p] = Cardinality(Upto(p)) /\ rank[q] = Cardinality(Upto(q))
    BY Zenon
  <2>4. Cardinality(Upto(p)) \in 1..n /\ Cardinality(Upto(q)) \in 1..n
    BY <1>1, Zenon
  <2> HIDE DEF Upto, rank
  <2> QED
    BY <2>2, <2>3, <2>4, <1>0
<1>3. rank \in [P -> 1..n]
  BY <1>1, SMTT(30)
<1>4. rank \in Injection(P, 1..n)
  <2> HIDE DEF rank, Upto
  <2>1. ASSUME NEW p \in P, NEW q \in P, p # q PROVE rank[p] # rank[q]
    <3>1. <<p, q>> \in R \/ <<q, p>> \in R
      BY <2>1, Zenon DEF StrictOrder
    <3>2. rank[p] \in Int /\ rank[q] \in Int
      BY <1>0, <1>3
    <3> QED
      BY <1>2, <3>1, <3>2
  <2> QED
    BY <1>3, <2>1, Zenon DEF Injection, IsInjective
<1>5. rank \in Surjection(P, 1..n)
  <2>1. IsFiniteSet(1..n) /\ Cardinality(1..n) = n
    BY <1>0, FS_Interval
  <2> QED
    BY <2>1, <1>4, FS_Injection, Zenon
<1>6. ASSUME NEW j \in 1..n PROVE Nth(P, R)[j] \in P /\ rank[Nth(P, R)[j]] = j
  <2>1. \E p \in P : Cardinality(Upto(p)) = j
    BY <1>5, Zenon DEF Surjection
  <2>2. Nth(P, R)[j] = CHOOSE p \in P : Cardinality(Upto(p)) = j
    BY Zenon DEF Nth
  <2> QED
    BY <2>1, <2>2, Zenon
<1>7. Nth(P, R) \in [1..n -> P]
  BY <1>6, Zenon DEF Nth
<1> HIDE DEF rank
<1>8. \A p \in P : Nth(P, R)[rank[p]] = p
  BY <1>3, <1>4, <1>6, Zenon DEF Injection, IsInjective
<1>9. ASSUME NEW i \in 1..n, NEW j \in 1..n, i < j PROVE <<Nth(P, R)[i], Nth(P, R)[j]>> \in R
  <2>1. Nth(P, R)[i] \in P /\ Nth(P, R)[j] \in P /\ rank[Nth(P, R)[i]] < rank[Nth(P, R)[j]]
    BY <1>6, <1>9, Zenon
  <2>2. ~(rank[Nth(P, R)[j]] < rank[Nth(P, R)[i]])
    BY <1>0, <1>6, <1>9
  <2> QED
    BY <1>2, <2>1, <2>2, Zenon DEF StrictOrder
<1> QED
  BY <1>0, <1>3, <1>7, <1>8, <1>9, Zenon

\* The elements of s at the positions P, each once, in their order.
LEMMA ListedElements ==
    ASSUME NEW S, NEW s \in Seq(S), NEW P \in SUBSET DOMAIN s, NEW R, StrictOrder(R, P)
    PROVE  /\ Listed(s, P, R) \in Seq(S)
           /\ Len(Listed(s, P, R)) = Cardinality(P)
           /\ Cardinality(P) \in Nat
           /\ Nth(P, R) \in [1..Cardinality(P) -> P]
           /\ \A j \in 1..Cardinality(P) : Listed(s, P, R)[j] = s[Nth(P, R)[j]]
           /\ \A i, j \in 1..Cardinality(P) : i < j => <<Nth(P, R)[i], Nth(P, R)[j]>> \in R
           /\ Range(Listed(s, P, R)) = {s[p] : p \in P}
<1>1. IsFiniteSet(P)
  BY FS_Interval, FS_Subset
<1> DEFINE n == Cardinality(P)
           N == Nth(P, R)
<1>2. n \in Nat /\ N \in [1..n -> P] /\ \A p \in P : \E j \in 1..n : N[j] = p
  BY <1>1, NthLists
<1>3. \A i, j \in 1..n : i < j => <<N[i], N[j]>> \in R
  BY <1>1, NthLists, Zenon
<1> HIDE DEF n, N
<1>4. Listed(s, P, R) = [j \in 1..n |-> s[N[j]]]
  BY Zenon DEF Listed, n, N
<1>5. \A j \in 1..n : s[N[j]] \in S
  BY <1>2
<1>6. Listed(s, P, R) \in Seq(S) /\ Len(Listed(s, P, R)) = n
  BY <1>2, <1>4, <1>5
<1>7. Range(Listed(s, P, R)) = {s[p] : p \in P}
  <2>1. Range(Listed(s, P, R)) = {s[N[j]] : j \in 1..n}
    BY <1>4 DEF Range
  <2>2. \A j \in 1..n : N[j] \in P
    BY <1>2, Zenon
  <2> QED
    BY <1>2, <2>1, <2>2
<1> QED
  BY <1>2, <1>3, <1>4, <1>6, <1>7, Zenon DEF n, N

\* The order of the positions.
LEMMA EarlierOrders ==
    ASSUME NEW P \in SUBSET Int
    PROVE  StrictOrder(Earlier(P), P)
  BY DEF StrictOrder, Earlier

\* A list without equal elements in ascending order, and one in ascending order.
Increasing(s) == \A i, j \in DOMAIN s : i < j => s[i] < s[j]
Ordered(s) == \A i, j \in DOMAIN s : i < j => s[i] <= s[j]

\* sort keeps the elements and puts them in order.
LEMMA SortOrders ==
    ASSUME NEW s \in Seq(Int)
    PROVE  sort(s) \in Seq(Int) /\ Ordered(sort(s)) /\ Range(sort(s)) = Range(s)
<1> DEFINE P == DOMAIN s
           R == Smaller(s)
<1>1. StrictOrder(R, P)
  BY SMTT(30) DEF StrictOrder, Smaller
<1>2. /\ sort(s) \in Seq(Int)
      /\ Len(sort(s)) = Cardinality(P) /\ Cardinality(P) \in Nat
      /\ Nth(P, R) \in [1..Cardinality(P) -> P]
      /\ \A j \in 1..Cardinality(P) : sort(s)[j] = s[Nth(P, R)[j]]
      /\ \A i, j \in 1..Cardinality(P) : i < j => <<Nth(P, R)[i], Nth(P, R)[j]>> \in R
      /\ Range(sort(s)) = {s[p] : p \in P}
  BY <1>1, ListedElements, SMTT(30) DEF sort
<1>3. \A p, q \in P : <<p, q>> \in R => s[p] <= s[q]
  BY DEF Smaller
<1>4. Ordered(sort(s))
  <2> HIDE DEF P, R
  <2>1. DOMAIN sort(s) = 1..Cardinality(P)
    BY <1>2
  <2>2. ASSUME NEW i \in 1..Cardinality(P), NEW j \in 1..Cardinality(P), i < j PROVE sort(s)[i] <= sort(s)[j]
    BY <1>2, <1>3, <2>2, Zenon
  <2> QED
    BY <2>1, <2>2, Zenon DEF Ordered
<1> QED
  BY <1>2, <1>4, Zenon DEF Range, P

\* In an ordered list dedup leaves one of each value.
LEMMA DedupOrdered ==
    ASSUME NEW s \in Seq(Int), Ordered(s)
    PROVE  dedup(s) \in Seq(Int) /\ Increasing(dedup(s)) /\ Range(dedup(s)) = Range(s)
<1> DEFINE P == {k \in DOMAIN s : k = 1 \/ s[k] # s[k - 1]}
           R == Earlier(P)
<1>1. P \in SUBSET DOMAIN s /\ StrictOrder(R, P)
  BY EarlierOrders, SMTT(30)
<1>2. /\ dedup(s) \in Seq(Int)
      /\ Len(dedup(s)) = Cardinality(P) /\ Cardinality(P) \in Nat
      /\ Nth(P, R) \in [1..Cardinality(P) -> P]
      /\ \A j \in 1..Cardinality(P) : dedup(s)[j] = s[Nth(P, R)[j]]
      /\ \A i, j \in 1..Cardinality(P) : i < j => <<Nth(P, R)[i], Nth(P, R)[j]>> \in R
      /\ Range(dedup(s)) = {s[p] : p \in P}
  <2>1. dedup(s) = Listed(s, P, R)
    BY Zenon DEF dedup, filter
  <2> HIDE DEF P, R
  <2> QED
    BY <1>1, <2>1, ListedElements
<1>3. \A p, q \in P : <<p, q>> \in R => s[p] < s[q]
  <2> SUFFICES ASSUME NEW p \in P, NEW q \in P, p < q PROVE s[p] < s[q]
    BY SMTT(30) DEF Earlier
  <2>1. q - 1 \in DOMAIN s /\ q # 1 /\ p <= q - 1
    OBVIOUS
  <2>2. s[p] <= s[q - 1] /\ s[q - 1] <= s[q] /\ s[q - 1] # s[q]
    BY <2>1 DEF Ordered
  <2> QED
    BY <2>1, <2>2
<1>4. Increasing(dedup(s))
  <2> HIDE DEF P, R
  <2>1. DOMAIN dedup(s) = 1..Cardinality(P)
    BY <1>2
  <2>2. ASSUME NEW i \in 1..Cardinality(P), NEW j \in 1..Cardinality(P), i < j PROVE dedup(s)[i] < dedup(s)[j]
    BY <1>2, <1>3, <2>2, Zenon
  <2> QED
    BY <2>1, <2>2, Zenon DEF Increasing
<1>5. ASSUME NEW k \in DOMAIN s PROVE \E p \in P : s[p] = s[k]
  <2>1. PICK p \in {q \in DOMAIN s : s[q] = s[k]} : \A q \in {q \in DOMAIN s : s[q] = s[k]} : p <= q
    <3>1. {q \in DOMAIN s : s[q] = s[k]} \in SUBSET Nat /\ {q \in DOMAIN s : s[q] = s[k]} # {}
      OBVIOUS
    <3> QED
      BY <3>1, NatMin, Zenon
  <2>2. p = 1 \/ p - 1 \in DOMAIN s
    OBVIOUS
  <2>3. p = 1 \/ s[p - 1] # s[k]
    BY <2>1, <2>2
  <2>4. p \in P
    BY <2>3, Zenon
  <2> QED
    BY <2>4, Zenon
<1>6. {s[p] : p \in P} = Range(s)
  <2>1. P \subseteq DOMAIN s
    BY Zenon
  <2> HIDE DEF P
  <2> QED
    BY <1>5, <2>1, Zenon DEF Range
<1> QED
  BY <1>2, <1>4, <1>6, Zenon

(***************************************************************************)
(* The life of the process.                                                *)
(***************************************************************************)

\* What discovery returns: the CAN-like links, each once, in order.
LEMMA ListCanIfaces ==
    ASSUME NEW links \in Seq(Int)
    PROVE  /\ list_can_ifaces(links) \in Seq(Int)
           /\ Increasing(list_can_ifaces(links))
           /\ Range(list_can_ifaces(links)) = Range(links) \cap CanLike
<1> DEFINE P == {k \in DOMAIN links : links[k] \in CanLike}
           R == Earlier(P)
<1>1. P \in SUBSET DOMAIN links /\ StrictOrder(R, P)
  BY EarlierOrders
<1>2. {links[p] : p \in P} = Range(links) \cap CanLike
  BY Zenon DEF Range
<1>3. CanLinks(links) = Listed(links, P, R)
  BY Zenon DEF CanLinks, filter
<1> HIDE DEF P, R
<1>4. /\ Listed(links, P, R) \in Seq(Int)
      /\ Len(Listed(links, P, R)) = Cardinality(P)
      /\ Range(Listed(links, P, R)) = {links[p] : p \in P}
  BY <1>1, ListedElements, SMTT(30)
<1>5. CanLinks(links) \in Seq(Int) /\ Range(CanLinks(links)) = Range(links) \cap CanLike
  BY <1>2, <1>3, <1>4, Zenon
<1> QED
  BY <1>5, SortOrders, DedupOrdered, Zenon DEF list_can_ifaces

LoopStates == {"queued", "fd", "fallback", "classic", "fd_sleep", "classic_sleep", "ended"}

\* The receive loops are those of the links netlink listed, in ascending order.
RxOfDump ==
    /\ DOMAIN rx \subseteq Nat
    /\ \A k \in DOMAIN rx : rx[k] \in [iface : Int, st : LoopStates]
    /\ \A i, j \in DOMAIN rx : i < j => rx[i].iface < rx[j].iface
    /\ {rx[k].iface : k \in DOMAIN rx} = Range(dump) \cap CanLike

\* A step that changes at most the states of the loops keeps RxOfDump.
LEMMA LoopsKeep ==
    ASSUME RxOfDump, dump' = dump, DOMAIN rx' = DOMAIN rx,
           \A k \in DOMAIN rx : rx'[k] \in [iface : Int, st : LoopStates] /\ rx'[k].iface = rx[k].iface
    PROVE  RxOfDump'
  BY DEF RxOfDump

\* A step of one receive loop keeps RxOfDump.
LEMMA LoopKeeps ==
    ASSUME RxOfDump, NEW k \in DOMAIN rx, NEW from, NEW to \in LoopStates, Loop(k, from, to)
    PROVE  RxOfDump'
<1>1. rx' = [rx EXCEPT ![k].st = to] /\ dump' = dump
  BY Zenon DEF Loop
<1>2. \A j \in DOMAIN rx : rx[j] \in [iface : Int, st : LoopStates]
  BY Zenon DEF RxOfDump
<1>3. \A j \in DOMAIN rx : rx'[j] \in [iface : Int, st : LoopStates] /\ rx'[j].iface = rx[j].iface
  BY <1>1, <1>2, Zenon
<1> QED
  BY <1>1, <1>3, LoopsKeep, Zenon

\* discover establishes RxOfDump; the other steps change states of loops at most.
LEMMA RxOfDumpStep == RxOfDump /\ [Next]_vars => RxOfDump'
<1> SUFFICES ASSUME RxOfDump, [Next]_vars PROVE RxOfDump'
  BY Zenon
<1>1. CASE discover
  <2>1. PICK links \in Dumps \cup {<<>>} :
            /\ dump' = links
            /\ rx' = [k \in DOMAIN list_can_ifaces(links) |->
                        [iface |-> list_can_ifaces(links)[k], st |-> "queued"]]
    BY <1>1, Zenon DEF discover
  <2>2. links \in Seq(Int)
    <3>1. <<>> \in Seq(Int)
      OBVIOUS
    <3> QED
      BY <3>1, DaemonAssumption, Zenon
  <2> DEFINE L == list_can_ifaces(links)
  <2>3. L \in Seq(Int) /\ Increasing(L) /\ Range(L) = Range(links) \cap CanLike
    BY <2>2, ListCanIfaces, Zenon
  <2> HIDE DEF L
  <2>4. rx' = [k \in DOMAIN L |-> [iface |-> L[k], st |-> "queued"]]
    BY <2>1, Zenon DEF L
  <2>5. DOMAIN rx' = DOMAIN L /\ \A k \in DOMAIN L : rx'[k].iface = L[k] /\ rx'[k] \in [iface : Int, st : LoopStates]
    <3>1. \A k \in DOMAIN L : L[k] \in Int
      BY <2>3
    <3>2. DOMAIN rx' = DOMAIN L /\ \A k \in DOMAIN L : rx'[k] = [iface |-> L[k], st |-> "queued"]
      BY <2>4, Zenon
    <3> QED
      BY <3>1, <3>2 DEF LoopStates
  <2>6. {rx'[k].iface : k \in DOMAIN rx'} = Range(L)
    BY <2>5, Zenon DEF Range
  <2>7. DOMAIN rx' \subseteq Nat
    BY <2>3, <2>5
  <2> QED
    BY <2>1, <2>3, <2>5, <2>6, <2>7, SMTT(30) DEF RxOfDump, Increasing
<1>2. CASE drop_runtime
  <2>1. /\ dump' = dump
        /\ rx' = [k \in DOMAIN rx |-> IF rx[k].st = "queued" THEN [rx[k] EXCEPT !.st = "ended"] ELSE rx[k]]
    BY <1>2, Zenon DEF drop_runtime
  <2>2. \A k \in DOMAIN rx : rx[k] \in [iface : Int, st : LoopStates]
    BY Zenon DEF RxOfDump
  <2>3. \A k \in DOMAIN rx : rx'[k] \in [iface : Int, st : LoopStates] /\ rx'[k].iface = rx[k].iface
    <3> TAKE k \in DOMAIN rx
    <3>1. rx[k] \in [iface : Int, st : LoopStates]
      BY <2>2, Zenon
    <3>2. rx'[k] = rx[k] \/ rx'[k] = [rx[k] EXCEPT !.st = "ended"]
      BY <2>1, Zenon
    <3> QED
      BY <3>1, <3>2, Zenon DEF LoopStates
  <2> QED
    BY <2>1, <2>3, LoopsKeep, Zenon
<1>3. CASE UNCHANGED <<dump, rx>>
  BY <1>3, Zenon DEF RxOfDump
<1>4. ASSUME NEW k \in DOMAIN rx, Open(k) \/ read_error(k) \/ retry(k) PROVE RxOfDump'
  <2>1. "fd" \in LoopStates /\ "fallback" \in LoopStates /\ "classic" \in LoopStates /\ "ended" \in LoopStates
          /\ "fd_sleep" \in LoopStates /\ "classic_sleep" \in LoopStates
    BY SMTT(30) DEF LoopStates
  <2> QED
    BY <1>4, <2>1, LoopKeeps, Zenon
       DEF Open, open_fd, fall_back, open_classic, rx_disabled, read_error, retry
<1>5. Next => discover \/ drop_runtime \/ UNCHANGED <<dump, rx>>
                      \/ \E k \in DOMAIN rx : Open(k) \/ read_error(k) \/ retry(k)
  BY Zenon DEF Next, MainStep, spawn_watcher, start_fake_generator, shutdown, spawn_server, bad_address,
         exit, install_handler, ctrl_c, cancel, ServerStep, bind, run_error, cancelled
<1> QED
  BY <1>1, <1>2, <1>3, <1>4, <1>5, Zenon DEF vars

\* Every CAN-like link netlink lists, in whatever order and however often, has
\* exactly one receive loop, and no other link has one, for every dump
\* (list_can_ifaces, start_socketcan_rx).
THEOREM OneReader == Spec => []OneReaderPerIface
<1>1. Init => RxOfDump
  BY DEF Init, RxOfDump, Range
<1>2. RxOfDump => OneReaderPerIface
  <2> SUFFICES ASSUME RxOfDump, NEW n \in Range(dump)
               PROVE  Cardinality({k \in DOMAIN rx : rx[k].iface = n}) = (IF n \in CanLike THEN 1 ELSE 0)
    BY Zenon DEF OneReaderPerIface
  <2> DEFINE K == {k \in DOMAIN rx : rx[k].iface = n}
  <2>1. CASE n \in CanLike
    <3>1. PICK k \in DOMAIN rx : rx[k].iface = n
      BY <2>1, Zenon DEF RxOfDump
    <3>2. ASSUME NEW j \in DOMAIN rx, rx[j].iface = n PROVE j = k
      BY <3>1, <3>2 DEF RxOfDump
    <3>3. K = {k}
      BY <3>1, <3>2, Zenon
    <3> QED
      BY <2>1, <3>3, FS_Singleton, Zenon
  <2>2. CASE n \notin CanLike
    <3>1. K = {}
      BY <2>2, SMTT(30) DEF RxOfDump
    <3> QED
      BY <2>2, <3>1, FS_EmptySet, Zenon
  <2> QED
    BY <2>1, <2>2, Zenon
<1> QED
  BY <1>1, <1>2, RxOfDumpStep, PTL DEF Spec

\* RunsUntilInterrupted with what makes it inductive: only Ctrl+C cancels the
\* token.
InterruptInv ==
    /\ DOMAIN server = Servers
    /\ token \/ pending => interrupted
    /\ RunsUntilInterrupted

\* Every step keeps InterruptInv.
LEMMA InterruptStep == InterruptInv /\ [Next]_vars => InterruptInv'
<1> SUFFICES ASSUME InterruptInv, [Next]_vars PROVE InterruptInv'
  BY Zenon
<1> USE DEF InterruptInv, RunsUntilInterrupted
<1>1. CASE spawn_watcher \/ discover \/ start_fake_generator
  <2>1. /\ main # "error" /\ main' # "ok"
        /\ server' = server /\ token' = token /\ pending' = pending /\ interrupted' = interrupted
    BY <1>1, Zenon DEF spawn_watcher, discover, start_fake_generator, Main
  <2> QED
    BY <2>1, Zenon
<1>2. CASE shutdown
  BY <1>2, Zenon DEF shutdown, Main
<1>3. ASSUME NEW s \in DOMAIN server, spawn_server(s) PROVE InterruptInv'
  <2>1. After(s) # "ok" /\ s # "error" /\ s # "ok"
    BY Zenon DEF After, Servers
  <2> QED
    BY <1>3, <2>1, Zenon DEF spawn_server, Main
<1>4. ASSUME NEW s \in DOMAIN server, bad_address(s) PROVE InterruptInv'
  BY <1>4, Zenon DEF bad_address, Main
<1>5. CASE drop_runtime
  BY <1>5, Zenon DEF drop_runtime, Returned
<1>6. CASE exit \/ install_handler \/ cancel
  BY <1>6 DEF exit, install_handler, cancel
<1>7. CASE ctrl_c
  BY <1>7, Zenon DEF ctrl_c
<1>8. ASSUME NEW s \in DOMAIN server, ServerStep(s) PROVE InterruptInv'
  BY <1>8 DEF ServerStep, bind, run_error, cancelled, Server
<1>9. ASSUME NEW k \in DOMAIN rx, Open(k) \/ read_error(k) \/ retry(k) PROVE InterruptInv'
  BY <1>9 DEF Open, open_fd, fall_back, open_classic, rx_disabled, read_error, retry, Loop
<1>10. CASE UNCHANGED vars
  BY <1>10, SMTT(30) DEF vars
<1> QED
  BY <1>1, <1>2, <1>3, <1>4, <1>5, <1>6, <1>7, <1>8, <1>9, <1>10, SMTT(30) DEF Next, MainStep

\* main returns and servers are stopped only after Ctrl+C, or because an address
\* did not parse: no failure of a server, and no step of a receive loop, ends
\* anything else (the three select! tasks of main.rs).
THEOREM StopsOnlyWhenInterrupted == Spec => []RunsUntilInterrupted
<1>1. Init => InterruptInv
  BY Zenon DEF Init, InterruptInv, RunsUntilInterrupted, Servers
<1>2. InterruptInv => RunsUntilInterrupted
  BY Zenon DEF InterruptInv
<1> QED
  BY <1>1, <1>2, InterruptStep, PTL DEF Spec

(***************************************************************************)
(* The choice of a TCP session.                                            *)
(***************************************************************************)

\* HeaderDecides with what makes it inductive: a session begins only with
\* bytes in the socket or after the client closed, and the first segment is
\* part of what arrived.
AcceptInv ==
    /\ stage \in [Conns -> {"none", "backlog", "peek", "jsonl", "binary"}]
    /\ arrived \in [Conns -> 0..MagicLen] /\ first \in [Conns -> 0..MagicLen]
    /\ eof \in [Conns -> BOOLEAN]
    /\ \A c \in Conns :
          /\ first[c] <= arrived[c]
          /\ Greeted(c) => arrived[c] > 0 \/ eof[c]
    /\ HeaderDecides

\* Every step of clients, accept loop and connections keeps AcceptInv.
LEMMA AcceptStep ==
    ASSUME AcceptInv, [AcceptNext]_acceptVars
    PROVE  AcceptInv'
<1> USE AcceptAssumption DEF AcceptInv, HeaderDecides, Greeted
<1>1. ASSUME NEW c \in Conns, Connect(c) PROVE AcceptInv'
  BY <1>1, Zenon DEF Connect
<1>2. ASSUME NEW c \in Conns, Segment(c) PROVE AcceptInv'
  <2>1. PICK n \in (arrived[c] + 1)..MagicLen :
          /\ arrived' = [arrived EXCEPT ![c] = n]
          /\ first' = IF arrived[c] = 0 THEN [first EXCEPT ![c] = n] ELSE first
    BY <1>2, Zenon DEF Segment
  <2>2. n \in 1..MagicLen /\ n > arrived[c]
    OBVIOUS
  <2>3. ~eof[c] /\ stage' = stage /\ kind' = kind /\ eof' = eof
    BY <1>2, Zenon DEF Segment
  <2> QED
    BY <2>1, <2>2, <2>3, SMTT(30)
<1>3. ASSUME NEW c \in Conns, Close(c) PROVE AcceptInv'
  BY <1>3, Zenon DEF Close
<1>4. ASSUME NEW c \in Conns, run(c) PROVE AcceptInv'
  BY <1>4, Zenon DEF run
<1>5. ASSUME NEW c \in Conns, handle_connection(c) PROVE AcceptInv'
  <2>1. PICK n \in {arrived[c]} \cup {k \in {0} : eof[c]} :
          /\ n > 0 \/ eof[c]
          /\ stage' = [stage EXCEPT ![c] =
                          IF n = MagicLen /\ kind[c] = "binary" THEN "binary" ELSE "jsonl"]
    BY <1>5, Zenon DEF handle_connection
  <2>2. UNCHANGED <<listener, kind, arrived, first, eof>>
    BY <1>5, Zenon DEF handle_connection
  <2> QED
    BY <2>1, <2>2, SMTT(30)
<1>6. CASE accept_error
  BY <1>6, Zenon DEF accept_error
<1>7. CASE UNCHANGED acceptVars
  BY <1>7, SMTT(30) DEF acceptVars
<1> QED
  BY <1>1, <1>2, <1>3, <1>4, <1>5, <1>6, <1>7, SMTT(30) DEF AcceptNext, ClientStep

\* A binary client whose first segment brings the whole magic header never gets
\* a JSONL session, and a JSON client never gets a binary one, for any number of
\* connections and any length of the magic (the peek in handle_connection).
THEOREM HeaderDecidesSession == AcceptSpec => []HeaderDecides
<1>1. AcceptInit => AcceptInv
  BY AcceptAssumption DEF AcceptInit, AcceptInv, HeaderDecides, Greeted
<1>2. AcceptInv /\ [AcceptNext]_acceptVars => AcceptInv'
  BY AcceptStep, Zenon
<1>3. AcceptInv => HeaderDecides
  BY Zenon DEF AcceptInv
<1> QED
  BY <1>1, <1>2, <1>3, PTL DEF AcceptSpec
=============================================================================
