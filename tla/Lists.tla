------------------------------- MODULE Lists -------------------------------
(***************************************************************************)
(* The Vec and iterator methods the daemon uses, by the positions of what  *)
(* they keep: no recursion, so that their results can be reasoned about.   *)
(***************************************************************************)
EXTENDS Integers, Sequences, FiniteSets, Functions

\* The j-th position of P in the strict order R.
Nth(P, R) ==
    [j \in 1..Cardinality(P) |-> CHOOSE p \in P : Cardinality({q \in P : q = p \/ <<q, p>> \in R}) = j]

\* The elements of s at the positions P, in the order R of positions.
Listed(s, P, R) == [j \in 1..Cardinality(P) |-> s[Nth(P, R)[j]]]

Earlier(P) == {pq \in P \X P : pq[1] < pq[2]}

\* Iterator::filter, for the positions P that pass.
filter(s, P) == Listed(s, P, Earlier(P))

Smaller(s) ==
    {pq \in (DOMAIN s) \X (DOMAIN s) :
        s[pq[1]] < s[pq[2]] \/ (s[pq[1]] = s[pq[2]] /\ pq[1] < pq[2])}

\* Vec::sort, of numbers; it is stable.
sort(s) == Listed(s, DOMAIN s, Smaller(s))

\* Vec::dedup: only neighbours are compared.
dedup(s) == filter(s, {k \in DOMAIN s : k = 1 \/ s[k] # s[k - 1]})
=============================================================================
