---------------------------- MODULE Subsequences ----------------------------
(***************************************************************************)
(* What Array.prototype.filter, sort and reduce return.                     *)
(***************************************************************************)
EXTENDS Naturals, Sequences, FiniteSets

\* Of each of the numbers in I, which of them in ascending order it is.
Rank(I) == [i \in I |-> Cardinality({j \in I : j <= i})]

\* The elements of s that are in S, in their order.
Kept(s, S) ==
    LET places   == {i \in DOMAIN s : s[i] \in S}
        place(k) == CHOOSE i \in places : Rank(places)[i] = k
    IN  [k \in 1 .. Cardinality(places) |-> s[place(k)]]

\* The elements of s in the order R, a total one, of its places.
Arranged(s, R) ==
    LET rank     == [i \in DOMAIN s |-> Cardinality({j \in DOMAIN s : <<j, i>> \in R})]
        place(k) == CHOOSE i \in DOMAIN s : rank[i] = k
    IN  [k \in DOMAIN s |-> s[place(k)]]

\* What F, a function of pairs, makes of start with each element of s in turn.
Accumulated(F, start, s) ==
    LET f[n \in 0 .. Len(s)] == IF n = 0 THEN start ELSE F[<<f[n - 1], s[n]>>]
    IN  f

Reduced(F, start, s) == Accumulated(F, start, s)[Len(s)]
=============================================================================
