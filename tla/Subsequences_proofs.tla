------------------------- MODULE Subsequences_proofs -------------------------
(***************************************************************************)
(* What filtering, and the listing of a set, keep of their arguments.       *)
(***************************************************************************)
EXTENDS Subsequences, SequencesExt, FiniteSetTheorems, TLAPS

\* The ranks of the numbers in a finite set are the first numbers, in the same order.
LEMMA Ranks ==
    ASSUME NEW I \in SUBSET Nat, IsFiniteSet(I)
    PROVE  /\ Cardinality(I) \in Nat
           /\ Rank(I) \in [I -> 1 .. Cardinality(I)]
           /\ \A i, j \in I : i < j <=> Rank(I)[i] < Rank(I)[j]
           /\ \A k \in 1 .. Cardinality(I) : \E i \in I : Rank(I)[i] = k
<1>1. Cardinality(I) \in Nat
  BY FS_CardinalityType
<1> DEFINE UpTo(i) == {j \in I : j <= i}
<1>2. \A i \in I : /\ UpTo(i) \subseteq I /\ IsFiniteSet(UpTo(i)) /\ Cardinality(UpTo(i)) \in Nat
                   /\ Cardinality(UpTo(i)) <= Cardinality(I)
                   /\ Cardinality(UpTo(i)) # 0
  <2>1. ASSUME NEW i \in I
        PROVE  /\ UpTo(i) \subseteq I /\ i \in UpTo(i)
               /\ IsFiniteSet(UpTo(i)) /\ Cardinality(UpTo(i)) <= Cardinality(I)
    <3>1. UpTo(i) \subseteq I /\ i \in UpTo(i)
      OBVIOUS
    <3> HIDE DEF UpTo
    <3> QED BY <3>1, FS_Subset
  <2> HIDE DEF UpTo
  <2> QED BY <2>1, FS_CardinalityType, FS_EmptySet
<1>3. \A i, j \in I : i < j => Cardinality(UpTo(i)) < Cardinality(UpTo(j))
  <2>1. ASSUME NEW i \in I, NEW j \in I, i < j
        PROVE  UpTo(i) \subseteq UpTo(j) /\ UpTo(i) # UpTo(j)
    <3>1. \A k \in Nat : k <= i => k <= j
      BY <2>1
    <3>2. UpTo(i) \subseteq UpTo(j)
      BY <3>1
    <3>3. j \in UpTo(j) /\ j \notin UpTo(i)
      BY <2>1
    <3> QED BY <3>2, <3>3
  <2> HIDE DEF UpTo
  <2>2. ASSUME NEW i \in I, NEW j \in I, i < j
        PROVE  Cardinality(UpTo(i)) <= Cardinality(UpTo(j)) /\ Cardinality(UpTo(i)) # Cardinality(UpTo(j))
    BY <1>2, <2>1, <2>2, FS_Subset
  <2> QED BY <1>2, <2>2
<1>4. PICK rank : rank = Rank(I) /\ rank = [i \in I |-> Cardinality(UpTo(i))]
  BY DEF Rank
<1> HIDE DEF UpTo
<1>5. rank \in [I -> 1 .. Cardinality(I)]
  BY <1>1, <1>2, <1>4
<1>6. \A i, j \in I : i < j <=> rank[i] < rank[j]
  BY <1>2, <1>3, <1>4
<1>7. rank \in Injection(I, 1 .. Cardinality(I))
  <2>1. \A i, j \in I : rank[i] = rank[j] => i = j
    <3>1. \A i, j \in I : i # j => i < j \/ j < i
      OBVIOUS
    <3>2. \A i \in I : rank[i] \in Nat
      BY <1>1, <1>5
    <3> QED BY <1>6, <3>1, <3>2
  <2> QED BY <1>5, <2>1 DEF Injection, IsInjective
<1>8. IsFiniteSet(1 .. Cardinality(I)) /\ Cardinality(1 .. Cardinality(I)) = Cardinality(I)
  BY <1>1, FS_Interval
<1>9. rank \in Surjection(I, 1 .. Cardinality(I))
  BY <1>7, <1>8, FS_Injection
<1> QED BY <1>1, <1>4, <1>5, <1>6, <1>9 DEF Surjection

\* r is s followed by t.
Joins(r, s, t) ==
    /\ Len(r) = Len(s) + Len(t)
    /\ \A i \in 1 .. Len(s) : r[i] = s[i]
    /\ \A i \in 1 .. Len(t) : r[Len(s) + i] = t[i]

LEMMA Joined ==
    ASSUME NEW X, NEW s \in Seq(X), NEW t \in Seq(X)
    PROVE  s \o t \in Seq(X) /\ Joins(s \o t, s, t)
BY DEF Joins

\* Of finitely many numbers one is the greatest.
LEMMA Greatest ==
    ASSUME NEW n \in Nat, NEW I \in SUBSET (0 .. n), I # {}
    PROVE  \E i \in I : \A j \in I : j <= i
<1>1. IsFiniteSet(0 .. n)
  BY FS_Interval
<1>2. IsFiniteSet(I) /\ I \in SUBSET Nat
  <2>1. IsFiniteSet(I)
    BY <1>1, FS_Subset
  <2>2. \A i \in I : i \in Nat
    OBVIOUS
  <2> QED BY <2>1, <2>2
<1>3. PICK rank : rank = Rank(I)
  OBVIOUS
<1>4. PICK c \in Nat :
         /\ c = Cardinality(I) /\ rank \in [I -> 1 .. c]
         /\ \A i, j \in I : i < j <=> rank[i] < rank[j]
         /\ \A k \in 1 .. c : \E i \in I : rank[i] = k
  BY <1>2, <1>3, Ranks
<1>5. c # 0
  BY <1>2, <1>4, FS_EmptySet
<1>6. PICK i \in I : rank[i] = c
  BY <1>4, <1>5
<1>7. \A j \in I : j \in Int /\ i \in Int /\ ~ i < j
  BY <1>4, <1>6
<1> QED BY <1>7

LEMMA Smallest ==
    ASSUME NEW n \in Nat, NEW I \in SUBSET (0 .. n), I # {}
    PROVE  \E i \in I : \A j \in I : i <= j
<1>1. PICK J : J = {n - i : i \in I}
  OBVIOUS
<1>2. J \in SUBSET (0 .. n) /\ J # {}
  <2>1. \A i \in I : n - i \in 0 .. n
    OBVIOUS
  <2> QED BY <1>1, <2>1
<1>3. PICK k \in J : \A j \in J : j <= k
  BY <1>2, Greatest
<1>4. PICK i \in I : k = n - i
  BY <1>1, <1>3
<1>5. ASSUME NEW j \in I PROVE i <= j
  <2>1. n - j <= n - i /\ i \in Int /\ j \in Int
    BY <1>1, <1>3, <1>4
  <2> QED BY <2>1
<1> QED BY <1>5

\* t has the elements of s that are in S, and f tells the place of each in s.
Filters(t, s, S, f) ==
    /\ f \in [1 .. Len(t) -> DOMAIN s]
    /\ t = [k \in 1 .. Len(t) |-> s[f[k]]]
    /\ \A k, l \in 1 .. Len(t) : k < l <=> f[k] < f[l]
    /\ \A i \in DOMAIN s : s[i] \in S <=> \E k \in 1 .. Len(t) : f[k] = i

\* A filtered array is the original one at its places that pass, in order.
LEMMA KeptPlaces ==
    ASSUME NEW X, NEW s \in Seq(X), NEW S
    PROVE  /\ Kept(s, S) \in Seq(X) /\ Len(Kept(s, S)) <= Len(s)
           /\ \E f : Filters(Kept(s, S), s, S, f)
<1>1. PICK I : I = {i \in DOMAIN s : s[i] \in S}
  OBVIOUS
<1>2. PICK length \in Nat : length = Len(s) /\ DOMAIN s = 1 .. length
  OBVIOUS
<1>3. IsFiniteSet(1 .. length) /\ Cardinality(1 .. length) = length
  BY FS_Interval
<1>4. I \subseteq 1 .. length /\ \A i \in I : i \in Nat
  BY <1>1, <1>2
<1>5. IsFiniteSet(I) /\ Cardinality(I) <= length
  BY <1>3, <1>4, FS_Subset
<1>6. PICK rank : rank = Rank(I)
  OBVIOUS
<1>7. PICK n \in Nat :
         /\ n = Cardinality(I)
         /\ rank \in [I -> 1 .. n]
         /\ \A i, j \in I : i < j <=> rank[i] < rank[j]
         /\ \A k \in 1 .. n : \E i \in I : rank[i] = k
  BY <1>4, <1>5, <1>6, Ranks
<1>8. PICK f : f = [k \in 1 .. n |-> CHOOSE i \in I : rank[i] = k]
  OBVIOUS
<1>9. \A k \in 1 .. n : f[k] \in I /\ rank[f[k]] = k
  BY <1>7, <1>8
<1>10. Kept(s, S) = [k \in 1 .. n |-> s[f[k]]]
  BY <1>1, <1>6, <1>7, <1>8 DEF Kept
<1>11. f \in [1 .. n -> DOMAIN s]
  BY <1>2, <1>4, <1>8, <1>9
<1>12. Kept(s, S) \in Seq(X) /\ Len(Kept(s, S)) = n
  BY <1>10, <1>11
<1>13. \A k, l \in 1 .. n : k < l <=> f[k] < f[l]
  BY <1>7, <1>9
<1>14. \A i \in DOMAIN s : s[i] \in S <=> \E k \in 1 .. n : f[k] = i
  <2>1. ASSUME NEW i \in I
        PROVE  f[rank[i]] = i
    <3>1. rank[f[rank[i]]] = rank[i] /\ f[rank[i]] \in I
      BY <1>7, <1>9
    <3>2. \A j \in I : ~ j < i /\ ~ i < j => j = i
      BY <1>4
    <3> QED BY <1>7, <3>1, <3>2
  <2> QED BY <1>1, <1>7, <1>9, <2>1
<1>15. Filters(Kept(s, S), s, S, f)
  BY <1>10, <1>11, <1>12, <1>13, <1>14 DEF Filters
<1> QED BY <1>2, <1>5, <1>7, <1>12, <1>15

LEMMA KeptSet ==
    ASSUME NEW X, NEW s \in Seq(X), NEW S
    PROVE  Kept(s, S) \in Seq(X) /\ ToSet(Kept(s, S)) = ToSet(s) \cap S
<1>1. PICK t \in Seq(X) : t = Kept(s, S) /\ \E f : Filters(t, s, S, f)
  BY KeptPlaces
<1>2. PICK f : Filters(t, s, S, f)
  BY <1>1
<1>3. DOMAIN t = 1 .. Len(t) /\ \A k \in 1 .. Len(t) : t[k] = s[f[k]] /\ f[k] \in DOMAIN s
  BY <1>2 DEF Filters
<1>4. ASSUME NEW x \in ToSet(t) PROVE x \in ToSet(s) \cap S
  BY <1>2, <1>3, <1>4 DEF ToSet, Filters
<1>5. ASSUME NEW x \in ToSet(s) \cap S PROVE x \in ToSet(t)
  <2>1. PICK i \in DOMAIN s : x = s[i]
    BY <1>5 DEF ToSet
  <2>2. PICK k \in 1 .. Len(t) : f[k] = i
    BY <1>2, <1>5, <2>1 DEF Filters
  <2> QED BY <1>3, <2>1, <2>2 DEF ToSet
<1> QED BY <1>1, <1>4, <1>5

\* The first of the elements that pass; there is none exactly when none passes.
LEMMA FirstKept ==
    ASSUME NEW X, NEW s \in Seq(X), NEW S
    PROVE  /\ Kept(s, S) # << >> => Head(Kept(s, S)) \in ToSet(s) \cap S
           /\ Kept(s, S) = << >> <=> ToSet(s) \cap S = {}
<1>1. PICK t \in Seq(X) : t = Kept(s, S) /\ ToSet(t) = ToSet(s) \cap S
  BY KeptSet
<1>2. t # << >> => Head(t) = t[1] /\ 1 \in DOMAIN t
  OBVIOUS
<1>3. t # << >> => Head(t) \in ToSet(t)
  BY <1>2 DEF ToSet
<1>4. t = << >> => ToSet(t) = {}
  BY DEF ToSet
<1> QED BY <1>1, <1>3, <1>4

\* The elements of a finite set as a sequence.
LEMMA ListedSet ==
    ASSUME NEW S, IsFiniteSet(S)
    PROVE  SetToSeq(S) \in Seq(S) /\ ToSet(SetToSeq(S)) = S
<1>1. PICK n \in Nat : n = Cardinality(S) /\ ExistsBijection(1 .. n, S)
  BY FS_CardinalityType
<1>2. \E f \in [1 .. n -> S] : IsInjective(f)
  BY <1>1 DEF ExistsBijection, Bijection, Injection, IsInjective
<1>3. SetToSeq(S) \in [1 .. n -> S] /\ IsInjective(SetToSeq(S))
  BY <1>1, <1>2 DEF SetToSeq
<1>4. SetToSeq(S) \in Injection(1 .. n, S) /\ IsFiniteSet(1 .. n) /\ Cardinality(1 .. n) = n
  BY <1>3, FS_Interval DEF Injection
<1>5. SetToSeq(S) \in Surjection(1 .. n, S)
  BY <1>1, <1>4, FS_Injection
<1> QED BY <1>3, <1>5 DEF ToSet, Surjection

LEMMA NoElement ==
    ASSUME NEW X
    PROVE  <<>> \in Seq(X) /\ Len(<<>>) = 0 /\ DOMAIN <<>> = {}
OBVIOUS

LEMMA OneElement ==
    ASSUME NEW X, NEW x \in X
    PROVE  <<x>> \in Seq(X) /\ Len(<<x>>) = 1 /\ DOMAIN <<x>> = {1} /\ <<x>>[1] = x
<1>1. <<x>> \in Seq(X) /\ Len(<<x>>) = 1 /\ <<x>>[1] = x
  OBVIOUS
<1>2. DOMAIN <<x>> = 1 .. 1
  BY <1>1
<1> QED BY <1>1, <1>2

LEMMA OnlyElement ==
    ASSUME NEW X, NEW x \in X
    PROVE  <<x>> \in Seq(X) /\ ToSet(<<x>>) = {x}
<1>1. PICK s \in Seq(X) : s = <<x>> /\ DOMAIN s = {1} /\ s[1] = x
  BY OneElement
<1> QED BY <1>1 DEF ToSet

LEMMA TwoElements ==
    ASSUME NEW X, NEW x \in X, NEW y \in X
    PROVE  /\ <<x, y>> \in Seq(X) /\ Len(<<x, y>>) = 2 /\ DOMAIN <<x, y>> = {1, 2}
           /\ <<x, y>>[1] = x /\ <<x, y>>[2] = y
<1>1. <<x, y>> \in Seq(X) /\ Len(<<x, y>>) = 2 /\ <<x, y>>[1] = x /\ <<x, y>>[2] = y
  OBVIOUS
<1>2. DOMAIN <<x, y>> = 1 .. 2
  BY <1>1
<1> QED BY <1>1, <1>2

LEMMA OnlyElements ==
    ASSUME NEW X, NEW x \in X, NEW y \in X
    PROVE  <<x, y>> \in Seq(X) /\ ToSet(<<x, y>>) = {x, y}
<1>1. PICK s : s = <<x, y>>
  OBVIOUS
<1>2. s \in Seq(X) /\ DOMAIN s = {1, 2} /\ s[1] = x /\ s[2] = y
  BY <1>1, TwoElements
<1>3. ToSet(s) = {x, y}
  BY <1>2 DEF ToSet
<1> QED BY <1>1, <1>2, <1>3, Zenon

LEMMA OneMore ==
    ASSUME NEW X, NEW s \in Seq(X), NEW x \in X
    PROVE  /\ Append(s, x) \in Seq(X) /\ Len(Append(s, x)) = Len(s) + 1
           /\ \A i \in 1 .. Len(s) : Append(s, x)[i] = s[i]
           /\ Append(s, x)[Len(s) + 1] = x
OBVIOUS

LEMMA OneAdded ==
    ASSUME NEW X, NEW s \in Seq(X), NEW x \in X
    PROVE  Append(s, x) \in Seq(X) /\ ToSet(Append(s, x)) = ToSet(s) \cup {x}
<1>1. PICK t \in Seq(X) :
        /\ t = Append(s, x) /\ Len(t) = Len(s) + 1
        /\ \A i \in 1 .. Len(s) : t[i] = s[i]
        /\ t[Len(s) + 1] = x
  <2>1. Append(s, x) \in Seq(X)
    OBVIOUS
  <2> QED BY <2>1, OneMore
<1>2. PICK n \in Nat : n = Len(s) /\ DOMAIN s = 1 .. n /\ DOMAIN t = 1 .. n + 1
  BY <1>1
<1>3. \A y : y \in ToSet(t) <=> \E i \in 1 .. n + 1 : t[i] = y
  BY <1>2 DEF ToSet
<1>4. \A y : y \in ToSet(s) <=> \E i \in 1 .. n : s[i] = y
  BY <1>2 DEF ToSet
<1>5. \A i \in 1 .. n + 1 : i \in 1 .. n \/ i = n + 1
  OBVIOUS
<1>6. (\A i \in 1 .. n : i \in 1 .. n + 1 /\ t[i] = s[i]) /\ n + 1 \in 1 .. n + 1 /\ t[n + 1] = x
  BY <1>1, <1>2
<1>7. \A y : y \in ToSet(t) <=> y \in ToSet(s) \/ y = x
  BY <1>3, <1>4, <1>5, <1>6
<1> QED BY <1>1, <1>7

LEMMA JoinedSet ==
    ASSUME NEW X, NEW s \in Seq(X), NEW t \in Seq(X)
    PROVE  s \o t \in Seq(X) /\ ToSet(s \o t) = ToSet(s) \cup ToSet(t)
<1>1. PICK r \in Seq(X) : r = s \o t
  BY Joined, Zenon
<1>2. Joins(r, s, t)
  BY <1>1, Joined, Zenon
<1>3. PICK m \in Nat, n \in Nat : m = Len(s) /\ n = Len(t) /\ DOMAIN s = 1 .. m /\ DOMAIN t = 1 .. n
  OBVIOUS
<1>4. /\ DOMAIN r = 1 .. m + n
      /\ \A i \in 1 .. m : r[i] = s[i]
      /\ \A i \in 1 .. n : r[m + i] = t[i]
  BY <1>2, <1>3 DEF Joins
<1>5. ASSUME NEW x \in ToSet(r) PROVE x \in ToSet(s) \cup ToSet(t)
  <2>1. PICK i \in 1 .. m + n : x = r[i]
    BY <1>4, <1>5 DEF ToSet
  <2>2. CASE i \in 1 .. m
    BY <1>3, <1>4, <2>1, <2>2 DEF ToSet
  <2>3. CASE i \notin 1 .. m
    <3>1. PICK k \in 1 .. n : i = m + k
      <4>1. i - m \in 1 .. n /\ i = m + (i - m)
        BY <2>3
      <4> QED BY <4>1
    <3> QED BY <1>3, <1>4, <2>1, <3>1 DEF ToSet
  <2> QED BY <2>2, <2>3
<1>6. ASSUME NEW x \in ToSet(s) PROVE x \in ToSet(r)
  <2>1. PICK i \in 1 .. m : x = s[i]
    BY <1>3, <1>6 DEF ToSet
  <2>2. i \in 1 .. m + n
    OBVIOUS
  <2> QED BY <1>4, <2>1, <2>2 DEF ToSet
<1>7. ASSUME NEW x \in ToSet(t) PROVE x \in ToSet(r)
  <2>1. PICK i \in 1 .. n : x = t[i]
    BY <1>3, <1>7 DEF ToSet
  <2>2. m + i \in 1 .. m + n
    OBVIOUS
  <2> QED BY <1>4, <2>1, <2>2 DEF ToSet
<1>8. ToSet(r) = ToSet(s) \cup ToSet(t)
  BY <1>5, <1>6, <1>7
<1> QED BY <1>1, <1>8

LEMMA FirstAndRest ==
    ASSUME NEW X, NEW s \in Seq(X), s # << >>
    PROVE  Head(s) \in X /\ Tail(s) \in Seq(X) /\ ToSet(s) = {Head(s)} \cup ToSet(Tail(s))
<1>1. PICK n \in Nat : n = Len(s) /\ n > 0 /\ DOMAIN s = 1 .. n
  OBVIOUS
<1>2. PICK t \in Seq(X) :
        t = Tail(s) /\ DOMAIN t = 1 .. n - 1 /\ \A i \in 1 .. n - 1 : t[i] = s[i + 1]
  <2>1. PICK t : t = Tail(s)
    OBVIOUS
  <2>2. t \in Seq(X) /\ Len(t) = n - 1
    BY <1>1, <2>1
  <2>3. \A i \in 1 .. n - 1 : t[i] = s[i + 1]
    BY <1>1, <2>1
  <2>4. DOMAIN t = 1 .. n - 1
    BY <2>2
  <2> QED BY <2>1, <2>2, <2>3, <2>4, Zenon
<1>3. Head(s) = s[1] /\ 1 \in 1 .. n
  BY <1>1
<1>4. ASSUME NEW x \in ToSet(s) PROVE x = Head(s) \/ x \in ToSet(t)
  <2>1. PICK i \in 1 .. n : x = s[i]
    BY <1>1, <1>4 DEF ToSet
  <2>2. i # 1 => i - 1 \in 1 .. n - 1 /\ (i - 1) + 1 = i
    OBVIOUS
  <2> QED BY <1>2, <1>3, <2>1, <2>2 DEF ToSet
<1>5. ASSUME NEW x \in ToSet(t) PROVE x \in ToSet(s)
  <2>1. PICK i \in 1 .. n - 1 : x = s[i + 1]
    BY <1>2, <1>5 DEF ToSet
  <2>2. i + 1 \in 1 .. n
    OBVIOUS
  <2> QED BY <1>1, <2>1, <2>2 DEF ToSet
<1>6. Head(s) \in ToSet(s) /\ Head(s) \in X
  BY <1>1, <1>3 DEF ToSet
<1> QED BY <1>2, <1>4, <1>5, <1>6

\* A sequence without its last element, and with another in its place.
LEMMA LastReplaced ==
    ASSUME NEW X, NEW s \in Seq(X), s # <<>>, NEW x \in X
    PROVE  /\ Len(s) \in Nat \ {0} /\ Last(s) = s[Len(s)] /\ Last(s) \in X
           /\ Front(s) \in Seq(X) /\ Len(Front(s)) = Len(s) - 1
           /\ \A i \in 1 .. Len(s) - 1 : Front(s)[i] = s[i]
           /\ Append(Front(s), x) \in Seq(X) /\ Len(Append(Front(s), x)) = Len(s)
           /\ \A i \in 1 .. Len(s) - 1 : Append(Front(s), x)[i] = s[i]
           /\ Append(Front(s), x)[Len(s)] = x
<1>1. PICK n \in Nat \ {0} : n = Len(s)
  OBVIOUS
<1>2. Last(s) = s[n] /\ s[n] \in X
  BY <1>1 DEF Last
<1>3. PICK f \in Seq(X) : f = Front(s) /\ Len(f) = n - 1 /\ \A i \in 1 .. n - 1 : f[i] = s[i]
  <2>1. Front(s) = [i \in 1 .. n - 1 |-> s[i]]
    BY <1>1 DEF Front
  <2> QED BY <1>1, <2>1
<1>4. PICK m \in Nat : m = n - 1 /\ m + 1 = n /\ m = Len(f)
  BY <1>1, <1>3
<1>5. /\ Append(f, x) \in Seq(X) /\ Len(Append(f, x)) = m + 1
      /\ \A i \in 1 .. m : Append(f, x)[i] = f[i]
      /\ Append(f, x)[m + 1] = x
  BY <1>4
<1> QED BY <1>1, <1>2, <1>3, <1>4, <1>5

\* R orders the members of I, each before itself.
Orders(R, I) ==
    /\ \A i \in I : <<i, i>> \in R
    /\ \A i, j \in I : <<i, j>> \in R \/ <<j, i>> \in R
    /\ \A i, j \in I : <<i, j>> \in R /\ <<j, i>> \in R => i = j
    /\ \A i, j, k \in I : <<i, j>> \in R /\ <<j, k>> \in R => <<i, k>> \in R

\* By two numbers of each place, the second where the first are equal, and by the place.
NotAfter(first, second, i, j) ==
    \/ first[i] < first[j]
    \/ first[i] = first[j] /\ (second[i] < second[j] \/ (second[i] = second[j] /\ i <= j))

LEMMA NumbersOrder ==
    ASSUME NEW n \in Nat, NEW first \in [1 .. n -> Nat], NEW second \in [1 .. n -> Nat], NEW R,
           \A i, j \in 1 .. n : <<i, j>> \in R <=> NotAfter(first, second, i, j)
    PROVE  Orders(R, 1 .. n)
<1> DEFINE L(i, j) == NotAfter(first, second, i, j)
<1>1. /\ \A i \in 1 .. n : L(i, i)
      /\ \A i, j \in 1 .. n : L(i, j) \/ L(j, i)
      /\ \A i, j \in 1 .. n : L(i, j) /\ L(j, i) => i = j
      /\ \A i, j, k \in 1 .. n : L(i, j) /\ L(j, k) => L(i, k)
  BY DEF NotAfter
<1>2. \A i, j \in 1 .. n : <<i, j>> \in R <=> L(i, j)
  OBVIOUS
<1> HIDE DEF L
<1> QED BY <1>1, <1>2, Zenon DEF Orders

\* A sorted array has the elements of the original one, in the order of the sort.
LEMMA ArrangedPlaces ==
    ASSUME NEW X, NEW s \in Seq(X), NEW R, Orders(R, DOMAIN s)
    PROVE  /\ Arranged(s, R) \in Seq(X) /\ Len(Arranged(s, R)) = Len(s)
           /\ \E f \in [DOMAIN s -> DOMAIN s] :
                /\ Arranged(s, R) = [k \in DOMAIN s |-> s[f[k]]]
                /\ \A i \in DOMAIN s : \E k \in DOMAIN s : f[k] = i
                /\ \A k, l \in DOMAIN s : k < l => <<f[k], f[l]>> \in R
<1>0. PICK n \in Nat : n = Len(s) /\ DOMAIN s = 1 .. n
  OBVIOUS
<1>1. PICK I : I = DOMAIN s /\ I = 1 .. n
  BY <1>0
<1>2. IsFiniteSet(I) /\ Cardinality(I) = n
  <2>1. IsFiniteSet(1 .. n) /\ Cardinality(1 .. n) = n
    BY FS_Interval
  <2> QED BY <1>1, <2>1
<1> DEFINE Before(i) == {j \in I : <<j, i>> \in R}
<1>3. \A i \in I : /\ Before(i) \subseteq I /\ IsFiniteSet(Before(i)) /\ Cardinality(Before(i)) \in Nat
                   /\ Cardinality(Before(i)) <= n /\ Cardinality(Before(i)) # 0
  <2>1. ASSUME NEW i \in I
        PROVE  /\ Before(i) \subseteq I /\ i \in Before(i)
               /\ IsFiniteSet(Before(i)) /\ Cardinality(Before(i)) <= n
    <3>1. Before(i) \subseteq I /\ i \in Before(i)
      BY <1>1 DEF Orders
    <3> HIDE DEF Before
    <3> QED BY <1>2, <3>1, FS_Subset
  <2> HIDE DEF Before
  <2> QED BY <2>1, FS_CardinalityType, FS_EmptySet
<1>4. \A i, j \in I : i # j /\ <<i, j>> \in R => Cardinality(Before(i)) < Cardinality(Before(j))
  <2>1. ASSUME NEW i \in I, NEW j \in I, i # j, <<i, j>> \in R
        PROVE  Before(i) \subseteq Before(j) /\ Before(i) # Before(j)
    <3>1. Before(i) \subseteq Before(j)
      BY <1>1, <2>1 DEF Orders
    <3>2. j \in Before(j) /\ j \notin Before(i)
      BY <1>1, <2>1 DEF Orders
    <3> QED BY <3>1, <3>2
  <2> HIDE DEF Before
  <2>2. ASSUME NEW i \in I, NEW j \in I, i # j, <<i, j>> \in R
        PROVE  Cardinality(Before(i)) <= Cardinality(Before(j)) /\ Cardinality(Before(i)) # Cardinality(Before(j))
    BY <1>3, <2>1, <2>2, FS_Subset
  <2> QED BY <1>3, <2>2
<1>5. PICK rank : rank = [i \in I |-> Cardinality(Before(i))]
  OBVIOUS
<1>6. PICK f : f = [k \in I |-> CHOOSE i \in I : rank[i] = k]
  OBVIOUS
<1>7. Arranged(s, R) = [k \in I |-> s[f[k]]]
  BY <1>1, <1>5, <1>6 DEF Arranged
<1> HIDE DEF Before
<1>8. rank \in [I -> I]
  BY <1>1, <1>3, <1>5
<1>9. \A i, j \in I : i # j /\ <<i, j>> \in R => rank[i] < rank[j]
  BY <1>4, <1>5
<1>10. rank \in Injection(I, I)
  <2>1. \A i, j \in I : rank[i] = rank[j] => i = j
    <3>1. \A i \in I : rank[i] \in Nat
      BY <1>1, <1>8
    <3>2. \A i, j \in I : i # j => rank[i] < rank[j] \/ rank[j] < rank[i]
      BY <1>1, <1>9 DEF Orders
    <3> QED BY <3>1, <3>2
  <2> QED BY <1>8, <2>1 DEF Injection, IsInjective
<1>11. rank \in Surjection(I, I)
  BY <1>2, <1>10, FS_Injection
<1>12. \A k \in I : f[k] \in I /\ rank[f[k]] = k
  BY <1>6, <1>11 DEF Surjection
<1>13. f \in [I -> I]
  BY <1>6, <1>12
<1>14. \A i \in I : \E k \in I : f[k] = i
  <2>1. \A i, j \in I : rank[i] = rank[j] => i = j
    BY <1>10 DEF Injection, IsInjective
  <2>2. \A i \in I : rank[i] \in I /\ f[rank[i]] = i
    BY <1>8, <1>12, <2>1
  <2> QED BY <2>2
<1>15. ASSUME NEW k \in I, NEW l \in I, k < l PROVE <<f[k], f[l]>> \in R
  <2>1. f[k] # f[l] /\ ~ rank[f[l]] < rank[f[k]] /\ f[k] \in I /\ f[l] \in I
    BY <1>1, <1>12, <1>15
  <2>2. ~ <<f[l], f[k]>> \in R
    BY <1>9, <2>1
  <2> QED BY <1>1, <2>1, <2>2 DEF Orders
<1>16. Arranged(s, R) \in Seq(X) /\ Len(Arranged(s, R)) = n
  <2>1. \A k \in 1 .. n : s[f[k]] \in X
    BY <1>0, <1>1, <1>13
  <2>2. Arranged(s, R) = [k \in 1 .. n |-> s[f[k]]]
    BY <1>1, <1>7
  <2> QED BY <2>1, <2>2
<1> QED BY <1>0, <1>1, <1>7, <1>13, <1>14, <1>15, <1>16

LEMMA ArrangedSet ==
    ASSUME NEW X, NEW s \in Seq(X), NEW R, Orders(R, DOMAIN s)
    PROVE  Arranged(s, R) \in Seq(X) /\ ToSet(Arranged(s, R)) = ToSet(s)
<1>0. PICK t \in Seq(X) : t = Arranged(s, R)
  BY ArrangedPlaces
<1>1. PICK f \in [DOMAIN s -> DOMAIN s] :
         /\ Arranged(s, R) = [k \in DOMAIN s |-> s[f[k]]]
         /\ \A i \in DOMAIN s : \E k \in DOMAIN s : f[k] = i
         /\ \A k, l \in DOMAIN s : k < l => <<f[k], f[l]>> \in R
  BY ArrangedPlaces, Zenon
<1>2. t = [k \in DOMAIN s |-> s[f[k]]]
  BY <1>0, <1>1
<1>3. ToSet(t) = ToSet(s)
  BY <1>1, <1>2 DEF ToSet
<1> QED BY <1>0, <1>3
-----------------------------------------------------------------------------
(* Induction and recursion over the natural numbers, for sets and functions. *)

\* What holds of zero, and of the successor of all that it holds of, holds of all.
LEMMA Induction ==
    ASSUME NEW P, 0 \in P, \A n \in Nat : n \in P => n + 1 \in P
    PROVE  \A n \in Nat : n \in P
<1> SUFFICES ASSUME NEW n \in Nat, n \notin P PROVE FALSE
  OBVIOUS
<1>1. PICK I : I = {i \in 0 .. n : i \notin P}
  OBVIOUS
<1>2. I \in SUBSET (0 .. n) /\ I # {}
  BY <1>1
<1>3. PICK i \in I : \A j \in I : i <= j
  BY <1>2, Smallest
<1>4. i \in 0 .. n /\ i # 0 /\ i \notin P
  BY <1>1
<1>5. i - 1 \in 0 .. n /\ i - 1 \notin I /\ i - 1 \in Nat /\ (i - 1) + 1 = i
  <2>1. i - 1 \in 0 .. n /\ i - 1 \in Nat /\ (i - 1) + 1 = i /\ ~ i <= i - 1
    BY <1>4
  <2> QED BY <1>3, <2>1
<1> QED BY <1>1, <1>4, <1>5

\* F yields the values of f from start on, each from its predecessor.
Recurs(f, S, start, F) ==
    f \in [Nat -> S] /\ f[0] = start /\ \A n \in Nat : f[n + 1] = F[<<n, f[n]>>]

\* A value for zero, and one for each number from that of its predecessor, make a function.
LEMMA Recursion ==
    ASSUME NEW S, NEW start \in S, NEW F \in [Nat \X S -> S]
    PROVE  \E f : Recurs(f, S, start, F)
<1> DEFINE Upto(n, f) == /\ f \in [0 .. n -> S] /\ f[0] = start
                         /\ \A k \in 0 .. n - 1 : f[k + 1] = F[<<k, f[k]>>]
<1>1. \A n \in Nat : \E f : Upto(n, f)
  <2>1. PICK P : P = {n \in Nat : \E f : Upto(n, f)}
    OBVIOUS
  <2>2. 0 \in P
    <3>1. PICK f : f = [k \in 0 .. 0 |-> start]
      OBVIOUS
    <3>2. Upto(0, f)
      BY <3>1
    <3> HIDE DEF Upto
    <3> QED BY <2>1, <3>2
  <2>3. ASSUME NEW n \in Nat, n \in P PROVE n + 1 \in P
    <3>1. PICK f : Upto(n, f)
      BY <2>1, <2>3
    <3>2. PICK g : g = [k \in 0 .. n + 1 |-> IF k = n + 1 THEN F[<<n, f[n]>>] ELSE f[k]]
      OBVIOUS
    <3>3. f[n] \in S /\ F[<<n, f[n]>>] \in S
      BY <3>1
    <3>4. g \in [0 .. n + 1 -> S] /\ g[0] = start
      BY <3>1, <3>2, <3>3
    <3>5. ASSUME NEW k \in 0 .. (n + 1) - 1
          PROVE  g[k + 1] = F[<<k, g[k]>>]
      <4>1. CASE k = n
        <5>1. k + 1 = n + 1 /\ n \in 0 .. n + 1 /\ n # n + 1 /\ n + 1 \in 0 .. n + 1
          BY <4>1
        <5> QED BY <3>2, <4>1, <5>1
      <4>2. CASE k # n
        <5>1. k \in 0 .. n - 1 /\ k + 1 \in 0 .. n + 1 /\ k \in 0 .. n + 1 /\ k + 1 # n + 1 /\ k # n + 1
          BY <4>2
        <5> QED BY <3>1, <3>2, <5>1
      <4> QED BY <4>1, <4>2
    <3>6. Upto(n + 1, g)
      BY <3>4, <3>5
    <3> HIDE DEF Upto
    <3> QED BY <2>1, <3>6
  <2> HIDE DEF Upto
  <2> QED BY <2>1, <2>2, <2>3, Induction
<1>2. ASSUME NEW m \in Nat, NEW n \in Nat, m <= n, NEW f, NEW g, Upto(m, f), Upto(n, g)
      PROVE  \A k \in 0 .. m : f[k] = g[k]
  <2>1. PICK P : P = {k \in Nat : k <= m => f[k] = g[k]}
    OBVIOUS
  <2>2. 0 \in P
    BY <1>2, <2>1
  <2>3. ASSUME NEW k \in Nat, k \in P PROVE k + 1 \in P
    <3>1. CASE k + 1 <= m
      <4>1. k \in 0 .. m - 1 /\ k \in 0 .. n - 1 /\ k <= m
        BY <1>2, <3>1
      <4>2. f[k] = g[k] /\ k + 1 \in Nat
        BY <2>1, <2>3, <4>1
      <4>3. f[k + 1] = F[<<k, f[k]>>] /\ g[k + 1] = F[<<k, g[k]>>]
        BY <1>2, <4>1
      <4> QED BY <2>1, <4>2, <4>3
    <3>2. CASE ~ k + 1 <= m
      <4>1. k + 1 \in Nat
        OBVIOUS
      <4> QED BY <2>1, <3>2, <4>1
    <3> QED BY <3>1, <3>2
  <2>4. \A k \in Nat : k \in P
    BY <2>2, <2>3, Induction
  <2> QED BY <2>1, <2>4
<1>3. PICK parts : parts = [n \in Nat |-> CHOOSE f : Upto(n, f)]
  OBVIOUS
<1>4. \A n \in Nat : Upto(n, parts[n])
  <2> HIDE DEF Upto
  <2> QED BY <1>1, <1>3
<1>5. PICK f : f = [n \in Nat |-> parts[n][n]]
  OBVIOUS
<1>6. f \in [Nat -> S] /\ f[0] = start
  <2>1. \A n \in Nat : parts[n] \in [0 .. n -> S] /\ parts[n][0] = start
    BY <1>4
  <2> QED BY <1>5, <2>1
<1>7. ASSUME NEW n \in Nat
      PROVE  f[n + 1] = F[<<n, f[n]>>]
  <2>1. n \in 0 .. n /\ n \in 0 .. (n + 1) - 1 /\ n + 1 \in Nat /\ n <= n + 1
    OBVIOUS
  <2>2. parts[n][n] = parts[n + 1][n]
    <3>1. Upto(n, parts[n]) /\ Upto(n + 1, parts[n + 1])
      BY <1>4, <2>1
    <3> HIDE DEF Upto
    <3> QED BY <1>2, <2>1, <3>1
  <2>3. parts[n + 1][n + 1] = F[<<n, parts[n + 1][n]>>]
    BY <1>4, <2>1
  <2> QED BY <1>5, <2>1, <2>2, <2>3
<1> QED BY <1>6, <1>7 DEF Recurs

-----------------------------------------------------------------------------
(* Filtering again.                                                         *)

\* There is one way to filter an array.
LEMMA FiltersOnce ==
    ASSUME NEW s, DOMAIN s \subseteq Nat, NEW S,
           NEW m \in Nat, NEW n \in Nat, NEW t, NEW u, Len(t) = m, Len(u) = n,
           NEW f, NEW g, Filters(t, s, S, f), Filters(u, s, S, g)
    PROVE  t = u
<1>1. /\ f \in [1 .. m -> DOMAIN s] /\ g \in [1 .. n -> DOMAIN s]
      /\ t = [k \in 1 .. m |-> s[f[k]]] /\ u = [k \in 1 .. n |-> s[g[k]]]
      /\ \A k, l \in 1 .. m : k < l <=> f[k] < f[l]
      /\ \A k, l \in 1 .. n : k < l <=> g[k] < g[l]
      /\ \A i \in DOMAIN s : (\E k \in 1 .. m : f[k] = i) <=> (\E k \in 1 .. n : g[k] = i)
  BY DEF Filters
<1>2. \A k \in 1 .. m : f[k] \in Nat
  BY <1>1
<1>3. \A k \in 1 .. n : g[k] \in Nat
  BY <1>1
<1>4. ASSUME NEW k \in 1 .. m, k \in 1 .. n, \A l \in 1 .. k - 1 : f[l] = g[l]
      PROVE  f[k] = g[k]
  <2>1. PICK i \in 1 .. n : g[i] = f[k]
    BY <1>1
  <2>2. PICK j \in 1 .. m : f[j] = g[k]
    BY <1>1, <1>4
  <2>3. CASE f[k] < g[k]
    <3>1. i < k /\ i \in 1 .. k - 1 /\ i \in 1 .. m
      BY <1>1, <1>4, <2>1, <2>3
    <3>2. f[i] = f[k] /\ f[i] < f[k]
      BY <1>1, <1>4, <2>1, <3>1
    <3> QED BY <1>2, <3>2
  <2>4. CASE g[k] < f[k]
    <3>1. j < k /\ j \in 1 .. k - 1 /\ j \in 1 .. n
      BY <1>1, <1>4, <2>2, <2>4
    <3>2. g[j] = g[k] /\ g[j] < g[k]
      BY <1>1, <1>4, <2>2, <3>1
    <3> QED BY <1>3, <1>4, <3>2
  <2> QED BY <1>2, <1>3, <1>4, <2>3, <2>4
<1>5. \A k \in Nat : k \in 1 .. m /\ k \in 1 .. n => f[k] = g[k]
  <2>1. PICK P : P = {k \in Nat : \A l \in 1 .. k : l \in 1 .. m /\ l \in 1 .. n => f[l] = g[l]}
    OBVIOUS
  <2>2. 0 \in P
    BY <2>1
  <2>3. ASSUME NEW k \in Nat, k \in P PROVE k + 1 \in P
    <3>1. k + 1 \in 1 .. m /\ k + 1 \in 1 .. n => f[k + 1] = g[k + 1]
      <4> SUFFICES ASSUME k + 1 \in 1 .. m, k + 1 \in 1 .. n PROVE f[k + 1] = g[k + 1]
        OBVIOUS
      <4>1. \A l \in 1 .. (k + 1) - 1 : f[l] = g[l]
        BY <2>1, <2>3
      <4> QED BY <1>4, <4>1
    <3>2. \A l \in 1 .. k + 1 : l = k + 1 \/ l \in 1 .. k
      OBVIOUS
    <3> QED BY <2>1, <2>3, <3>1, <3>2
  <2>4. \A k \in Nat : k \in P
    BY <2>2, <2>3, Induction
  <2> QED BY <2>1, <2>4
<1>6. m = n
  <2>1. CASE m < n
    <3>1. m + 1 \in 1 .. n
      BY <2>1
    <3>2. PICK i \in 1 .. m : f[i] = g[m + 1]
      BY <1>1, <3>1
    <3>3. g[i] = g[m + 1] /\ i \in 1 .. n /\ i < m + 1
      BY <1>5, <2>1, <3>2
    <3> QED BY <1>1, <1>3, <3>1, <3>3
  <2>2. CASE n < m
    <3>1. n + 1 \in 1 .. m
      BY <2>2
    <3>2. PICK i \in 1 .. n : g[i] = f[n + 1]
      BY <1>1, <3>1
    <3>3. f[i] = f[n + 1] /\ i \in 1 .. m /\ i < n + 1
      BY <1>5, <2>2, <3>2
    <3> QED BY <1>1, <1>2, <3>1, <3>3
  <2> QED BY <2>1, <2>2
<1> QED BY <1>1, <1>5, <1>6

\* Of the elements X, T lets no other pass than S.
Narrows(T, S, X) == \A x \in X : x \in T => x \in S

\* A filter within a filter.
LEMMA KeptWithin ==
    ASSUME NEW X, NEW s \in Seq(X), NEW S, NEW T, Narrows(T, S, X)
    PROVE  Kept(Kept(s, S), T) = Kept(s, T)
<1>1. PICK t \in Seq(X) : t = Kept(s, S) /\ \E f : Filters(t, s, S, f)
  BY KeptPlaces
<1>2. PICK f : Filters(t, s, S, f)
  BY <1>1
<1>3. PICK u \in Seq(X) : u = Kept(t, T) /\ \E g : Filters(u, t, T, g)
  BY KeptPlaces
<1>4. PICK g : Filters(u, t, T, g)
  BY <1>3
<1>5. PICK v \in Seq(X) : v = Kept(s, T) /\ \E h : Filters(v, s, T, h)
  BY KeptPlaces
<1>6. PICK m \in Nat, n \in Nat : m = Len(t) /\ n = Len(u) /\ DOMAIN t = 1 .. m /\ DOMAIN u = 1 .. n
  OBVIOUS
<1>7. PICK h : h = [k \in 1 .. n |-> f[g[k]]]
  OBVIOUS
<1>8. /\ f \in [1 .. m -> DOMAIN s] /\ g \in [1 .. n -> 1 .. m]
      /\ t = [k \in 1 .. m |-> s[f[k]]] /\ u = [k \in 1 .. n |-> t[g[k]]]
      /\ \A k, l \in 1 .. m : k < l <=> f[k] < f[l]
      /\ \A k, l \in 1 .. n : k < l <=> g[k] < g[l]
      /\ \A i \in DOMAIN s : s[i] \in S <=> \E k \in 1 .. m : f[k] = i
      /\ \A i \in 1 .. m : t[i] \in T <=> \E k \in 1 .. n : g[k] = i
  BY <1>2, <1>4, <1>6 DEF Filters
<1>9. h \in [1 .. n -> DOMAIN s] /\ u = [k \in 1 .. n |-> s[h[k]]]
  BY <1>7, <1>8
<1>10. \A k, l \in 1 .. n : k < l <=> h[k] < h[l]
  BY <1>7, <1>8
<1>11. \A i \in DOMAIN s : s[i] \in T <=> \E k \in 1 .. n : h[k] = i
  <2>1. ASSUME NEW i \in DOMAIN s, s[i] \in T PROVE \E k \in 1 .. n : h[k] = i
    <3>1. s[i] \in S
      <4>1. s[i] \in X
        OBVIOUS
      <4> QED BY <2>1, <4>1 DEF Narrows
    <3>2. PICK k \in 1 .. m : f[k] = i
      BY <1>8, <3>1
    <3>3. PICK l \in 1 .. n : g[l] = k
      BY <1>8, <2>1, <3>2
    <3> QED BY <1>7, <3>2, <3>3
  <2>2. ASSUME NEW k \in 1 .. n PROVE s[h[k]] \in T
    BY <1>7, <1>8
  <2> QED BY <2>1, <2>2
<1>12. Filters(u, s, T, h)
  BY <1>6, <1>9, <1>10, <1>11 DEF Filters
<1>13. PICK w : Filters(v, s, T, w)
  BY <1>5
<1>14. u = v
  <2>1. DOMAIN s \subseteq Nat /\ Len(v) \in Nat
    OBVIOUS
  <2> QED BY <1>6, <1>12, <1>13, <2>1, FiltersOnce
<1> QED BY <1>1, <1>3, <1>5, <1>14

\* r is s and one more element.
Adds(r, s, x) == r = Append(s, x)

\* An element that passes is the last of those kept.
LEMMA KeptMore ==
    ASSUME NEW X, NEW s \in Seq(X), NEW S, NEW x \in X, x \in S,
           NEW kept, kept = Kept(s, S), NEW longer, Adds(longer, s, x)
    PROVE  Adds(Kept(longer, S), kept, x)
<1>1. PICK t \in Seq(X) : t = Kept(s, S) /\ \E f : Filters(t, s, S, f)
  BY KeptPlaces
<1>2. PICK f : Filters(t, s, S, f)
  BY <1>1
<1>3. PICK m \in Nat, n \in Nat : m = Len(s) /\ n = Len(t) /\ DOMAIN s = 1 .. m /\ DOMAIN t = 1 .. n
  OBVIOUS
<1>4. PICK r \in Seq(X) :
        /\ r = Append(s, x) /\ Len(r) = m + 1 /\ DOMAIN r = 1 .. m + 1
        /\ \A i \in 1 .. m : r[i] = s[i]
        /\ r[m + 1] = x
  <2>1. PICK r \in Seq(X) : r = Append(s, x)
    BY OneMore
  <2>2. Len(r) = m + 1 /\ (\A i \in 1 .. m : r[i] = s[i]) /\ r[m + 1] = x
    BY <1>3, <2>1, OneMore
  <2>3. DOMAIN r = 1 .. m + 1
    BY <2>2
  <2> QED BY <2>1, <2>2, <2>3, Zenon
<1>5. PICK u \in Seq(X) :
        /\ u = Append(t, x) /\ Len(u) = n + 1 /\ DOMAIN u = 1 .. n + 1
        /\ \A i \in 1 .. n : u[i] = t[i]
        /\ u[n + 1] = x
  <2>1. PICK u \in Seq(X) : u = Append(t, x)
    BY OneMore
  <2>2. Len(u) = n + 1 /\ (\A i \in 1 .. n : u[i] = t[i]) /\ u[n + 1] = x
    BY <1>3, <2>1, OneMore
  <2>3. DOMAIN u = 1 .. n + 1
    BY <2>2
  <2> QED BY <2>1, <2>2, <2>3, Zenon
<1>6. PICK g : g = [k \in 1 .. n + 1 |-> IF k = n + 1 THEN m + 1 ELSE f[k]]
  OBVIOUS
<1>7. /\ f \in [1 .. n -> 1 .. m] /\ t = [k \in 1 .. n |-> s[f[k]]]
      /\ \A k, l \in 1 .. n : k < l <=> f[k] < f[l]
      /\ \A i \in 1 .. m : s[i] \in S <=> \E k \in 1 .. n : f[k] = i
  BY <1>2, <1>3 DEF Filters
<1>8. \A k \in 1 .. n + 1 : k = n + 1 \/ k \in 1 .. n
  OBVIOUS
<1>9. g \in [1 .. n + 1 -> 1 .. m + 1]
  BY <1>6, <1>7, <1>8
<1>10. u = [k \in 1 .. n + 1 |-> r[g[k]]]
  <2>1. \A k \in 1 .. n + 1 : u[k] = r[g[k]]
    <3>1. \A k \in 1 .. n : u[k] = r[g[k]]
      BY <1>4, <1>5, <1>6, <1>7, <1>8
    <3>2. u[n + 1] = r[g[n + 1]]
      BY <1>4, <1>5, <1>6
    <3> QED BY <1>8, <3>1, <3>2
  <2>2. u = [k \in 1 .. n + 1 |-> u[k]]
    <3>1. u \in [1 .. Len(u) -> X]
      OBVIOUS
    <3>2. u \in [1 .. n + 1 -> X]
      BY <1>5, <3>1
    <3> QED BY <3>2
  <2> QED BY <2>1, <2>2
<1>11. \A k, l \in 1 .. n + 1 : k < l <=> g[k] < g[l]
  BY <1>6, <1>7, <1>8
<1>12. \A i \in 1 .. m + 1 : r[i] \in S <=> \E k \in 1 .. n + 1 : g[k] = i
  <2>1. ASSUME NEW i \in 1 .. m PROVE r[i] \in S <=> \E k \in 1 .. n + 1 : g[k] = i
    BY <1>4, <1>6, <1>7, <1>8
  <2>2. g[n + 1] = m + 1 /\ n + 1 \in 1 .. n + 1
    BY <1>6
  <2>3. \A i \in 1 .. m + 1 : i = m + 1 \/ i \in 1 .. m
    OBVIOUS
  <2> QED BY <1>4, <2>1, <2>2, <2>3
<1>13. Filters(u, r, S, g)
  BY <1>4, <1>5, <1>9, <1>10, <1>11, <1>12 DEF Filters
<1>14. PICK v \in Seq(X) : v = Kept(r, S) /\ \E h : Filters(v, r, S, h)
  BY KeptPlaces
<1>15. PICK h : Filters(v, r, S, h)
  BY <1>14
<1>16. u = v
  <2>1. DOMAIN r \subseteq Nat /\ Len(v) \in Nat /\ Len(u) \in Nat
    BY <1>4
  <2> QED BY <1>13, <1>15, <2>1, FiltersOnce
<1> QED BY <1>1, <1>4, <1>5, <1>14, <1>16 DEF Adds
-----------------------------------------------------------------------------
(* Reducing.                                                                *)

\* f has the values that F passes on, from start, along s.
Passes(f, S, F, start, s) ==
    /\ f \in [0 .. Len(s) -> S] /\ f[0] = start
    /\ \A n \in 1 .. Len(s) : f[n] = F[<<f[n - 1], s[n]>>]

LEMMA Accumulates ==
    ASSUME NEW S, NEW X, NEW start \in S, NEW F \in [S \X X -> S], NEW s \in Seq(X)
    PROVE  Passes(Accumulated(F, start, s), S, F, start, s)
<1>1. PICK m \in Nat : m = Len(s) /\ \A n \in 1 .. m : s[n] \in X
  OBVIOUS
<1>2. PICK G : G = [p \in Nat \X S |-> IF p[1] < m THEN F[<<p[2], s[p[1] + 1]>>] ELSE p[2]]
  OBVIOUS
<1>3. /\ \A n \in Nat, x \in S : n < m => G[<<n, x>>] = F[<<x, s[n + 1]>>] /\ F[<<x, s[n + 1]>>] \in S
      /\ \A n \in Nat, x \in S : ~ n < m => G[<<n, x>>] = x
  <2>1. ASSUME NEW n \in Nat, NEW x \in S, n < m PROVE F[<<x, s[n + 1]>>] \in S
    <3>1. s[n + 1] \in X
      BY <1>1, <2>1
    <3> QED BY <3>1
  <2> QED BY <1>2, <2>1
<1>4. G \in [Nat \X S -> S]
  <2>1. ASSUME NEW p \in Nat \X S PROVE G[p] \in S
    <3>1. PICK n \in Nat, x \in S : p = <<n, x>>
      OBVIOUS
    <3> QED BY <1>3, <3>1
  <2> QED BY <1>2, <2>1
<1>5. PICK f : Recurs(f, S, start, G)
  BY <1>4, Recursion, Zenon
<1>6. PICK g : g = [n \in 0 .. m |-> f[n]]
  OBVIOUS
<1>7. g \in [0 .. m -> S] /\ g[0] = start
  BY <1>5, <1>6 DEF Recurs
<1>8. ASSUME NEW n \in 1 .. m
      PROVE  g[n] = F[<<g[n - 1], s[n]>>]
  <2>1. /\ n - 1 \in Nat /\ n - 1 < m /\ (n - 1) + 1 = n
        /\ n \in 0 .. m /\ n - 1 \in 0 .. m
    OBVIOUS
  <2>2. f[n] = G[<<n - 1, f[n - 1]>>] /\ f[n - 1] \in S
    BY <1>5, <2>1 DEF Recurs
  <2> QED BY <1>3, <1>6, <2>1, <2>2
<1>9. g = [n \in 0 .. Len(s) |-> IF n = 0 THEN start ELSE F[<<g[n - 1], s[n]>>]]
  <2>1. \A n \in 0 .. m : g[n] = IF n = 0 THEN start ELSE F[<<g[n - 1], s[n]>>]
    <3>1. \A n \in 0 .. m : n = 0 \/ n \in 1 .. m
      OBVIOUS
    <3> QED BY <1>7, <1>8, <3>1
  <2>2. g = [n \in 0 .. m |-> g[n]]
    BY <1>7
  <2> QED BY <1>1, <2>1, <2>2
<1>10. PICK h : h = Accumulated(F, start, s)
  OBVIOUS
<1>11. h = [n \in 0 .. Len(s) |-> IF n = 0 THEN start ELSE F[<<h[n - 1], s[n]>>]]
  BY <1>9, <1>10, Zenon DEF Accumulated
<1>12. \A n \in Nat : n <= m => h[n] = g[n]
  <2>1. PICK P : P = {n \in Nat : n <= m => h[n] = g[n]}
    OBVIOUS
  <2>2. 0 \in P
    <3>1. 0 \in 0 .. Len(s) /\ g[0] = start
      BY <1>7
    <3> QED BY <1>11, <2>1, <3>1
  <2>3. ASSUME NEW n \in Nat, n \in P PROVE n + 1 \in P
    <3>1. CASE n + 1 <= m
      <4>1. n + 1 \in 1 .. m /\ n + 1 \in 0 .. Len(s) /\ n + 1 # 0 /\ (n + 1) - 1 = n
        BY <1>1, <3>1
      <4>2. h[n] = g[n]
        BY <2>1, <2>3, <3>1
      <4>3. h[n + 1] = F[<<h[n], s[n + 1]>>]
        BY <1>11, <4>1
      <4>4. g[n + 1] = F[<<g[n], s[n + 1]>>]
        BY <1>8, <4>1
      <4> QED BY <2>1, <4>1, <4>2, <4>3, <4>4
    <3>2. CASE ~ n + 1 <= m
      BY <2>1, <3>2
    <3> QED BY <3>1, <3>2
  <2>4. \A n \in Nat : n \in P
    BY <2>2, <2>3, Induction
  <2> QED BY <2>1, <2>4
<1>13. h = g
  <2>1. \A n \in 0 .. m : h[n] = g[n]
    BY <1>12
  <2>2. h = [n \in 0 .. m |-> h[n]]
    BY <1>1, <1>11
  <2> QED BY <1>7, <2>1, <2>2
<1> QED BY <1>1, <1>7, <1>8, <1>10, <1>13 DEF Passes

\* What start has, and every step keeps, the result has.
LEMMA ReducedKeeps ==
    ASSUME NEW S, NEW X, NEW start \in S, NEW F \in [S \X X -> S], NEW s \in Seq(X),
           NEW I, start \in I, \A x \in S, y \in X : x \in I => F[<<x, y>>] \in I
    PROVE  Reduced(F, start, s) \in S \cap I
<1>1. PICK f : f = Accumulated(F, start, s)
  OBVIOUS
<1>2. Passes(f, S, F, start, s)
  BY <1>1, Accumulates
<1>3. PICK m \in Nat : m = Len(s) /\ \A n \in 1 .. m : s[n] \in X
  OBVIOUS
<1>4. PICK P : P = {n \in Nat : n <= m => f[n] \in I}
  OBVIOUS
<1>5. 0 \in P
  BY <1>2, <1>4 DEF Passes
<1>6. ASSUME NEW n \in Nat, n \in P PROVE n + 1 \in P
  <2>1. CASE n + 1 <= m
    <3>1. n + 1 \in 1 .. m /\ n \in 0 .. m /\ (n + 1) - 1 = n
      BY <2>1
    <3>2. f[n] \in S /\ f[n + 1] = F[<<f[n], s[n + 1]>>]
      BY <1>2, <1>3, <3>1 DEF Passes
    <3>3. f[n] \in I /\ s[n + 1] \in X
      BY <1>3, <1>4, <1>6, <2>1, <3>1
    <3> QED BY <1>4, <3>2, <3>3
  <2>2. CASE ~ n + 1 <= m
    BY <1>4, <2>2
  <2> QED BY <2>1, <2>2
<1>7. \A n \in Nat : n \in P
  BY <1>5, <1>6, Induction
<1>8. f[m] \in I /\ f[m] \in S
  BY <1>2, <1>3, <1>4, <1>7 DEF Passes
<1> QED BY <1>1, <1>3, <1>8 DEF Reduced

\* What holds of start, and of each value when it held of the one before, holds of the result.
LEMMA ReducedAlong ==
    ASSUME NEW S, NEW X, NEW start \in S, NEW F \in [S \X X -> S], NEW s \in Seq(X),
           NEW P, start \in P[0],
           \A n \in 1 .. Len(s) : \A x \in S : x \in P[n - 1] => F[<<x, s[n]>>] \in P[n]
    PROVE  Reduced(F, start, s) \in S /\ Reduced(F, start, s) \in P[Len(s)]
<1>1. PICK f : f = Accumulated(F, start, s)
  OBVIOUS
<1>2. Passes(f, S, F, start, s)
  BY <1>1, Accumulates
<1>3. PICK m \in Nat : m = Len(s)
  OBVIOUS
<1>4. PICK I : I = {n \in Nat : n <= m => f[n] \in P[n]}
  OBVIOUS
<1>5. 0 \in I
  BY <1>2, <1>4 DEF Passes
<1>6. ASSUME NEW n \in Nat, n \in I PROVE n + 1 \in I
  <2>1. CASE n + 1 <= m
    <3>1. n + 1 \in 1 .. m /\ n \in 0 .. m /\ (n + 1) - 1 = n /\ n <= m
      BY <2>1
    <3>2. f[n] \in S /\ f[n + 1] = F[<<f[n], s[n + 1]>>]
      BY <1>2, <1>3, <3>1 DEF Passes
    <3>3. f[n] \in P[n]
      BY <1>4, <1>6, <3>1
    <3>4. f[n] \in P[(n + 1) - 1]
      BY <3>1, <3>3
    <3>5. F[<<f[n], s[n + 1]>>] \in P[n + 1]
      BY <1>3, <3>1, <3>2, <3>4, Zenon
    <3> QED BY <1>4, <3>2, <3>5
  <2>2. CASE ~ n + 1 <= m
    BY <1>4, <2>2
  <2> QED BY <2>1, <2>2
<1>7. \A n \in Nat : n \in I
  BY <1>5, <1>6, Induction
<1>8. f[m] \in P[m] /\ f[m] \in S
  <2>1. m \in I
    BY <1>7
  <2> QED BY <1>2, <1>3, <1>4, <2>1 DEF Passes
<1> QED BY <1>1, <1>3, <1>8 DEF Reduced
-----------------------------------------------------------------------------
(* Arrays without repetition.                                               *)

\* s has each element of S in one place, and nothing else.
Lists(s, S) ==
    /\ ToSet(s) = S
    /\ \A k, l \in DOMAIN s : s[k] = s[l] => k = l

LEMMA NothingListed ==
    ASSUME NEW X
    PROVE  <<>> \in Seq(X) /\ Lists(<<>>, {})
<1>1. PICK s \in Seq(X) : s = <<>> /\ DOMAIN s = {}
  BY NoElement, Zenon
<1>2. Lists(s, {})
  BY <1>1 DEF Lists, ToSet
<1> QED BY <1>1, <1>2, Zenon

LEMMA OneListed ==
    ASSUME NEW X, NEW s \in Seq(X), NEW S, Lists(s, S), NEW x \in X, x \notin S
    PROVE  Append(s, x) \in Seq(X) /\ Lists(Append(s, x), S \cup {x})
<1>1. PICK t \in Seq(X) : t = Append(s, x)
  BY OneMore, Zenon
<1>2. Len(t) = Len(s) + 1 /\ t[Len(s) + 1] = x /\ \A i \in 1 .. Len(s) : t[i] = s[i]
  BY <1>1, OneMore
<1>3. ToSet(t) = S \cup {x}
  BY <1>1, OneAdded, Zenon DEF Lists
<1>4. PICK n \in Nat : n = Len(s) /\ DOMAIN s = 1 .. n /\ DOMAIN t = 1 .. n + 1
  <2>1. PICK n \in Nat : n = Len(s)
    OBVIOUS
  <2>2. Len(t) = n + 1
    BY <1>2, <2>1
  <2>3. DOMAIN s = 1 .. n /\ DOMAIN t = 1 .. n + 1
    BY <2>1, <2>2
  <2> QED BY <2>1, <2>3
<1>5. \A k \in 1 .. n : t[k] = s[k] /\ t[k] # x
  BY <1>2, <1>4 DEF Lists, ToSet
<1>6. \A k \in 1 .. n + 1 : k \in 1 .. n \/ k = n + 1
  OBVIOUS
<1>7. \A k, l \in 1 .. n + 1 : t[k] = t[l] => k = l
  BY <1>2, <1>4, <1>5, <1>6 DEF Lists
<1> QED BY <1>1, <1>3, <1>4, <1>7 DEF Lists

Repeated(t, x, n) == t = [k \in 1 .. n |-> x]

\* T is S and, if n is one, x besides.
Extends(T, S, x, n) == /\ n = 1 => x \notin S /\ T = S \cup {x}
                       /\ n # 1 => T = S

\* An array of one x, or of none, behind s.
LEMMA MaybeListed ==
    ASSUME NEW X, NEW s \in Seq(X), NEW S, Lists(s, S), NEW x \in X, NEW n \in 0 .. 1,
           NEW t, Repeated(t, x, n), NEW T, Extends(T, S, x, n)
    PROVE  s \o t \in Seq(X) /\ Lists(s \o t, T)
<1>1. t \in Seq(X) /\ Len(t) = n /\ DOMAIN t = 1 .. n /\ \A k \in 1 .. n : t[k] = x
  BY DEF Repeated
<1>2. PICK r \in Seq(X) : r = s \o t /\ Joins(r, s, t)
  BY <1>1, Joined, Zenon
<1>3. ToSet(r) = ToSet(s) \cup ToSet(t)
  <2>1. ToSet(s \o t) = ToSet(s) \cup ToSet(t)
    BY <1>1, JoinedSet
  <2> QED BY <1>2, <2>1, Zenon
<1>4. ToSet(t) = IF n = 1 THEN {x} ELSE {}
  BY <1>1 DEF ToSet
<1>5. PICK m \in Nat : m = Len(s)
  OBVIOUS
<1>6. DOMAIN s = 1 .. m /\ DOMAIN r = 1 .. m + n
  <2>1. Len(r) = m + n
    BY <1>1, <1>2, <1>5 DEF Joins
  <2> QED BY <1>5, <2>1
<1>7. (\A k \in 1 .. m : r[k] = s[k]) /\ (n = 1 => r[m + 1] = x)
  BY <1>1, <1>2, <1>5 DEF Joins
<1>8. n = 1 => \A k \in 1 .. m : r[k] # x
  BY <1>6, <1>7 DEF Lists, ToSet, Extends
<1>9. \A k \in 1 .. m + n : k \in 1 .. m \/ (n = 1 /\ k = m + 1)
  OBVIOUS
<1>10. \A k, l \in 1 .. m + n : r[k] = r[l] => k = l
  BY <1>6, <1>7, <1>8, <1>9 DEF Lists
<1>11. ToSet(r) = T
  BY <1>3, <1>4 DEF Lists, Extends
<1>12. Lists(r, T)
  BY <1>6, <1>10, <1>11 DEF Lists
<1> QED BY <1>2, <1>12
=============================================================================
