------------------------ MODULE FFKitHistoryProofs ------------------------
(***************************************************************************)
(* Theorems about FFKitHistory for every number of threads, sessions and   *)
(* listeners and every history size.                                       *)
(***************************************************************************)
EXTENDS FFKitHistory, FiniteSetTheorems, SequenceTheorems, TLAPS

-----------------------------------------------------------------------------
(***************************************************************************)
(* Sequences without duplicates, and the parts that are taken from them.   *)
(***************************************************************************)
\* Ranks grow with the positions and number them from 1 to their count.
LEMMA RankGrows ==
    ASSUME NEW n \in Nat, NEW S \in SUBSET (1..n)
    PROVE  /\ IsFiniteSet(S) /\ Cardinality(S) \in Nat
           /\ \A i \in S : Rank(S, i) \in 1..Cardinality(S)
           /\ \A i, j \in S : i < j => Rank(S, i) < Rank(S, j)
<1>1. IsFiniteSet(S) /\ Cardinality(S) \in Nat
  <2>1. IsFiniteSet(1..n)
    BY FS_Interval
  <2> QED BY <2>1, FS_Subset, FS_CardinalityType
<1> DEFINE To(i) == {j \in S : j <= i}
<1>2. \A i \in S : IsFiniteSet(To(i)) /\ Cardinality(To(i)) \in Nat
                   /\ Cardinality(To(i)) <= Cardinality(S)
  <2> TAKE i \in S
  <2>1. To(i) \in SUBSET S
    OBVIOUS
  <2> QED BY <1>1, <2>1, FS_Subset, FS_CardinalityType
<1>3. \A i \in S : Cardinality(To(i)) # 0
  <2> TAKE i \in S
  <2>1. i \in To(i)
    OBVIOUS
  <2> QED BY <1>2, <2>1, FS_EmptySet
<1>4. ASSUME NEW i \in S, NEW j \in S, i < j
      PROVE  Cardinality(To(i)) < Cardinality(To(j))
  <2>1. \A k \in S : k \in Nat
    OBVIOUS
  <2>2. (\A k \in S : k <= i => k <= j) /\ j <= j /\ ~(j <= i)
    BY <1>4, <2>1
  <2>3. To(i) \in SUBSET To(j) /\ j \in To(j) /\ j \notin To(i)
    BY <2>2
  <2>4. Cardinality(To(i)) <= Cardinality(To(j)) /\ Cardinality(To(j)) # Cardinality(To(i))
    BY <1>2, <2>3, FS_Subset
  <2> QED BY <1>2, <2>4
<1>5. \A i \in S : Rank(S, i) = Cardinality(To(i))
  BY DEF Rank
<1> HIDE DEF To
<1> QED BY <1>1, <1>2, <1>3, <1>4, <1>5

\* Nth and Rank are inverse to each other.
LEMMA NthIsRanked ==
    ASSUME NEW n \in Nat, NEW S \in SUBSET (1..n)
    PROVE  /\ \A k \in 1..Cardinality(S) : Nth(S, k) \in S /\ Rank(S, Nth(S, k)) = k
           /\ \A i \in S : Nth(S, Rank(S, i)) = i
<1> DEFINE c == Cardinality(S)
           f == [i \in S |-> Rank(S, i)]
<1>1. IsFiniteSet(S) /\ c \in Nat /\ f \in [S -> 1..c]
  BY RankGrows
<1>2. \A i, j \in S : i # j => f[i] # f[j]
  <2> SUFFICES ASSUME NEW i \in S, NEW j \in S, i # j PROVE f[i] # f[j]
    OBVIOUS
  <2>1. i \in 1..n /\ j \in 1..n
    OBVIOUS
  <2>2. i < j \/ j < i
    BY <2>1
  <2>3. f[i] = Rank(S, i) /\ f[j] = Rank(S, j)
    OBVIOUS
  <2>4. Rank(S, i) \in Nat /\ Rank(S, j) \in Nat
    BY <1>1, <2>3
  <2>5. Rank(S, i) < Rank(S, j) \/ Rank(S, j) < Rank(S, i)
    BY <2>2, RankGrows
  <2> QED BY <2>3, <2>4, <2>5
<1>3. f \in Injection(S, 1..c)
  BY <1>1, <1>2 DEF Injection, IsInjective
<1>4. IsFiniteSet(1..c) /\ Cardinality(1..c) = c
  BY <1>1, FS_Interval
<1>5. f \in Surjection(S, 1..c)
  BY <1>3, <1>4, FS_Injection
<1>6. \A k \in 1..c : \E i \in S : f[i] = k
  BY <1>5 DEF Surjection
<1>7. \A k \in 1..c : Nth(S, k) \in S /\ Rank(S, Nth(S, k)) = k
  BY <1>6 DEF Nth
<1>8. \A i \in S : Nth(S, Rank(S, i)) = i
  <2> TAKE i \in S
  <2>1. Rank(S, i) \in 1..c
    BY RankGrows
  <2>2. Nth(S, Rank(S, i)) \in S /\ Rank(S, Nth(S, Rank(S, i))) = Rank(S, i)
    BY <1>7, <2>1
  <2> QED BY <1>2, <2>2
<1> QED BY <1>7, <1>8

LEMMA SublistIs ==
    ASSUME NEW D, NEW s \in Seq(D), NEW S \in SUBSET (1..Len(s))
    PROVE  /\ Sublist(s, S) \in Seq(D)
           /\ Len(Sublist(s, S)) = Cardinality(S) /\ Cardinality(S) \in Nat
           /\ \A k \in 1..Cardinality(S) : Sublist(s, S)[k] = s[Nth(S, k)]
           /\ S = {} => Sublist(s, S) = <<>>
<1>0. Len(s) \in Nat
  BY LenProperties
<1>1. Cardinality(S) \in Nat
  BY <1>0, RankGrows
<1>2. \A k \in 1..Cardinality(S) : s[Nth(S, k)] \in D
  <2>1. \A k \in 1..Cardinality(S) : Nth(S, k) \in S
    BY <1>0, NthIsRanked
  <2>2. \A i \in S : s[i] \in D
    BY ElementOfSeq
  <2> QED BY <2>1, <2>2
<1>3. Sublist(s, S) \in [1..Cardinality(S) -> D]
  BY <1>2 DEF Sublist
<1>4. S = {} => Cardinality(S) = 0
  BY FS_EmptySet
<1> QED BY <1>1, <1>3, <1>4 DEF Sublist

\* The elements of a sublist, which repeats nothing that the sequence does not repeat.
LEMMA SublistHolds ==
    ASSUME NEW D, NEW s \in Seq(D), NEW S \in SUBSET (1..Len(s))
    PROVE  /\ Sublist(s, S) \in Seq(D) /\ Len(Sublist(s, S)) <= Len(s)
           /\ ToSet(Sublist(s, S)) = {s[i] : i \in S}
           /\ IsInjective(s) => IsInjective(Sublist(s, S))
<1> DEFINE r == Sublist(s, S)
           c == Cardinality(S)
<1>0. Len(s) \in Nat /\ DOMAIN s = 1..Len(s)
  BY LenProperties
<1>1. /\ r \in Seq(D) /\ Len(r) = c /\ c \in Nat /\ DOMAIN r = 1..c
      /\ \A k \in 1..c : r[k] = s[Nth(S, k)]
  BY SublistIs, LenProperties
<1>2. \A k \in 1..c : Nth(S, k) \in S /\ Rank(S, Nth(S, k)) = k
  BY <1>0, NthIsRanked
<1>3. \A i \in S : Rank(S, i) \in 1..c /\ Nth(S, Rank(S, i)) = i
  BY <1>0, RankGrows, NthIsRanked
<1>4. c <= Len(s)
  <2> DEFINE n == Len(s)
  <2>0. n \in Nat /\ S \in SUBSET (1..n)
    BY <1>0
  <2> HIDE DEF n
  <2>1. IsFiniteSet(1..n) /\ Cardinality(1..n) = n
    BY <2>0, FS_Interval
  <2>2. Cardinality(S) <= Cardinality(1..n)
    BY <2>0, <2>1, FS_Subset
  <2> QED BY <2>1, <2>2 DEF n
<1> HIDE DEF r, c
<1>5. ToSet(r) = {s[i] : i \in S}
  <2>1. \A k \in 1..c : \E i \in S : r[k] = s[i]
    BY <1>1, <1>2
  <2>2. \A i \in S : \E k \in 1..c : r[k] = s[i]
    <3> TAKE i \in S
    <3>1. Rank(S, i) \in 1..c /\ r[Rank(S, i)] = s[i]
      BY <1>1, <1>3
    <3> QED BY <3>1
  <2>3. ToSet(r) = {r[k] : k \in 1..c}
    BY <1>1 DEF ToSet
  <2>4. {r[k] : k \in 1..c} \subseteq {s[i] : i \in S}
    BY <2>1
  <2>5. {s[i] : i \in S} \subseteq {r[k] : k \in 1..c}
    BY <2>2
  <2> QED BY <2>3, <2>4, <2>5
<1>6. ASSUME IsInjective(s), NEW j \in 1..c, NEW k \in 1..c, r[j] = r[k]
      PROVE  j = k
  <2>1. s[Nth(S, j)] = s[Nth(S, k)] /\ Nth(S, j) \in 1..Len(s) /\ Nth(S, k) \in 1..Len(s)
    BY <1>1, <1>2, <1>6
  <2>2. Nth(S, j) = Nth(S, k)
    BY <1>0, <1>6, <2>1 DEF IsInjective
  <2> QED BY <1>2, <2>2
<1>7. IsInjective(s) => IsInjective(r)
  BY <1>1, <1>6 DEF IsInjective
<1> QED BY <1>1, <1>4, <1>5, <1>7 DEF r

LEMMA EmptyHolds == ToSet(<<>>) = {} /\ IsInjective(<<>>)
BY DEF ToSet, IsInjective

LEMMA SingleHolds ==
    ASSUME NEW D, NEW d \in D
    PROVE  <<d>> \in Seq(D) /\ ToSet(<<d>>) = {d} /\ IsInjective(<<d>>)
BY DEF ToSet, IsInjective

LEMMA AppendHolds ==
    ASSUME NEW D, NEW s \in Seq(D), NEW d \in D
    PROVE  /\ Append(s, d) \in Seq(D) /\ Len(Append(s, d)) = Len(s) + 1
           /\ ToSet(Append(s, d)) = ToSet(s) \cup {d}
           /\ IsInjective(s) /\ d \notin ToSet(s) => IsInjective(Append(s, d))
<1> DEFINE a == Append(s, d)
           n == Len(s)
<1>1. /\ a \in Seq(D) /\ Len(a) = n + 1 /\ a[n + 1] = d /\ n \in Nat
      /\ \A i \in 1..n : a[i] = s[i]
      /\ DOMAIN a = 1..n + 1 /\ DOMAIN s = 1..n
  BY AppendProperties, LenProperties
<1> HIDE DEF a, n
<1>2. ToSet(a) = {s[i] : i \in 1..n} \cup {d}
  <2>1. \A i \in 1..n + 1 : i \in 1..n \/ i = n + 1
    BY <1>1
  <2>2. n + 1 \in 1..n + 1 /\ \A i \in 1..n : i \in 1..n + 1
    BY <1>1
  <2> QED BY <1>1, <2>1, <2>2 DEF ToSet
<1>3. ToSet(s) = {s[i] : i \in 1..n}
  BY <1>1 DEF ToSet
<1>4. ASSUME IsInjective(s), d \notin ToSet(s),
             NEW i \in 1..n + 1, NEW j \in 1..n + 1, a[i] = a[j]
      PROVE  i = j
  <2>1. (i \in 1..n \/ i = n + 1) /\ (j \in 1..n \/ j = n + 1)
    BY <1>1
  <2>2. \A k \in 1..n : s[k] # d
    BY <1>3, <1>4
  <2>3. i \in 1..n /\ j \in 1..n => i = j
    BY <1>1, <1>4 DEF IsInjective
  <2> QED BY <1>1, <1>4, <2>1, <2>2, <2>3
<1>5. IsInjective(s) /\ d \notin ToSet(s) => IsInjective(a)
  BY <1>1, <1>4 DEF IsInjective
<1> QED BY <1>1, <1>2, <1>3, <1>5 DEF a, n

LEMMA TailHolds ==
    ASSUME NEW D, NEW s \in Seq(D), s # <<>>
    PROVE  /\ Head(s) \in ToSet(s) /\ Head(s) \in D /\ Tail(s) \in Seq(D)
           /\ ToSet(s) = ToSet(Tail(s)) \cup {Head(s)}
           /\ IsInjective(s) => IsInjective(Tail(s)) /\ Head(s) \notin ToSet(Tail(s))
<1> DEFINE u == Tail(s)
           n == Len(u)
<1>1. /\ u \in Seq(D) /\ Len(s) = n + 1 /\ n \in Nat
      /\ \A i \in 1..n : u[i] = s[i + 1]
      /\ DOMAIN u = 1..n /\ DOMAIN s = 1..n + 1 /\ Head(s) = s[1] /\ Head(s) \in D
  <2>1. Len(s) \in Nat /\ DOMAIN s = 1..Len(s)
    BY LenProperties
  <2>2. u \in Seq(D) /\ Len(u) = Len(s) - 1 /\ \A i \in 1..Len(u) : u[i] = s[i + 1]
    BY HeadTailProperties
  <2>3. Len(u) \in Nat /\ DOMAIN u = 1..Len(u)
    BY <2>2, LenProperties
  <2>4. Head(s) = s[1] /\ Head(s) \in D
    BY HeadTailProperties
  <2> HIDE DEF u
  <2> QED BY <2>1, <2>2, <2>3, <2>4
<1> HIDE DEF u, n
<1>2. ToSet(s) = ToSet(u) \cup {s[1]} /\ s[1] \in ToSet(s)
  <2>1. \A i \in 1..n + 1 : i = 1 \/ (i - 1 \in 1..n /\ s[i] = u[i - 1])
    <3> TAKE i \in 1..n + 1
    <3>1. i # 1 => i - 1 \in 1..n /\ (i - 1) + 1 = i
      BY <1>1
    <3> QED BY <1>1, <3>1
  <2>2. 1 \in 1..n + 1 /\ \A i \in 1..n : i + 1 \in 1..n + 1 /\ u[i] = s[i + 1]
    BY <1>1
  <2>3. ToSet(s) = {s[i] : i \in 1..n + 1} /\ ToSet(u) = {u[i] : i \in 1..n}
    BY <1>1 DEF ToSet
  <2>4. {s[i] : i \in 1..n + 1} \subseteq {u[i] : i \in 1..n} \cup {s[1]}
    BY <2>1
  <2>5. {u[i] : i \in 1..n} \cup {s[1]} \subseteq {s[i] : i \in 1..n + 1}
    BY <2>2
  <2>6. s[1] \in {s[i] : i \in 1..n + 1}
    BY <2>2
  <2> QED BY <2>3, <2>4, <2>5, <2>6
<1>3. ASSUME IsInjective(s), NEW i \in 1..n
      PROVE  s[i + 1] # s[1] /\ \A j \in 1..n : u[i] = u[j] => i = j
  <2>1. 1 \in 1..n + 1 /\ \A j \in 1..n : j + 1 \in 1..n + 1
    BY <1>1
  <2>2. i + 1 # 1 /\ \A j \in 1..n : i + 1 = j + 1 => i = j
    BY <1>1
  <2>3. \A x, y \in 1..n + 1 : s[x] = s[y] => x = y
    BY <1>1, <1>3 DEF IsInjective
  <2>4. u[i] = s[i + 1] /\ \A j \in 1..n : u[j] = s[j + 1]
    BY <1>1
  <2>5. s[i + 1] # s[1]
    BY <2>1, <2>2, <2>3
  <2>6. \A j \in 1..n : u[i] = u[j] => i = j
    BY <2>1, <2>2, <2>3, <2>4
  <2> QED BY <2>5, <2>6
<1>4. IsInjective(s) => IsInjective(u) /\ s[1] \notin ToSet(u)
  BY <1>1, <1>3 DEF IsInjective, ToSet
<1> QED BY <1>1, <1>2, <1>4 DEF u

\* A sequence without duplicates is as long as its set is large.
LEMMA InjectiveCounts ==
    ASSUME NEW D, NEW s \in Seq(D), IsInjective(s)
    PROVE  Len(s) = Cardinality(ToSet(s))
<1>1. Len(s) \in Nat /\ DOMAIN s = 1..Len(s) /\ s \in [1..Len(s) -> D]
  BY LenProperties
<1>2. \A i \in 1..Len(s) : s[i] \in ToSet(s)
  BY <1>1 DEF ToSet
<1>3. s \in [1..Len(s) -> ToSet(s)]
  BY <1>1, <1>2
<1>4. \A e \in ToSet(s) : \E i \in 1..Len(s) : s[i] = e
  BY <1>1 DEF ToSet
<1>5. s \in Bijection(1..Len(s), ToSet(s))
  BY <1>3, <1>4 DEF Bijection, Injection, Surjection
<1>6. ExistsBijection(1..Len(s), ToSet(s))
  BY <1>5 DEF ExistsBijection
<1> QED BY <1>1, <1>6, FS_CountingElements

LEMMA OrderingHolds ==
    ASSUME NEW S, IsFiniteSet(S), NEW s \in SetToSeqs(S)
    PROVE  s \in Seq(S) /\ IsInjective(s) /\ ToSet(s) = S
<1> DEFINE c == Cardinality(S)
<1>1. c \in Nat
  BY FS_CardinalityType
<1>2. s \in [1..c -> S] /\ \A i, j \in 1..c : i # j => s[i] # s[j]
  BY DEF SetToSeqs
<1>3. s \in Injection(1..c, S) /\ IsInjective(s)
  BY <1>2 DEF Injection, IsInjective
<1>4. IsFiniteSet(1..c) /\ Cardinality(1..c) = c
  BY <1>1, FS_Interval
<1>5. s \in Surjection(1..c, S)
  BY <1>3, <1>4, FS_Injection
<1>6. ToSet(s) = S
  BY <1>2, <1>5 DEF ToSet, Surjection
<1> QED BY <1>1, <1>2, <1>3, <1>6

\* What a cut takes from the front of a list, and what it leaves.
LEMMA CutHolds ==
    ASSUME NEW D, NEW s \in Seq(D), NEW n \in Nat
    PROVE  LET e == Expired(s, n)
               r == SubSeq(s, Len(e) + 1, Len(s))
           IN  /\ e \in Seq(D) /\ r \in Seq(D) /\ Len(r) <= n
               /\ ToSet(s) = ToSet(e) \cup ToSet(r)
               /\ IsInjective(s) =>
                    IsInjective(e) /\ IsInjective(r) /\ ToSet(e) \cap ToSet(r) = {}
<1> DEFINE e == Expired(s, n)
           r == SubSeq(s, Len(e) + 1, Len(s))
           m == Len(s)
           k == IF n < m THEN m - n ELSE 0
<1>1. m \in Nat /\ DOMAIN s = 1..m /\ k \in 0..m /\ m - k <= n
  BY LenProperties
<1>2. \A i \in 1..m : s[i] \in D
  BY ElementOfSeq
<1> HIDE DEF m
<1>3. e \in Seq(D) /\ Len(e) = k /\ DOMAIN e = 1..k /\ \A i \in 1..k : e[i] = s[i]
  <2>1. \A i \in 1..m - n : i \in 1..m
    BY <1>1
  <2>2. /\ SubSeq(s, 1, m - n) \in Seq(D)
        /\ Len(SubSeq(s, 1, m - n)) = IF 1 <= m - n THEN m - n - 1 + 1 ELSE 0
        /\ \A i \in 1..m - n - 1 + 1 : SubSeq(s, 1, m - n)[i] = s[1 + i - 1]
    BY <1>1, <1>2, <2>1, SubSeqProperties
  <2>3. e = SubSeq(s, 1, m - n)
    BY DEF Expired, m
  <2> HIDE DEF e
  <2>4. Len(e) = k
    BY <1>1, <2>2, <2>3
  <2>5. \A i \in 1..k : i \in 1..m - n - 1 + 1 /\ 1 + i - 1 = i
    BY <1>1
  <2>6. DOMAIN e = 1..k
    BY <2>2, <2>3, <2>4, LenProperties
  <2> QED BY <2>2, <2>3, <2>4, <2>5, <2>6
<1> HIDE DEF e, k
<1>4. r \in Seq(D) /\ Len(r) = m - k /\ DOMAIN r = 1..m - k /\ \A i \in 1..m - k : r[i] = s[k + i]
  <2>1. \A i \in k + 1..m : i \in 1..m
    BY <1>1
  <2>2. /\ SubSeq(s, k + 1, m) \in Seq(D)
        /\ Len(SubSeq(s, k + 1, m)) = IF k + 1 <= m THEN m - (k + 1) + 1 ELSE 0
        /\ \A i \in 1..m - (k + 1) + 1 : SubSeq(s, k + 1, m)[i] = s[k + 1 + i - 1]
    BY <1>1, <1>2, <2>1, SubSeqProperties
  <2>3. r = SubSeq(s, k + 1, m)
    BY <1>3 DEF m
  <2> HIDE DEF r
  <2>4. Len(r) = m - k
    BY <1>1, <2>2, <2>3
  <2>5. \A i \in 1..m - k : i \in 1..m - (k + 1) + 1 /\ k + 1 + i - 1 = k + i
    BY <1>1
  <2>6. DOMAIN r = 1..m - k
    BY <2>2, <2>3, <2>4, LenProperties
  <2> QED BY <2>2, <2>3, <2>4, <2>5, <2>6
<1> HIDE DEF r
<1>5. /\ ToSet(e) = {e[i] : i \in 1..k} /\ ToSet(r) = {r[i] : i \in 1..m - k}
      /\ ToSet(s) = {s[i] : i \in 1..m}
  BY <1>1, <1>3, <1>4 DEF ToSet
<1>6. ToSet(s) = ToSet(e) \cup ToSet(r)
  <2>1. \A i \in 1..m : i \in 1..k \/ (i - k \in 1..m - k /\ k + (i - k) = i)
    BY <1>1
  <2>2. (\A i \in 1..k : i \in 1..m) /\ \A i \in 1..m - k : k + i \in 1..m
    BY <1>1
  <2>3. \A i \in 1..m : s[i] \in ToSet(e) \/ s[i] \in ToSet(r)
    <3> TAKE i \in 1..m
    <3>1. CASE i \in 1..k
      BY <1>3, <1>5, <3>1
    <3>2. CASE i - k \in 1..m - k /\ k + (i - k) = i
      <4>1. r[i - k] = s[i]
        BY <1>4, <3>2
      <4> QED BY <1>5, <3>2, <4>1
    <3> QED BY <2>1, <3>1, <3>2
  <2>4. \A i \in 1..k : e[i] \in ToSet(s)
    BY <1>3, <1>5, <2>2
  <2>5. \A i \in 1..m - k : r[i] \in ToSet(s)
    BY <1>4, <1>5, <2>2
  <2> QED BY <1>5, <2>3, <2>4, <2>5
<1>7. ASSUME IsInjective(s)
      PROVE  IsInjective(e) /\ IsInjective(r) /\ ToSet(e) \cap ToSet(r) = {}
  <2>1. \A i, j \in 1..m : s[i] = s[j] => i = j
    BY <1>1, <1>7 DEF IsInjective
  <2>2. (\A i \in 1..k : i \in 1..m) /\ \A i \in 1..m - k : k + i \in 1..m
    BY <1>1
  <2>3. IsInjective(e)
    BY <1>3, <2>1, <2>2 DEF IsInjective
  <2>4. \A i, j \in 1..m - k : k + i = k + j => i = j
    BY <1>1
  <2>5. IsInjective(r)
    BY <1>4, <2>1, <2>2, <2>4 DEF IsInjective
  <2>6. \A i \in 1..k, j \in 1..m - k : i # k + j
    BY <1>1
  <2>7. \A i \in 1..k, j \in 1..m - k : e[i] # r[j]
    BY <1>3, <1>4, <2>1, <2>2, <2>6
  <2>8. ToSet(e) \cap ToSet(r) = {}
    BY <1>5, <2>7
  <2> QED BY <2>3, <2>5, <2>8
<1>8. Len(r) <= n
  BY <1>1, <1>4
<1> QED BY <1>3, <1>4, <1>6, <1>7, <1>8 DEF e, r

-----------------------------------------------------------------------------
(***************************************************************************)
(* The inductive invariant.                                                *)
(***************************************************************************)
\* The sessions that were in the history and have left it.
Gone == added \ sessionHistoryMap

\* The list holds what the map holds, each session once, and what was added.
HistoryOK ==
    /\ IsInjective(sessionHistoryList) /\ ToSet(sessionHistoryList) = sessionHistoryMap
    /\ Len(sessionHistoryList) <= sessionHistorySize
    /\ sessionHistoryMap \subseteq added
    /\ \A i \in added : i < sessionIdGenerator

\* A session that is being created has an id of its own, which was never in the history.
CreatedOK ==
    /\ \A t \in Threads : pc[t] = "created" =>
         /\ session[t] \in 1..sessionIdGenerator - 1
         /\ session[t] \notin added
    /\ \A t, u \in Threads :
         t # u /\ pc[t] = "created" /\ pc[u] = "created" => session[t] # session[u]

\* What the threads still have to tell has left the history, and is told by one of them.
DeletedOK ==
    /\ \A t \in Threads :
         /\ IsInjective(deleted[t]) /\ ToSet(deleted[t]) \subseteq Gone
         /\ deleted[t] # <<>> <=> pc[t] \in {"deleting", "telling"}
         /\ telling[t] # <<>> => pc[t] = "telling"
    /\ \A t, u \in Threads : t # u => ToSet(deleted[t]) \cap ToSet(deleted[u]) = {}

\* Listeners are registered once and called in turn; one that stays is never lost.
ListenersOK ==
    /\ IsInjective(sessionDeleteListeners)
    /\ \A t \in Threads : IsInjective(telling[t])
    /\ Staying \subseteq held /\ Staying \subseteq ToSet(sessionDeleteListeners)

\* Listener l is past session i in the work of thread t.
Past(t, l, i) ==
    pc[t] = "telling" /\ i = Head(deleted[t]) /\ l \notin ToSet(telling[t])

\* A listener is told of a session by the one thread that deleted it, once.
ToldOK == \A l \in Listeners :
    /\ IsInjective(told[l]) /\ ToSet(told[l]) \subseteq Gone
    /\ \A t \in Threads, i \in ToSet(told[l]) : i \in ToSet(deleted[t]) => Past(t, l, i)

\* Nothing that has left the history is forgotten.
Reached == ~shut => \A l \in Staying, i \in Gone :
    \/ i \in ToSet(told[l])
    \/ \E t \in Threads : i \in ToSet(deleted[t]) /\ ~Past(t, l, i)

IInv ==
    /\ TypeOK /\ HistoryOK /\ CreatedOK /\ DeletedOK /\ ListenersOK /\ ToldOK /\ Reached

LEMMA InitIInv == Init => IInv
<1> SUFFICES ASSUME Init PROVE IInv
  OBVIOUS
<1>1. /\ sessionDeleteListeners \in Seq(Listeners) /\ IsInjective(sessionDeleteListeners)
      /\ ToSet(sessionDeleteListeners) = Listeners
  BY HistoryAssumption, OrderingHolds DEF Init, Listeners
<1>2. ToSet(<<>>) = {} /\ IsInjective(<<>>)
  BY EmptyHolds
<1>3. TypeOK
  <2>1. 1 \in 1..MaxSessions + 1
    BY HistoryAssumption
  <2>2. <<>> \in Seq(Ids) /\ <<>> \in Seq(Listeners)
    OBVIOUS
  <2>3. /\ pc \in [Threads -> {"idle", "created", "deleting", "telling"}]
        /\ session \in [Threads -> Ids \cup {0}]
    BY DEF Init
  <2>4. /\ deleted \in [Threads -> Seq(Ids)] /\ telling \in [Threads -> Seq(Listeners)]
        /\ told \in [Listeners -> Seq(Ids)]
    BY <2>2 DEF Init
  <2> QED BY <1>1, <2>1, <2>2, <2>3, <2>4, HistoryAssumption DEF Init, TypeOK
<1>4. HistoryOK /\ CreatedOK
  BY <1>2, HistoryAssumption DEF Init, HistoryOK, CreatedOK
<1>5. DeletedOK /\ ToldOK /\ Reached
  BY <1>2 DEF Init, DeletedOK, ToldOK, Reached, Gone
<1>6. ListenersOK
  BY <1>1, <1>2 DEF Init, ListenersOK, Listeners
<1> QED BY <1>3, <1>4, <1>5, <1>6 DEF IInv

-----------------------------------------------------------------------------
(***************************************************************************)
(* The steps that change the history: sessions come in and others go, and  *)
(* the thread takes on to tell of these.                                   *)
(***************************************************************************)
LEMMA DeletesOK ==
    ASSUME IInv, NEW t \in Threads, pc[t] \in {"idle", "created"},
           NEW new \in SUBSET Ids, new \cap added = {},
           \A i \in new : i < sessionIdGenerator,
           \A u \in Threads : u # t /\ pc[u] = "created" => session[u] \notin new,
           NEW ids \in Seq(Ids), IsInjective(ids), ToSet(ids) \subseteq sessionHistoryMap \cup new,
           sessionHistoryList' \in Seq(Ids), IsInjective(sessionHistoryList'),
           ToSet(sessionHistoryList') = sessionHistoryMap',
           Len(sessionHistoryList') <= sessionHistorySize',
           sessionHistorySize' \in 1..SESSION_MAP_SIZE - 1,
           sessionHistoryMap' = (sessionHistoryMap \cup new) \ ToSet(ids),
           added' = added \cup new, Tells(t, ids),
           UNCHANGED <<sessionIdGenerator, listening, session, telling, told, shut>>
    PROVE  IInv'
<1>1. /\ deleted \in [Threads -> Seq(Ids)]
      /\ pc \in [Threads -> {"idle", "created", "deleting", "telling"}]
  BY DEF IInv, TypeOK
<1>2. /\ \A u \in Threads : u # t => deleted'[u] = deleted[u] /\ pc'[u] = pc[u]
      /\ deleted'[t] = ids /\ pc'[t] = IF ids = <<>> THEN "idle" ELSE "deleting"
      /\ deleted[t] = <<>>
  BY <1>1 DEF Tells, IInv, DeletedOK
<1>3. /\ Gone' = Gone \cup ToSet(ids) /\ Gone \cap ToSet(ids) = {}
      /\ ToSet(<<>>) = {}
  BY EmptyHolds DEF Gone, IInv, HistoryOK
<1>4. TypeOK'
  <2>1. deleted' \in [Threads -> Seq(Ids)]
    BY <1>1 DEF Tells
  <2>2. pc' \in [Threads -> {"idle", "created", "deleting", "telling"}]
    BY <1>1 DEF Tells
  <2>3. sessionHistoryMap' \subseteq Ids /\ added' \subseteq Ids
    BY DEF IInv, TypeOK
  <2> QED BY <2>1, <2>2, <2>3 DEF IInv, TypeOK, listening
<1>5. HistoryOK'
  <2>1. \A i \in added' : i < sessionIdGenerator'
    BY DEF IInv, HistoryOK
  <2>2. sessionHistoryMap' \subseteq added'
    BY DEF IInv, HistoryOK
  <2> QED BY <2>1, <2>2 DEF HistoryOK
<1>6. CreatedOK'
  <2>1. \A u \in Threads : pc'[u] = "created" => u # t /\ pc[u] = "created"
    BY <1>2
  <2> QED BY <2>1 DEF IInv, CreatedOK
<1>7. DeletedOK'
  <2>1. \A u \in Threads : u # t => ToSet(deleted[u]) \cap ToSet(ids) = {}
    BY <1>3 DEF IInv, DeletedOK
  <2>2. \A u, v \in Threads : u # v => ToSet(deleted'[u]) \cap ToSet(deleted'[v]) = {}
    BY <1>2, <2>1 DEF IInv, DeletedOK
  <2>3. ASSUME NEW u \in Threads
        PROVE  /\ IsInjective(deleted'[u]) /\ ToSet(deleted'[u]) \subseteq Gone'
               /\ deleted'[u] # <<>> <=> pc'[u] \in {"deleting", "telling"}
               /\ telling'[u] # <<>> => pc'[u] = "telling"
    <3>1. CASE u = t
      BY <1>2, <1>3, <3>1 DEF IInv, DeletedOK
    <3>2. CASE u # t
      BY <1>2, <1>3, <3>2 DEF IInv, DeletedOK
    <3> QED BY <3>1, <3>2
  <2> QED BY <2>2, <2>3 DEF DeletedOK
<1>8. ListenersOK'
  BY DEF IInv, ListenersOK, listening
<1>9. \A u \in Threads : \A l, i : Past(u, l, i)' <=> u # t /\ Past(u, l, i)
  BY <1>2 DEF Past
<1>10. ToldOK'
  <2> SUFFICES ASSUME NEW l \in Listeners
               PROVE  /\ IsInjective(told[l]) /\ ToSet(told[l]) \subseteq Gone'
                      /\ \A u \in Threads, i \in ToSet(told[l]) :
                           i \in ToSet(deleted'[u]) => Past(u, l, i)'
    BY DEF ToldOK
  <2>1. IsInjective(told[l]) /\ ToSet(told[l]) \subseteq Gone
    BY DEF IInv, ToldOK
  <2>2. \A u \in Threads, i \in ToSet(told[l]) : i \in ToSet(deleted'[u]) => Past(u, l, i)'
    BY <1>2, <1>3, <1>9, <2>1 DEF IInv, ToldOK
  <2> QED BY <1>3, <2>1, <2>2
<1>11. Reached'
  <2> SUFFICES ASSUME ~shut, NEW l \in Staying, NEW i \in Gone'
               PROVE  \/ i \in ToSet(told[l])
                      \/ \E u \in Threads : i \in ToSet(deleted'[u]) /\ ~Past(u, l, i)'
    BY DEF Reached
  <2>1. CASE i \in ToSet(ids)
    BY <1>2, <1>9, <2>1
  <2>2. CASE i \in Gone
    BY <1>2, <1>3, <1>9, <2>2 DEF IInv, Reached
  <2> QED BY <1>3, <2>1, <2>2
<1> QED BY <1>4, <1>5, <1>6, <1>7, <1>8, <1>10, <1>11 DEF IInv

\* A cut of a list that holds what the map is to hold.
LEMMA CutOK ==
    ASSUME IInv, NEW t \in Threads, pc[t] \in {"idle", "created"},
           NEW new \in SUBSET Ids, new \cap added = {},
           \A i \in new : i < sessionIdGenerator,
           \A u \in Threads : u # t /\ pc[u] = "created" => session[u] \notin new,
           NEW list \in Seq(Ids), IsInjective(list),
           ToSet(list) = sessionHistoryMap \cup new,
           sessionHistorySize' \in 1..SESSION_MAP_SIZE - 1,
           Cut(t, list, sessionHistoryMap \cup new, sessionHistorySize'),
           added' = added \cup new,
           UNCHANGED <<sessionIdGenerator, listening, session, telling, told, shut>>
    PROVE  IInv'
<1>1. sessionHistorySize' \in Nat
  BY HistoryAssumption
<1> DEFINE n == sessionHistorySize'
           e == Expired(list, n)
           r == SubSeq(list, Len(e) + 1, Len(list))
<1>2. /\ e \in Seq(Ids) /\ r \in Seq(Ids) /\ Len(r) <= n
      /\ ToSet(list) = ToSet(e) \cup ToSet(r)
      /\ IsInjective(e) /\ IsInjective(r) /\ ToSet(e) \cap ToSet(r) = {}
  <2> HIDE DEF n
  <2> QED BY <1>1, CutHolds DEF n
<1>3. /\ sessionHistoryList' = r /\ Tells(t, e)
      /\ sessionHistoryMap' = (sessionHistoryMap \cup new) \ ToSet(e)
  BY DEF Cut
<1> HIDE DEF r, e
<1>4. ToSet(e) \subseteq sessionHistoryMap \cup new /\ ToSet(r) = sessionHistoryMap'
  BY <1>2, <1>3
<1> QED BY <1>2, <1>3, <1>4, DeletesOK

\* The new id is larger than all before it.
LEMMA ConstructOK == ASSUME IInv, NEW t \in Threads, Construct(t) PROVE IInv'
<1>1. /\ sessionIdGenerator' = sessionIdGenerator + 1 /\ sessionIdGenerator \in Ids
      /\ \A u \in Threads : u # t => session'[u] = session[u] /\ pc'[u] = pc[u]
      /\ session'[t] = sessionIdGenerator /\ pc'[t] = "created" /\ pc[t] = "idle"
      /\ UNCHANGED <<hist, listening, deleted, telling, told, shut>>
  BY DEF Construct, IInv, TypeOK, Ids
<1>2. TypeOK'
  <2>1. sessionIdGenerator' \in 1..MaxSessions + 1
    BY <1>1, HistoryAssumption DEF Ids
  <2>2. session' \in [Threads -> Ids \cup {0}]
    BY <1>1 DEF Construct, IInv, TypeOK
  <2>3. pc' \in [Threads -> {"idle", "created", "deleting", "telling"}]
    BY DEF Construct, IInv, TypeOK
  <2> QED BY <1>1, <2>1, <2>2, <2>3 DEF IInv, TypeOK, hist, listening
<1>3. HistoryOK'
  <2>1. \A i \in added : i \in Nat
    BY DEF IInv, TypeOK, Ids
  <2>2. \A i \in added' : i < sessionIdGenerator'
    BY <1>1, <2>1 DEF IInv, HistoryOK, hist, Ids
  <2> QED BY <1>1, <2>2 DEF IInv, HistoryOK, hist
<1>4. CreatedOK'
  <2>1. sessionIdGenerator \notin added
    BY <1>1 DEF IInv, HistoryOK, Ids
  <2>2. \A u \in Threads : pc[u] = "created" => session[u] # sessionIdGenerator
    BY <1>1 DEF IInv, CreatedOK, Ids
  <2>3. /\ sessionIdGenerator \in 1..sessionIdGenerator' - 1
        /\ \A i \in 1..sessionIdGenerator - 1 : i \in 1..sessionIdGenerator' - 1
    BY <1>1 DEF Ids
  <2>4. \A u \in Threads : pc'[u] = "created" =>
          session'[u] \in 1..sessionIdGenerator' - 1 /\ session'[u] \notin added'
    BY <1>1, <2>1, <2>3 DEF IInv, CreatedOK, hist
  <2>5. \A u, v \in Threads :
          u # v /\ pc'[u] = "created" /\ pc'[v] = "created" => session'[u] # session'[v]
    BY <1>1, <2>2 DEF IInv, CreatedOK
  <2> QED BY <2>4, <2>5 DEF CreatedOK
<1>5. Gone' = Gone /\ \A u \in Threads : \A l, i : Past(u, l, i)' <=> Past(u, l, i)
  BY <1>1 DEF Gone, Past, hist
<1>6. DeletedOK'
  BY <1>1, <1>5 DEF IInv, DeletedOK
<1>7. ListenersOK'
  BY <1>1 DEF IInv, ListenersOK, listening
<1>8. ToldOK' /\ Reached'
  BY <1>1, <1>5 DEF IInv, ToldOK, Reached
<1> QED BY <1>2, <1>3, <1>4, <1>6, <1>7, <1>8 DEF IInv

LEMMA AddSessionOK == ASSUME IInv, NEW t \in Threads, AddSession(t) PROVE IInv'
<1> DEFINE i == session[t]
<1>1. /\ pc[t] = "created" /\ i \in 1..sessionIdGenerator - 1 /\ i \notin added
      /\ i \notin sessionHistoryMap
      /\ sessionHistorySize' = sessionHistorySize
      /\ UNCHANGED <<sessionIdGenerator, listening, session, telling, told, shut>>
  BY DEF AddSession, IInv, CreatedOK, HistoryOK
<1>2. /\ i \in Ids /\ i < sessionIdGenerator /\ sessionHistoryList \in Seq(Ids)
      /\ sessionHistorySize \in 1..SESSION_MAP_SIZE - 1
  BY <1>1 DEF IInv, TypeOK, Ids
<1>3. CASE ~shut
  <2> DEFINE list == Append(sessionHistoryList, i)
  <2>1. /\ list \in Seq(Ids) /\ ToSet(list) = sessionHistoryMap \cup {i}
        /\ IsInjective(list)
    BY <1>1, <1>2, AppendHolds DEF IInv, HistoryOK
  <2>2. /\ Cut(t, list, sessionHistoryMap \cup {i}, sessionHistorySize')
        /\ added' = added \cup {i}
    BY <1>1, <1>3 DEF AddSession
  <2>3. /\ {i} \in SUBSET Ids /\ {i} \cap added = {} /\ \A j \in {i} : j < sessionIdGenerator
        /\ \A u \in Threads : u # t /\ pc[u] = "created" => session[u] \notin {i}
    BY <1>1, <1>2 DEF IInv, CreatedOK
  <2> HIDE DEF list, i
  <2> QED BY <1>1, <1>2, <2>1, <2>2, <2>3, CutOK
<1>4. CASE shut
  <2>1. /\ Tells(t, <<>>) /\ sessionHistoryList' = sessionHistoryList
        /\ sessionHistoryMap' = sessionHistoryMap /\ added' = added
    BY <1>4 DEF AddSession
  <2>2. /\ <<>> \in Seq(Ids) /\ ToSet(<<>>) = {} /\ IsInjective(<<>>)
        /\ {} \in SUBSET Ids /\ {} \cap added = {}
        /\ sessionHistoryMap = (sessionHistoryMap \cup {}) \ {} /\ added = added \cup {}
    BY EmptyHolds
  <2>3. /\ IsInjective(sessionHistoryList) /\ ToSet(sessionHistoryList) = sessionHistoryMap
        /\ Len(sessionHistoryList) <= sessionHistorySize
    BY DEF IInv, HistoryOK
  <2> HIDE DEF i
  <2> QED BY <1>1, <1>2, <2>1, <2>2, <2>3, DeletesOK
<1> QED BY <1>3, <1>4 DEF IInv, TypeOK

LEMMA SetSizeOK == ASSUME IInv, NEW t \in Threads, SetSize(t) PROVE IInv'
<1>1. PICK n \in Sizes : /\ 0 < n /\ n < SESSION_MAP_SIZE /\ sessionHistorySize' = n
                         /\ Cut(t, sessionHistoryList, sessionHistoryMap, n)
  BY DEF SetSize
<1>2. sessionHistorySize' \in 1..SESSION_MAP_SIZE - 1
  BY <1>1, HistoryAssumption
<1>3. /\ pc[t] = "idle" /\ added' = added
      /\ UNCHANGED <<sessionIdGenerator, listening, session, telling, told, shut>>
  BY DEF SetSize
<1>4. /\ {} \in SUBSET Ids /\ {} \cap added = {} /\ added = added \cup {}
      /\ sessionHistoryMap = sessionHistoryMap \cup {}
  OBVIOUS
<1>5. /\ sessionHistoryList \in Seq(Ids) /\ IsInjective(sessionHistoryList)
      /\ ToSet(sessionHistoryList) = sessionHistoryMap
  BY DEF IInv, TypeOK, HistoryOK
<1> QED BY <1>1, <1>2, <1>3, <1>4, <1>5, CutOK

LEMMA DeleteOK == ASSUME IInv, NEW t \in Threads, Delete(t) PROVE IInv'
<1>1. PICK i \in sessionHistoryMap :
        /\ sessionHistoryMap' = sessionHistoryMap \ {i}
        /\ sessionHistoryList' = Others(sessionHistoryList, i)
        /\ Tells(t, <<i>>)
  BY DEF Delete
<1>2. /\ pc[t] = "idle" /\ added' = added /\ sessionHistorySize' = sessionHistorySize
      /\ UNCHANGED <<sessionIdGenerator, listening, session, telling, told, shut>>
  BY DEF Delete
<1>3. /\ sessionHistoryList \in Seq(Ids) /\ IsInjective(sessionHistoryList)
      /\ ToSet(sessionHistoryList) = sessionHistoryMap /\ sessionHistoryMap \subseteq Ids
      /\ sessionHistorySize \in 1..SESSION_MAP_SIZE - 1
      /\ Len(sessionHistoryList) <= sessionHistorySize
  BY DEF IInv, TypeOK, HistoryOK
<1>4. <<i>> \in Seq(Ids) /\ ToSet(<<i>>) = {i} /\ IsInjective(<<i>>)
  BY <1>3, SingleHolds
<1>5. /\ sessionHistoryList' \in Seq(Ids) /\ IsInjective(sessionHistoryList')
      /\ ToSet(sessionHistoryList') = sessionHistoryMap'
      /\ Len(sessionHistoryList') <= sessionHistorySize'
  <2> DEFINE list == sessionHistoryList
             S == {k \in 1..Len(list) : list[k] # i}
  <2>1. S \in SUBSET (1..Len(list)) /\ Others(list, i) = Sublist(list, S)
    BY DEF Others
  <2>2. Len(list) \in Nat /\ ToSet(list) = {list[k] : k \in 1..Len(list)}
    BY <1>3, LenProperties DEF ToSet
  <2>3. {list[k] : k \in S} = ToSet(list) \ {i}
    BY <2>2
  <2> HIDE DEF S
  <2>4. /\ Sublist(list, S) \in Seq(Ids) /\ Len(Sublist(list, S)) <= Len(list)
        /\ ToSet(Sublist(list, S)) = {list[k] : k \in S} /\ IsInjective(Sublist(list, S))
    BY <1>3, <2>1, SublistHolds
  <2>5. Len(Sublist(list, S)) \in Nat /\ sessionHistorySize \in Nat
    BY <1>3, <2>4, LenProperties, HistoryAssumption
  <2> DEFINE r == Sublist(list, S)
  <2>6. sessionHistoryList' = r /\ ToSet(r) = sessionHistoryMap'
    BY <1>1, <1>3, <2>1, <2>3, <2>4
  <2>7. Len(r) <= sessionHistorySize
    BY <1>3, <2>2, <2>4, <2>5
  <2>8. r \in Seq(Ids) /\ IsInjective(r)
    BY <2>4
  <2> HIDE DEF r, list
  <2> QED BY <1>2, <2>6, <2>7, <2>8
<1>6. /\ {} \in SUBSET Ids /\ {} \cap added = {} /\ added = added \cup {}
      /\ sessionHistoryMap = sessionHistoryMap \cup {}
  OBVIOUS
<1> QED BY <1>1, <1>2, <1>3, <1>4, <1>5, <1>6, DeletesOK

LEMMA ClearOK == ASSUME IInv, NEW t \in Threads, Clear(t) PROVE IInv'
<1>1. /\ pc[t] = "idle" /\ added' = added /\ sessionHistorySize' = sessionHistorySize
      /\ sessionHistoryList' = <<>> /\ sessionHistoryMap' = {} /\ Tells(t, sessionHistoryList)
      /\ UNCHANGED <<sessionIdGenerator, listening, session, telling, told, shut>>
  BY DEF Clear
<1>2. /\ sessionHistoryList \in Seq(Ids) /\ IsInjective(sessionHistoryList)
      /\ ToSet(sessionHistoryList) = sessionHistoryMap
      /\ sessionHistorySize \in 1..SESSION_MAP_SIZE - 1
  BY DEF IInv, TypeOK, HistoryOK
<1>3. /\ sessionHistoryList' \in Seq(Ids) /\ ToSet(sessionHistoryList') = {}
      /\ IsInjective(sessionHistoryList') /\ Len(sessionHistoryList') <= sessionHistorySize'
  <2>1. <<>> \in Seq(Ids) /\ Len(<<>>) = 0 /\ 0 <= sessionHistorySize
    BY <1>2, HistoryAssumption
  <2> QED BY <1>1, <2>1, EmptyHolds
<1>4. /\ {} \in SUBSET Ids /\ {} \cap added = {} /\ added = added \cup {}
      /\ sessionHistoryMap' = (sessionHistoryMap \cup {}) \ sessionHistoryMap
      /\ sessionHistoryMap = sessionHistoryMap \cup {}
  BY <1>1
<1> QED BY <1>1, <1>2, <1>3, <1>4, DeletesOK

-----------------------------------------------------------------------------
(***************************************************************************)
(* The steps that tell the listeners.                                      *)
(***************************************************************************)
LEMMA LiveHolds ==
    ASSUME IInv, NEW gone
    PROVE  /\ Live(gone) \in Seq(Listeners) /\ IsInjective(Live(gone))
           /\ ToSet(Live(gone)) \cap gone = {}
           /\ gone \cap Staying = {} => Staying \subseteq ToSet(Live(gone))
<1> DEFINE L == sessionDeleteListeners
           S == {k \in 1..Len(L) : Alive(L[k]) /\ L[k] \notin gone}
<1>1. L \in Seq(Listeners) /\ IsInjective(L) /\ Staying \subseteq held /\ Staying \subseteq ToSet(L)
  BY DEF IInv, TypeOK, ListenersOK
<1>2. ToSet(L) = {L[k] : k \in 1..Len(L)}
  BY <1>1, LenProperties DEF ToSet
<1>3. S \in SUBSET (1..Len(L)) /\ Live(gone) = Sublist(L, S)
  BY DEF Live
<1>4. {L[k] : k \in S} \cap gone = {}
  OBVIOUS
<1>5. gone \cap Staying = {} => Staying \subseteq {L[k] : k \in S}
  BY <1>1, <1>2 DEF Alive
<1> HIDE DEF S
<1>6. /\ Sublist(L, S) \in Seq(Listeners) /\ IsInjective(Sublist(L, S))
      /\ ToSet(Sublist(L, S)) = {L[k] : k \in S}
  BY <1>1, <1>3, SublistHolds
<1> QED BY <1>3, <1>4, <1>5, <1>6

LEMMA ListeningOK ==
    ASSUME IInv, TypeOK', ListenersOK',
           UNCHANGED <<sessionIdGenerator, hist, calls, told, shut>>
    PROVE  IInv'
<1>1. Gone' = Gone /\ \A u \in Threads : \A l, i : Past(u, l, i)' <=> Past(u, l, i)
  BY DEF Gone, Past, hist, calls
<1>2. HistoryOK' /\ CreatedOK'
  BY DEF IInv, HistoryOK, CreatedOK, hist, calls
<1>3. DeletedOK' /\ ToldOK' /\ Reached'
  BY <1>1 DEF IInv, DeletedOK, ToldOK, Reached, calls
<1> QED BY <1>2, <1>3 DEF IInv

LEMMA AddListenerOK == ASSUME IInv, NEW l \in Leaving, AddListener(l) PROVE IInv'
<1>1. /\ sessionDeleteListeners' = Append(Live({l}), l)
      /\ UNCHANGED <<sessionIdGenerator, hist, held, calls, told, shut>>
  BY DEF AddListener
<1>2. {l} \cap Staying = {} /\ l \in Listeners
  BY HistoryAssumption DEF Listeners
<1>3. /\ Live({l}) \in Seq(Listeners) /\ IsInjective(Live({l}))
      /\ ToSet(Live({l})) \cap {l} = {} /\ Staying \subseteq ToSet(Live({l}))
  BY <1>2, LiveHolds
<1>4. l \notin ToSet(Live({l}))
  BY <1>3
<1>5. /\ Append(Live({l}), l) \in Seq(Listeners) /\ IsInjective(Append(Live({l}), l))
      /\ Staying \subseteq ToSet(Append(Live({l}), l))
  <2> DEFINE v == Live({l})
  <2>1. v \in Seq(Listeners) /\ IsInjective(v) /\ l \notin ToSet(v) /\ Staying \subseteq ToSet(v)
    BY <1>3, <1>4
  <2> HIDE DEF v
  <2>2. /\ Append(v, l) \in Seq(Listeners) /\ IsInjective(Append(v, l))
        /\ Staying \subseteq ToSet(Append(v, l))
    BY <1>2, <2>1, AppendHolds
  <2> QED BY <2>2 DEF v
<1>6. TypeOK' /\ ListenersOK'
  BY <1>1, <1>5 DEF IInv, TypeOK, ListenersOK, hist, calls
<1> QED BY <1>1, <1>6, ListeningOK

LEMMA RemoveListenerOK == ASSUME IInv, NEW l \in Leaving, RemoveListener(l) PROVE IInv'
<1>1. /\ sessionDeleteListeners' = Live({l})
      /\ UNCHANGED <<sessionIdGenerator, hist, held, calls, told, shut>>
  BY DEF RemoveListener
<1>2. {l} \cap Staying = {}
  BY HistoryAssumption
<1>3. /\ Live({l}) \in Seq(Listeners) /\ IsInjective(Live({l}))
      /\ Staying \subseteq ToSet(Live({l}))
  BY <1>2, LiveHolds
<1>4. TypeOK' /\ ListenersOK'
  BY <1>1, <1>3 DEF IInv, TypeOK, ListenersOK, hist, calls
<1> QED BY <1>1, <1>4, ListeningOK

LEMMA ForgetOK == ASSUME IInv, NEW l \in Leaving, Forget(l) PROVE IInv'
<1>1. /\ held' = held \ {l}
      /\ UNCHANGED <<sessionIdGenerator, hist, sessionDeleteListeners, calls, told, shut>>
  BY DEF Forget
<1>2. l \notin Staying
  BY HistoryAssumption
<1>3. TypeOK' /\ ListenersOK'
  BY <1>1, <1>2 DEF IInv, TypeOK, ListenersOK, hist, calls
<1> QED BY <1>1, <1>3, ListeningOK

LEMMA LookOK == ASSUME IInv, NEW t \in Threads, Look(t) PROVE IInv'
<1> DEFINE live == Live({})
<1>1. /\ pc[t] = "deleting" /\ sessionDeleteListeners' = live
      /\ \A u \in Threads : u # t => telling'[u] = telling[u] /\ pc'[u] = pc[u]
      /\ telling'[t] = live /\ pc'[t] = "telling"
      /\ UNCHANGED <<sessionIdGenerator, hist, held, session, deleted, told, shut>>
  BY DEF Look, IInv, TypeOK
<1>2. live \in Seq(Listeners) /\ IsInjective(live) /\ Staying \subseteq ToSet(live)
  BY LiveHolds
<1>3. TypeOK'
  <2>1. telling' \in [Threads -> Seq(Listeners)]
    BY <1>2 DEF Look, IInv, TypeOK
  <2>2. pc' \in [Threads -> {"idle", "created", "deleting", "telling"}]
    BY DEF Look, IInv, TypeOK
  <2> QED BY <1>1, <1>2, <2>1, <2>2 DEF IInv, TypeOK, hist
<1> HIDE DEF live
<1>4. HistoryOK'
  BY <1>1 DEF IInv, HistoryOK, hist
<1>5. CreatedOK'
  <2>1. \A u \in Threads : pc'[u] = "created" => pc[u] = "created"
    BY <1>1
  <2> QED BY <1>1, <2>1 DEF IInv, CreatedOK, hist
<1>6. Gone' = Gone
  BY <1>1 DEF Gone, hist
<1>7. DeletedOK'
  <2>1. ASSUME NEW u \in Threads
        PROVE  /\ deleted'[u] # <<>> <=> pc'[u] \in {"deleting", "telling"}
               /\ telling'[u] # <<>> => pc'[u] = "telling"
    BY <1>1 DEF IInv, DeletedOK
  <2> QED BY <1>1, <1>6, <2>1 DEF IInv, DeletedOK
<1>8. ListenersOK'
  <2>1. \A u \in Threads : IsInjective(telling'[u])
    BY <1>1, <1>2 DEF IInv, ListenersOK
  <2> QED BY <1>1, <1>2, <2>1 DEF IInv, ListenersOK
<1>9. /\ \A u \in Threads : \A l, i : u # t => (Past(u, l, i)' <=> Past(u, l, i))
      /\ \A l, i : ~Past(t, l, i) /\ (l \in Staying => ~Past(t, l, i)')
  BY <1>1, <1>2 DEF Past
<1>10. ToldOK'
  <2>1. \A l \in Listeners, u \in Threads : \A i \in ToSet(told[l]) :
          i \in ToSet(deleted[u]) => u # t /\ Past(u, l, i)
    BY <1>9 DEF IInv, ToldOK
  <2> QED BY <1>1, <1>6, <1>9, <2>1 DEF IInv, ToldOK
<1>11. Reached'
  <2>1. \A l \in Staying, u \in Threads : \A i : ~Past(u, l, i) => ~Past(u, l, i)'
    BY <1>9
  <2> QED BY <1>1, <1>6, <2>1 DEF IInv, Reached
<1> QED BY <1>3, <1>4, <1>5, <1>7, <1>8, <1>10, <1>11 DEF IInv

LEMMA TellOK == ASSUME IInv, NEW t \in Threads, Tell(t) PROVE IInv'
<1>0. PICK h, i : h = Head(telling[t]) /\ i = Head(deleted[t])
  OBVIOUS
<1>1. /\ pc[t] = "telling" /\ telling[t] # <<>> /\ ~shut
      /\ telling[t] \in Seq(Listeners) /\ deleted[t] \in Seq(Ids) /\ deleted[t] # <<>>
      /\ IsInjective(telling[t]) /\ ToSet(deleted[t]) \subseteq Gone
  BY DEF Tell, IInv, TypeOK, DeletedOK, ListenersOK
<1>2. /\ h \in ToSet(telling[t]) /\ h \in Listeners /\ Tail(telling[t]) \in Seq(Listeners)
      /\ ToSet(telling[t]) = ToSet(Tail(telling[t])) \cup {h}
      /\ IsInjective(Tail(telling[t])) /\ h \notin ToSet(Tail(telling[t]))
  BY <1>0, <1>1, TailHolds
<1>3. i \in ToSet(deleted[t]) /\ i \in Ids /\ i \in Gone
  BY <1>0, <1>1, TailHolds
<1>4. /\ \A l \in Listeners : l # h => told'[l] = told[l]
      /\ told'[h] = Append(told[h], i)
      /\ \A u \in Threads : u # t => telling'[u] = telling[u]
      /\ telling'[t] = Tail(telling[t])
      /\ UNCHANGED <<sessionIdGenerator, hist, listening, pc, session, deleted, shut>>
  BY <1>0, <1>2 DEF Tell, IInv, TypeOK
<1>5. i \notin ToSet(told[h])
  <2>1. ~Past(t, h, i)
    BY <1>2 DEF Past
  <2> QED BY <1>2, <1>3, <2>1 DEF IInv, ToldOK
<1>6. /\ Append(told[h], i) \in Seq(Ids) /\ IsInjective(Append(told[h], i))
      /\ ToSet(Append(told[h], i)) = ToSet(told[h]) \cup {i}
  <2> DEFINE q == told[h]
  <2>1. q \in Seq(Ids) /\ IsInjective(q) /\ i \notin ToSet(q)
    BY <1>2, <1>5 DEF IInv, TypeOK, ToldOK
  <2> HIDE DEF q
  <2>2. /\ Append(q, i) \in Seq(Ids) /\ IsInjective(Append(q, i))
        /\ ToSet(Append(q, i)) = ToSet(q) \cup {i}
    BY <1>3, <2>1, AppendHolds
  <2> QED BY <2>2 DEF q
<1>7. /\ told'[h] \in Seq(Ids) /\ IsInjective(told'[h])
      /\ ToSet(told'[h]) = ToSet(told[h]) \cup {i}
  BY <1>4, <1>6
<1>8. TypeOK'
  <2>1. telling' \in [Threads -> Seq(Listeners)]
    BY <1>2 DEF Tell, IInv, TypeOK
  <2>2. told' \in [Listeners -> Seq(Ids)]
    BY <1>0, <1>6 DEF Tell, IInv, TypeOK
  <2> QED BY <1>4, <2>1, <2>2 DEF IInv, TypeOK, hist, listening
<1>9. HistoryOK' /\ CreatedOK' /\ Gone' = Gone
  BY <1>4 DEF IInv, HistoryOK, CreatedOK, Gone, hist
<1>10. DeletedOK'
  <2>1. \A u \in Threads : telling'[u] # <<>> => pc'[u] = "telling"
    BY <1>1, <1>4 DEF IInv, DeletedOK
  <2> QED BY <1>4, <1>9, <2>1 DEF IInv, DeletedOK
<1>11. ListenersOK'
  <2>1. \A u \in Threads : IsInjective(telling'[u])
    BY <1>2, <1>4 DEF IInv, ListenersOK
  <2> QED BY <1>4, <2>1 DEF IInv, ListenersOK, listening
<1>12. /\ \A u \in Threads : \A l, j : u # t => (Past(u, l, j)' <=> Past(u, l, j))
       /\ \A l, j : Past(t, l, j)' <=> j = i /\ (Past(t, l, j) \/ l = h)
  BY <1>0, <1>1, <1>2, <1>4 DEF Past
<1>13. ToldOK'
  <2> SUFFICES ASSUME NEW l \in Listeners
               PROVE  /\ IsInjective(told'[l]) /\ ToSet(told'[l]) \subseteq Gone
                      /\ \A u \in Threads, j \in ToSet(told'[l]) :
                           j \in ToSet(deleted[u]) => Past(u, l, j)'
    BY <1>4, <1>9 DEF ToldOK
  <2>1. /\ IsInjective(told[l]) /\ ToSet(told[l]) \subseteq Gone
        /\ \A u \in Threads, j \in ToSet(told[l]) : j \in ToSet(deleted[u]) => Past(u, l, j)
    BY DEF IInv, ToldOK
  <2>2. \A j : Past(t, l, j) => j = i
    BY <1>0 DEF Past
  <2>3. \A u \in Threads : \A j : Past(u, l, j) => Past(u, l, j)'
    BY <1>12, <2>2
  <2>4. CASE l # h
    BY <1>4, <2>1, <2>3, <2>4
  <2>5. CASE l = h
    <3>1. \A u \in Threads : u # t => i \notin ToSet(deleted[u])
      BY <1>3 DEF IInv, DeletedOK
    <3>2. Past(t, l, i)'
      BY <1>12, <2>5
    <3>3. \A u \in Threads : i \in ToSet(deleted[u]) => Past(u, l, i)'
      BY <3>1, <3>2
    <3> QED BY <1>3, <1>7, <2>1, <2>3, <2>5, <3>3
  <2> QED BY <2>4, <2>5
<1>14. Reached'
  <2> SUFFICES ASSUME NEW l \in Staying, NEW j \in Gone
               PROVE  \/ j \in ToSet(told'[l])
                      \/ \E u \in Threads : j \in ToSet(deleted[u]) /\ ~Past(u, l, j)'
    BY <1>4, <1>9 DEF Reached
  <2>0. l \in Listeners
    BY DEF Listeners
  <2>1. CASE j \in ToSet(told[l])
    BY <1>4, <1>7, <2>0, <2>1
  <2>2. CASE \E u \in Threads : j \in ToSet(deleted[u]) /\ ~Past(u, l, j)
    <3>1. PICK u \in Threads : j \in ToSet(deleted[u]) /\ ~Past(u, l, j)
      BY <2>2
    <3>2. CASE u # t \/ j # i \/ l # h
      BY <1>12, <3>1, <3>2
    <3>3. CASE j = i /\ l = h
      BY <1>7, <3>3
    <3> QED BY <3>2, <3>3
  <2> QED BY <1>1, <2>1, <2>2 DEF IInv, Reached
<1> QED BY <1>8, <1>9, <1>10, <1>11, <1>13, <1>14 DEF IInv

LEMMA NextIdOK == ASSUME IInv, NEW t \in Threads, NextId(t) PROVE IInv'
<1> DEFINE rest == Tail(deleted[t])
           i == Head(deleted[t])
<1>1. /\ pc[t] = "telling" /\ (telling[t] = <<>> \/ shut)
      /\ deleted[t] \in Seq(Ids) /\ deleted[t] # <<>> /\ IsInjective(deleted[t])
  BY DEF NextId, IInv, TypeOK, DeletedOK
<1>2. /\ rest \in Seq(Ids) /\ ToSet(deleted[t]) = ToSet(rest) \cup {i}
      /\ IsInjective(rest) /\ i \notin ToSet(rest)
  BY <1>1, TailHolds
<1>3. /\ \A u \in Threads : u # t =>
           telling'[u] = telling[u] /\ deleted'[u] = deleted[u] /\ pc'[u] = pc[u]
      /\ telling'[t] = <<>> /\ deleted'[t] = rest
      /\ pc'[t] = IF rest = <<>> THEN "idle" ELSE "deleting"
      /\ UNCHANGED <<sessionIdGenerator, hist, listening, session, told, shut>>
  BY DEF NextId, Tells, IInv, TypeOK
<1>4. TypeOK'
  <2>1. telling' \in [Threads -> Seq(Listeners)]
    <3>1. <<>> \in Seq(Listeners)
      OBVIOUS
    <3> QED BY <3>1 DEF NextId, IInv, TypeOK
  <2>2. deleted' \in [Threads -> Seq(Ids)]
    BY <1>2 DEF NextId, Tells, IInv, TypeOK
  <2>3. pc' \in [Threads -> {"idle", "created", "deleting", "telling"}]
    BY DEF NextId, Tells, IInv, TypeOK
  <2> QED BY <1>3, <2>1, <2>2, <2>3 DEF IInv, TypeOK, hist, listening
<1>5. HistoryOK' /\ Gone' = Gone
  BY <1>3 DEF IInv, HistoryOK, Gone, hist
<1> HIDE DEF rest
<1>6. CreatedOK'
  <2>1. \A u \in Threads : pc'[u] = "created" => pc[u] = "created"
    BY <1>3
  <2> QED BY <1>3, <2>1 DEF IInv, CreatedOK, hist
<1>7. \A u \in Threads : ToSet(deleted'[u]) \subseteq ToSet(deleted[u])
  BY <1>2, <1>3
<1>8. DeletedOK'
  <2>1. \A u, v \in Threads : u # v => ToSet(deleted'[u]) \cap ToSet(deleted'[v]) = {}
    BY <1>7 DEF IInv, DeletedOK
  <2>2. ASSUME NEW u \in Threads
        PROVE  /\ IsInjective(deleted'[u]) /\ ToSet(deleted'[u]) \subseteq Gone
               /\ deleted'[u] # <<>> <=> pc'[u] \in {"deleting", "telling"}
               /\ telling'[u] # <<>> => pc'[u] = "telling"
    <3>1. ToSet(deleted'[u]) \subseteq Gone
      BY <1>7 DEF IInv, DeletedOK
    <3>2. CASE u = t
      BY <1>2, <1>3, <3>1, <3>2
    <3>3. CASE u # t
      BY <1>3, <3>1, <3>3 DEF IInv, DeletedOK
    <3> QED BY <3>2, <3>3
  <2> QED BY <1>5, <2>1, <2>2 DEF DeletedOK
<1>9. ListenersOK'
  <2>1. \A u \in Threads : IsInjective(telling'[u])
    BY <1>3, EmptyHolds DEF IInv, ListenersOK
  <2> QED BY <1>3, <2>1 DEF IInv, ListenersOK, listening
<1>10. /\ \A u \in Threads : \A l, j : u # t => (Past(u, l, j)' <=> Past(u, l, j))
       /\ \A l, j : ~Past(t, l, j)' /\ (Past(t, l, j) => j = i)
  BY <1>3 DEF Past
<1> HIDE DEF i
<1>11. ToldOK'
  <2>1. \A l \in Listeners, u \in Threads : \A j \in ToSet(told[l]) :
          j \in ToSet(deleted'[u]) => u # t /\ Past(u, l, j)
    BY <1>2, <1>3, <1>7, <1>10 DEF IInv, ToldOK
  <2> QED BY <1>3, <1>5, <1>10, <2>1 DEF IInv, ToldOK
<1>12. Reached'
  <2> SUFFICES ASSUME ~shut, NEW l \in Staying, NEW j \in Gone
               PROVE  \/ j \in ToSet(told[l])
                      \/ \E u \in Threads : j \in ToSet(deleted'[u]) /\ ~Past(u, l, j)'
    BY <1>3, <1>5 DEF Reached
  <2>1. CASE j \in ToSet(told[l])
    BY <2>1
  <2>2. CASE \E u \in Threads : j \in ToSet(deleted[u]) /\ ~Past(u, l, j)
    <3>1. PICK u \in Threads : j \in ToSet(deleted[u]) /\ ~Past(u, l, j)
      BY <2>2
    <3>2. CASE u # t
      BY <1>3, <1>10, <3>1, <3>2
    <3>3. CASE u = t
      <4>1. ToSet(telling[t]) = {}
        BY <1>1, EmptyHolds
      <4>2. j # i
        BY <1>1, <3>1, <3>3, <4>1 DEF Past, i
      <4> QED BY <1>2, <1>3, <1>10, <3>1, <3>3, <4>2
    <3> QED BY <3>2, <3>3
  <2> QED BY <2>1, <2>2 DEF IInv, Reached
<1> QED BY <1>4, <1>5, <1>6, <1>8, <1>9, <1>11, <1>12 DEF IInv

LEMMA ShutdownOK == ASSUME IInv, Shutdown PROVE IInv'
<1>1. shut' = TRUE /\ UNCHANGED <<sessionIdGenerator, hist, listening, calls, told>>
  BY DEF Shutdown
<1>2. Gone' = Gone /\ \A u \in Threads : \A l, i : Past(u, l, i)' <=> Past(u, l, i)
  BY <1>1 DEF Gone, Past, hist, calls
<1>3. TypeOK' /\ HistoryOK' /\ CreatedOK' /\ ListenersOK'
  BY <1>1 DEF IInv, TypeOK, HistoryOK, CreatedOK, ListenersOK, hist, listening, calls
<1>4. DeletedOK' /\ ToldOK' /\ Reached'
  BY <1>1, <1>2 DEF IInv, DeletedOK, ToldOK, Reached, calls
<1> QED BY <1>3, <1>4 DEF IInv

-----------------------------------------------------------------------------
(***************************************************************************)
(* The theorems.                                                           *)
(***************************************************************************)
LEMMA Inductive == Spec => []IInv
<1>1. Init => IInv
  BY InitIInv
<1>2. IInv /\ [Next]_vars => IInv'
  <2> SUFFICES ASSUME IInv, [Next]_vars PROVE IInv'
    OBVIOUS
  <2>1. ASSUME NEW t \in Threads,
               \/ Construct(t) \/ AddSession(t) \/ SetSize(t) \/ Delete(t) \/ Clear(t)
        PROVE  IInv'
    BY <2>1, ConstructOK, AddSessionOK, SetSizeOK, DeleteOK, ClearOK
  <2>2. ASSUME NEW t \in Threads, Look(t) \/ Tell(t) \/ NextId(t) PROVE IInv'
    BY <2>2, LookOK, TellOK, NextIdOK
  <2>3. ASSUME NEW l \in Leaving, AddListener(l) \/ RemoveListener(l) \/ Forget(l) PROVE IInv'
    BY <2>3, AddListenerOK, RemoveListenerOK, ForgetOK
  <2>4. CASE Shutdown
    BY <2>4, ShutdownOK
  <2>5. CASE UNCHANGED vars
    <3>1. TypeOK' /\ ListenersOK'
      BY <2>5 DEF vars, hist, listening, calls, IInv, TypeOK, ListenersOK
    <3>2. UNCHANGED <<sessionIdGenerator, hist, calls, told, shut>>
      BY <2>5 DEF vars
    <3> QED BY <3>1, <3>2, ListeningOK
  <2> QED BY <2>1, <2>2, <2>3, <2>4, <2>5 DEF Next
<1> QED BY <1>1, <1>2, PTL DEF Spec

\* Every variable of the history keeps its type: no size reaches SESSION_MAP_SIZE, and
\* no thread creates more than it may.
THEOREM TypeCorrect == Spec => []TypeOK
<1>1. IInv => TypeOK
  BY DEF IInv
<1> QED BY <1>1, Inductive, PTL

\* The list and the map of the history hold the same sessions, each once, and no more
\* than its size, for any number of threads that add, evict, delete and clear.
THEOREM ListAndMapAgree == Spec => []MapMatchesList
<1>1. IInv => MapMatchesList
  <2> SUFFICES ASSUME IInv PROVE MapMatchesList
    OBVIOUS
  <2>1. sessionHistoryList \in Seq(Ids) /\ IsInjective(sessionHistoryList)
    BY DEF IInv, TypeOK, HistoryOK
  <2>2. Len(sessionHistoryList) = Cardinality(ToSet(sessionHistoryList))
    BY <2>1, InjectiveCounts
  <2> QED BY <2>2 DEF IInv, HistoryOK, MapMatchesList
<1> QED BY <1>1, Inductive, PTL

\* Every listener is told of a deleted session at most once and after the fact, and one
\* that stays is told of each, or a thread is on its way to tell it.
THEOREM EachDeletionIsToldOnce == Spec => []ToldOnce
<1>1. IInv => ToldOnce
  <2> SUFFICES ASSUME IInv PROVE ToldOnce
    OBVIOUS
  <2>1. \A l \in Listeners : IsInjective(told[l]) /\ ToSet(told[l]) \cap sessionHistoryMap = {}
    BY DEF IInv, ToldOK, Gone
  <2>2. ~shut => \A l \in Staying, i \in added \ sessionHistoryMap :
          \/ i \in ToSet(told[l])
          \/ \E t \in Threads : i \in ToSet(deleted[t]) /\ ~Past(t, l, i)
    BY DEF IInv, Reached, Gone
  <2> QED BY <2>1, <2>2 DEF ToldOnce, Past
<1> QED BY <1>1, Inductive, PTL
=============================================================================
