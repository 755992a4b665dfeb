-------------------------- MODULE SubsequenceProofs --------------------------
(***************************************************************************)
(* Lemmas about what a filter() keeps, for every sequence and every set of *)
(* its positions: the proofs about the interceptors page, the composer and *)
(* the export of exchanges rest on them.                                   *)
(***************************************************************************)
EXTENDS Subsequences, FiniteSetTheorems, SequenceTheorems, WellFoundedInduction, TLAPS

\* The ranks of the kept positions are 1, 2, ..., each of one position.
LEMMA RankOf ==
  ASSUME NEW S \in SUBSET Nat, IsFiniteSet(S)
  PROVE  LET rank(i) == Cardinality({k \in S : k <= i})
         IN  /\ \A i \in S : rank(i) \in 1 .. Cardinality(S)
             /\ \A i, j \in S : rank(i) = rank(j) => i = j
             /\ \A r \in 1 .. Cardinality(S) : \E i \in S : rank(i) = r
<1> DEFINE Upto(i) == {k \in S : k <= i}
           N == Cardinality(S)
           f == [i \in S |-> Cardinality(Upto(i))]
<1>1. N \in Nat
  BY FS_CardinalityType
<1>2. \A i \in S : IsFiniteSet(Upto(i)) /\ Cardinality(Upto(i)) \in Nat /\ Cardinality(Upto(i)) <= N
  BY FS_Subset, FS_CardinalityType
<1>3. ASSUME NEW i \in S, NEW j \in S, i < j PROVE f[i] < f[j]
  <2>0. j <= j /\ ~ (j <= i) /\ \A k \in S : k <= i => k <= j
    BY <1>3
  <2>1. j \in Upto(j) /\ j \notin Upto(i) /\ Upto(i) \subseteq Upto(j) \ {j}
    BY <2>0
  <2>2. /\ IsFiniteSet(Upto(j) \ {j})
        /\ Cardinality(Upto(j) \ {j}) = Cardinality(Upto(j)) - 1
    BY <1>2, <2>1, FS_RemoveElement
  <2>3. Cardinality(Upto(i)) <= Cardinality(Upto(j)) - 1
    BY <2>1, <2>2, FS_Subset
  <2>4. f[i] = Cardinality(Upto(i)) /\ f[j] = Cardinality(Upto(j))
    OBVIOUS
  <2>5. Cardinality(Upto(i)) \in Nat /\ Cardinality(Upto(j)) \in Nat
    BY <1>2
  <2> HIDE DEF f, Upto
  <2> QED
    BY <2>3, <2>4, <2>5
<1>4. ASSUME NEW i \in S PROVE f[i] \in 1 .. N
  <2>1. i \in Upto(i)
    OBVIOUS
  <2>2. Cardinality(Upto(i)) # 0
    BY <1>2, <2>1, FS_EmptySet
  <2> QED
    BY <1>1, <1>2, <2>2
<1>5. \A i, j \in S : f[i] = f[j] => i = j
  <2>1. \A i, j \in S : i # j => i < j \/ j < i
    OBVIOUS
  <2>2. \A i \in S : f[i] \in Nat
    BY <1>2
  <2>3. \A i, j \in S : i < j => f[i] # f[j]
    <3> SUFFICES ASSUME NEW i \in S, NEW j \in S, i < j PROVE f[i] # f[j]
      OBVIOUS
    <3>1. f[i] < f[j]
      BY <1>3
    <3> HIDE DEF f
    <3> QED
      BY <2>2, <3>1
  <2> HIDE DEF f
  <2> QED
    BY <2>1, <2>3
<1>6. f \in Injection(S, 1 .. N)
  <2>1. f \in [S -> 1 .. N]
    BY <1>4
  <2> HIDE DEF f
  <2> QED
    BY <1>5, <2>1 DEF Injection, IsInjective
<1>7. IsFiniteSet(1 .. N) /\ Cardinality(1 .. N) = N
  BY <1>1, FS_Interval
<1>8. f \in Surjection(S, 1 .. N)
  <2> HIDE DEF f
  <2> QED
    BY <1>6, <1>7, FS_Injection
<1>9. \A r \in 1 .. N : \E i \in S : f[i] = r
  <2> HIDE DEF f
  <2> QED
    BY <1>8 DEF Surjection
<1> QED
  BY <1>4, <1>5, <1>9

\* The entry that is kept as the j-th is the one at some kept position, and each is kept.
LEMMA SubsequenceAt ==
  ASSUME NEW s, NEW K \in SUBSET Nat, IsFiniteSet(K)
  PROVE  /\ Cardinality(K) \in Nat
         /\ DOMAIN Subsequence(s, K) = 1 .. Cardinality(K)
         /\ \A j \in 1 .. Cardinality(K) : \E i \in K : Subsequence(s, K)[j] = s[i]
         /\ \A i \in K : \E j \in 1 .. Cardinality(K) : Subsequence(s, K)[j] = s[i]
<1> DEFINE N == Cardinality(K)
           rank(i) == Cardinality({k \in K : k <= i})
           w == [j \in 1 .. N |-> s[CHOOSE i \in K : rank(i) = j]]
<1>1. N \in Nat
  BY FS_CardinalityType
<1>2. /\ \A i \in K : rank(i) \in 1 .. N
      /\ \A i, j \in K : rank(i) = rank(j) => i = j
      /\ \A r \in 1 .. N : \E i \in K : rank(i) = r
  BY RankOf
<1>3. Subsequence(s, K) = w
  BY DEF Subsequence
<1>4. ASSUME NEW j \in 1 .. N PROVE \E i \in K : w[j] = s[i]
  <2> HIDE DEF rank
  <2>1. (CHOOSE i \in K : rank(i) = j) \in K
    BY <1>2
  <2>2. w[j] = s[CHOOSE i \in K : rank(i) = j]
    OBVIOUS
  <2> HIDE DEF w
  <2> QED
    BY <2>1, <2>2
<1>5. ASSUME NEW i \in K PROVE \E j \in 1 .. N : w[j] = s[i]
  <2> HIDE DEF rank
  <2>1. rank(i) \in 1 .. N /\ (CHOOSE k \in K : rank(k) = rank(i)) = i
    BY <1>2
  <2>2. w[rank(i)] = s[CHOOSE k \in K : rank(k) = rank(i)]
    BY <2>1
  <2> HIDE DEF w
  <2> QED
    BY <2>1, <2>2
<1>6. DOMAIN w = 1 .. N
  OBVIOUS
<1> HIDE DEF w
<1> QED
  BY <1>1, <1>3, <1>4, <1>5, <1>6

\* The positions of a sequence, and any of them, are finitely many.
LEMMA PositionsFinite ==
  ASSUME NEW T, NEW s \in Seq(T), NEW K \in SUBSET DOMAIN s
  PROVE  K \in SUBSET Nat /\ IsFiniteSet(K) /\ Cardinality(K) \in Nat /\ Cardinality(K) <= Len(s)
<1>1. DOMAIN s = 1 .. Len(s) /\ Len(s) \in Nat
  OBVIOUS
<1>2. IsFiniteSet(1 .. Len(s)) /\ Cardinality(1 .. Len(s)) = Len(s)
  <2> DEFINE n == Len(s)
  <2>1. n \in Nat
    BY <1>1
  <2> HIDE DEF n
  <2>2. IsFiniteSet(1 .. n) /\ Cardinality(1 .. n) = n
    BY <2>1, FS_Interval
  <2> QED
    BY <2>2 DEF n
<1>3. K \in SUBSET (1 .. Len(s))
  BY <1>1
<1>4. IsFiniteSet(K) /\ Cardinality(K) <= Len(s)
  BY <1>2, <1>3, FS_Subset
<1> QED
  BY <1>3, <1>4, FS_CardinalityType

\* A filter() makes a sequence of exactly the entries at the positions it keeps.
LEMMA SubsequenceKeeps ==
  ASSUME NEW T, NEW s \in Seq(T), NEW K \in SUBSET DOMAIN s
  PROVE  /\ Subsequence(s, K) \in Seq(T)
         /\ Len(Subsequence(s, K)) = Cardinality(K)
         /\ {Subsequence(s, K)[j] : j \in DOMAIN Subsequence(s, K)} = {s[i] : i \in K}
<1>1. K \in SUBSET Nat /\ IsFiniteSet(K)
  BY PositionsFinite
<1>2. PICK w : w = Subsequence(s, K)
  OBVIOUS
<1>3. PICK N : N = Cardinality(K)
  OBVIOUS
<1>4. /\ N \in Nat /\ DOMAIN w = 1 .. N
      /\ \A j \in 1 .. N : \E i \in K : w[j] = s[i]
      /\ \A i \in K : \E j \in 1 .. N : w[j] = s[i]
  BY <1>1, <1>2, <1>3, SubsequenceAt
<1>5. \A i \in K : s[i] \in T
  OBVIOUS
<1>6. \A j \in 1 .. N : w[j] \in T
  BY <1>4, <1>5
<1>7. w = [j \in 1 .. N |-> w[j]]
  <2>1. w = [j \in DOMAIN w |-> w[j]]
    BY <1>2 DEF Subsequence
  <2> QED
    BY <1>4, <2>1
<1>8. w \in [1 .. N -> T]
  BY <1>6, <1>7
<1>9. w \in Seq(T) /\ Len(w) = N
  BY <1>4, <1>8, SeqDef
<1>10. {w[j] : j \in DOMAIN w} = {s[i] : i \in K}
  <2>1. {w[j] : j \in 1 .. N} = {s[i] : i \in K}
    BY <1>4
  <2> QED
    BY <1>4, <2>1
<1> QED
  BY <1>2, <1>3, <1>9, <1>10

\* A filter() that keeps every entry makes a copy.
LEMMA SubsequenceAll ==
  ASSUME NEW T, NEW s \in Seq(T)
  PROVE  Subsequence(s, DOMAIN s) = s
<1> DEFINE K == DOMAIN s
           rank(i) == Cardinality({k \in K : k <= i})
<1>1. K = 1 .. Len(s) /\ Len(s) \in Nat
  OBVIOUS
<1>2. ASSUME NEW i \in K PROVE rank(i) = i
  <2>1. {k \in K : k <= i} = 1 .. i
    BY <1>1
  <2>2. Cardinality(1 .. i) = i
    BY <1>1, FS_Interval
  <2> QED
    BY <2>1, <2>2
<1>3. Cardinality(K) = Len(s)
  <2>1. Cardinality(1 .. Len(s)) = Len(s)
    BY <1>1, FS_Interval
  <2> QED
    BY <1>1, <2>1
<1>4. ASSUME NEW j \in 1 .. Len(s) PROVE (CHOOSE i \in K : rank(i) = j) = j
  <2> HIDE DEF rank
  <2> QED
    BY <1>1, <1>2
<1>5. Subsequence(s, K) = [j \in 1 .. Len(s) |-> s[CHOOSE i \in K : rank(i) = j]]
  BY <1>3 DEF Subsequence
<1>6. [j \in 1 .. Len(s) |-> s[CHOOSE i \in K : rank(i) = j]] = [j \in 1 .. Len(s) |-> s[j]]
  <2> DEFINE e(j) == CHOOSE i \in K : rank(i) = j
  <2>1. \A j \in 1 .. Len(s) : e(j) = j
    BY <1>4
  <2> HIDE DEF e
  <2>2. [j \in 1 .. Len(s) |-> s[e(j)]] = [j \in 1 .. Len(s) |-> s[j]]
    BY <2>1, Zenon
  <2> QED
    BY <2>2 DEF e
<1>7. s = [j \in 1 .. Len(s) |-> s[j]]
  BY <1>1
<1> QED
  BY <1>5, <1>6, <1>7

\* A filter() looks at no entry but those it keeps.
LEMMA SubsequenceLooksAtKept ==
  ASSUME NEW s, NEW t, NEW K \in SUBSET Nat, IsFiniteSet(K), \A i \in K : s[i] = t[i]
  PROVE  Subsequence(s, K) = Subsequence(t, K)
<1> DEFINE N == Cardinality(K)
           rank(i) == Cardinality({k \in K : k <= i})
<1>1. \A r \in 1 .. N : \E i \in K : rank(i) = r
  BY RankOf
<1>2. ASSUME NEW j \in 1 .. N
      PROVE  s[CHOOSE i \in K : rank(i) = j] = t[CHOOSE i \in K : rank(i) = j]
  <2> HIDE DEF rank
  <2>1. (CHOOSE i \in K : rank(i) = j) \in K
    BY <1>1
  <2> QED
    BY <2>1
<1>3. /\ Subsequence(s, K) = [j \in 1 .. N |-> s[CHOOSE i \in K : rank(i) = j]]
      /\ Subsequence(t, K) = [j \in 1 .. N |-> t[CHOOSE i \in K : rank(i) = j]]
  BY DEF Subsequence
<1>4. [j \in 1 .. N |-> s[CHOOSE i \in K : rank(i) = j]] = [j \in 1 .. N |-> t[CHOOSE i \in K : rank(i) = j]]
  <2> HIDE DEF rank
  <2> QED
    BY <1>2
<1> QED
  BY <1>3, <1>4
=============================================================================
