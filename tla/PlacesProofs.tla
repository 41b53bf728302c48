---------------------------- MODULE PlacesProofs ----------------------------
(***************************************************************************)
(* What the other proofs keep needing about sets of numbers: a least       *)
(* member, by which they do induction; functions that are defined along    *)
(* the first numbers; and the members of a set in ascending order.         *)
(***************************************************************************)
EXTENDS Places, Sequences, FiniteSetTheorems, WellFoundedInduction, TLAPS

(* A set of numbers that has a member has a least one.                     *)
LEMMA LeastOf ==
  ASSUME NEW S, S \subseteq Nat, S # {}
  PROVE  \E i \in S : \A j \in S : i <= j
<1>1. PICK i \in S : \A j \in S : <<j, i>> \notin OpToRel(<, Nat)
  BY NatLessThanWellFounded, WFMin
<1>2. \A j \in S : ~(j < i)
  <2> SUFFICES ASSUME NEW j \in S, j < i PROVE FALSE
    OBVIOUS
  <2>1. <<j, i>> \in {ss \in Nat \X Nat : ss[1] < ss[2]}
    OBVIOUS
  <2>2. {ss \in Nat \X Nat : ss[1] < ss[2]} = OpToRel(<, Nat)
    BY DEF OpToRel
  <2> QED
    BY <1>1, <2>1, <2>2
<1> QED
  BY <1>2

(* f starts with r and goes on as F says, along the first N numbers.       *)
Along(f, R, N, r, F) ==
  f \in [0 .. N -> R] /\ f[0] = r /\ \A n \in 1 .. N : f[n] = F[n][f[n - 1]]

(* There is such a function.                                               *)
LEMMA DefinedAlong ==
  ASSUME NEW R, NEW N \in Nat, NEW r \in R, NEW F \in [1 .. N -> [R -> R]]
  PROVE  \E f : Along(f, R, N, r, F)
<1> DEFINE Up(m) == {f \in [0 .. m -> R] :
                       f[0] = r /\ \A n \in 1 .. m : f[n] = F[n][f[n - 1]]}
           Bad == {m \in 0 .. N : Up(m) = {}}
<1>1. Up(0) # {}
  <2> DEFINE f == [i \in 0 .. 0 |-> r]
  <2>1. f \in Up(0)
    OBVIOUS
  <2> QED BY <2>1
<1>2. ASSUME NEW m \in 0 .. N, m # N, Up(m) # {}
      PROVE  Up(m + 1) # {}
  <2>1. PICK f \in Up(m) : TRUE
    BY <1>2
  <2> DEFINE last == F[m + 1][f[m]]
             g == [i \in 0 .. m + 1 |-> IF i <= m THEN f[i] ELSE last]
  <2>2. f \in [0 .. m -> R] /\ f[0] = r /\ \A n \in 1 .. m : f[n] = F[n][f[n - 1]]
    OBVIOUS
  <2>3. last \in R
    <3>1. m + 1 \in 1 .. N /\ f[m] \in R
      BY <1>2, <2>2
    <3> QED BY <3>1
  <2>4. last = F[m + 1][f[m]]
    OBVIOUS
  <2> HIDE DEF last
  <2>5. g \in [0 .. m + 1 -> R] /\ g[0] = r
    BY <2>2, <2>3
  <2>6. ASSUME NEW n \in 1 .. m + 1 PROVE g[n] = F[n][g[n - 1]]
    <3>1. CASE n <= m
      <4>1. g[n] = f[n] /\ g[n - 1] = f[n - 1] /\ n \in 1 .. m
        BY <3>1
      <4> HIDE DEF g
      <4> QED BY <2>2, <4>1
    <3>2. CASE n = m + 1
      <4>1. g[n] = last /\ g[n - 1] = f[m]
        BY <3>2
      <4> HIDE DEF g
      <4> QED BY <2>4, <3>2, <4>1
    <3> QED BY <3>1, <3>2
  <2> HIDE DEF g
  <2>7. g \in Up(m + 1)
    BY <2>5, <2>6
  <2> QED BY <2>7
<1> HIDE DEF Up
<1>3. Bad = {}
  <2> SUFFICES ASSUME Bad # {} PROVE FALSE
    OBVIOUS
  <2>1. Bad \subseteq Nat
    OBVIOUS
  <2>2. PICK m \in Bad : \A k \in Bad : m <= k
    BY <2>1, LeastOf
  <2>3. m \in 0 .. N /\ Up(m) = {} /\ m # 0
    BY <1>1, <2>2
  <2>4. m - 1 \in 0 .. N /\ m - 1 \notin Bad /\ (m - 1) + 1 = m /\ m - 1 # N
    BY <2>2, <2>3
  <2>5. Up(m - 1) # {}
    BY <2>4
  <2> QED BY <1>2, <2>3, <2>4, <2>5
<1>4. PICK f \in Up(N) : TRUE
  BY <1>3
<1>5. Along(f, R, N, r, F)
  BY DEF Up, Along
<1> QED BY <1>5

(* How many of S lie below i.                                              *)
Rank(S, i) == Cardinality({j \in S : j < i})

LEMMA RankBounds ==
  ASSUME NEW S \in SUBSET Int, IsFiniteSet(S), NEW i \in S
  PROVE  Rank(S, i) \in 0 .. Cardinality(S) - 1
<1> DEFINE B == {j \in S : j < i}
<1>1. B \in SUBSET S /\ i \notin B
  OBVIOUS
<1>2. IsFiniteSet(B) /\ Cardinality(B) <= Cardinality(S) /\ Cardinality(B) # Cardinality(S)
  BY <1>1, FS_Subset
<1>3. Cardinality(B) \in Nat /\ Cardinality(S) \in Nat
  BY <1>2, FS_CardinalityType
<1> QED BY <1>2, <1>3 DEF Rank

LEMMA RankGrows ==
  ASSUME NEW S \in SUBSET Int, IsFiniteSet(S), NEW i \in S, NEW k \in S, i < k
  PROVE  Rank(S, i) < Rank(S, k)
<1> DEFINE B == {j \in S : j < i}
           C == {j \in S : j < k}
<1>1. B \in SUBSET C /\ C \in SUBSET S /\ i \in C /\ i \notin B
  <2>1. \A j \in S : j < i => j < k
    OBVIOUS
  <2>2. B \subseteq C
    BY <2>1
  <2>3. i \in C /\ ~(i < i)
    OBVIOUS
  <2> QED BY <2>2, <2>3
<1>2. IsFiniteSet(C)
  BY <1>1, FS_Subset
<1>3. IsFiniteSet(B) /\ Cardinality(B) <= Cardinality(C) /\ Cardinality(B) # Cardinality(C)
  BY <1>1, <1>2, FS_Subset
<1>4. Cardinality(B) \in Nat /\ Cardinality(C) \in Nat
  BY <1>2, <1>3, FS_CardinalityType
<1> QED BY <1>3, <1>4 DEF Rank

(* Ranks tell the members apart, and every rank is taken.                  *)
LEMMA RankIsOneToOne ==
  ASSUME NEW S \in SUBSET Int, IsFiniteSet(S)
  PROVE  /\ \A i, k \in S : Rank(S, i) = Rank(S, k) => i = k
         /\ \A r \in 0 .. Cardinality(S) - 1 : \E i \in S : Rank(S, i) = r
<1> DEFINE n == Cardinality(S)
           f == [i \in S |-> Rank(S, i)]
<1>1. n \in Nat
  BY FS_CardinalityType
<1>2. \A i \in S : Rank(S, i) \in 0 .. n - 1
  BY RankBounds
<1>3. \A i, k \in S : Rank(S, i) = Rank(S, k) => i = k
  <2> SUFFICES ASSUME NEW i \in S, NEW k \in S, i # k
               PROVE  Rank(S, i) # Rank(S, k)
    OBVIOUS
  <2>1. CASE i < k
    BY <2>1, <1>1, <1>2, RankGrows
  <2>2. CASE k < i
    BY <2>2, <1>1, <1>2, RankGrows
  <2> QED BY <2>1, <2>2
<1>4. f \in Injection(S, 0 .. n - 1)
  BY <1>2, <1>3 DEF Injection, IsInjective
<1>5. IsFiniteSet(0 .. n - 1) /\ Cardinality(0 .. n - 1) = n
  BY <1>1, FS_Interval
<1>6. f \in Surjection(S, 0 .. n - 1)
  <2> HIDE DEF f
  <2> QED BY <1>4, <1>5, FS_Injection
<1>7. \A r \in 0 .. n - 1 : \E i \in S : f[i] = r
  <2> HIDE DEF f
  <2> QED BY <1>6 DEF Surjection
<1> QED BY <1>3, <1>7

(* Every member has its place, in order.                                   *)
LEMMA AscendingIsInOrder ==
  ASSUME NEW S \in SUBSET Int, IsFiniteSet(S)
  PROVE  /\ Cardinality(S) \in Nat
         /\ Ascending(S) \in [1 .. Cardinality(S) -> S] /\ Len(Ascending(S)) = Cardinality(S)
         /\ \A k, l \in 1 .. Cardinality(S) : k < l => Ascending(S)[k] < Ascending(S)[l]
         /\ \A k \in 1 .. Cardinality(S) : Rank(S, Ascending(S)[k]) = k - 1
         /\ \A i \in S : Rank(S, i) + 1 \in 1 .. Cardinality(S)
                         /\ Ascending(S)[Rank(S, i) + 1] = i
<1> DEFINE n == Cardinality(S)
<1>1. n \in Nat
  BY FS_CardinalityType
<1>2. DOMAIN Ascending(S) = 1 .. n /\ Len(Ascending(S)) = n
  BY <1>1 DEF Ascending
<1>3. ASSUME NEW k \in 1 .. n
      PROVE  Ascending(S)[k] \in S /\ Rank(S, Ascending(S)[k]) = k - 1
  <2>1. Ascending(S)[k] = CHOOSE i \in S : Rank(S, i) = k - 1
    BY DEF Ascending, Rank
  <2>2. \E i \in S : Rank(S, i) = k - 1
    BY <1>1, RankIsOneToOne
  <2> QED BY <2>1, <2>2
<1>4. ASSUME NEW i \in S
      PROVE  Rank(S, i) + 1 \in 1 .. n /\ Ascending(S)[Rank(S, i) + 1] = i
  <2>1. Rank(S, i) + 1 \in 1 .. n
    BY <1>1, RankBounds
  <2>2. Rank(S, Ascending(S)[Rank(S, i) + 1]) = Rank(S, i)
    BY <1>3, <2>1, <1>1, RankBounds
  <2>3. Ascending(S)[Rank(S, i) + 1] \in S
    BY <1>3, <2>1
  <2>4. \A j \in S : Rank(S, j) = Rank(S, i) => j = i
    BY RankIsOneToOne
  <2> QED BY <2>1, <2>2, <2>3, <2>4
<1>5. ASSUME NEW k \in 1 .. n, NEW l \in 1 .. n, k < l
      PROVE  Ascending(S)[k] < Ascending(S)[l]
  <2> DEFINE a == Ascending(S)[k]
             b == Ascending(S)[l]
  <2>1. a \in S /\ b \in S /\ Rank(S, a) = k - 1 /\ Rank(S, b) = l - 1
    BY <1>3
  <2> HIDE DEF a, b
  <2>2. ~(b < a)
    <3> SUFFICES ASSUME b < a PROVE FALSE
      OBVIOUS
    <3>1. Rank(S, b) < Rank(S, a)
      BY <2>1, RankGrows
    <3> QED BY <1>1, <1>5, <2>1, <3>1
  <2>3. a # b
    BY <1>1, <1>5, <2>1
  <2>4. a < b
    BY <2>1, <2>2, <2>3
  <2> QED BY <2>4 DEF a, b
<1>6. Ascending(S) \in [1 .. n -> S]
  <2>1. Ascending(S) = [k \in 1 .. n |-> Ascending(S)[k]]
    BY SMTT(30) DEF Ascending
  <2> QED BY <1>3, <2>1
<1> QED BY <1>1, <1>2, <1>3, <1>4, <1>5, <1>6

(* A list that names every member of a set, in order, is the set ascending. *)
LEMMA AscendingIs ==
  ASSUME NEW S \in SUBSET Int, NEW n \in Nat, NEW q \in [1 .. n -> S],
         \A k, l \in 1 .. n : k < l => q[k] < q[l],
         \A i \in S : \E k \in 1 .. n : q[k] = i
  PROVE  IsFiniteSet(S) /\ Cardinality(S) = n /\ Ascending(S) = q
<1>1. \A k, l \in 1 .. n : q[k] < q[l] <=> k < l
  <2> SUFFICES ASSUME NEW k \in 1 .. n, NEW l \in 1 .. n PROVE q[k] < q[l] <=> k < l
    OBVIOUS
  <2>1. q[k] \in Int /\ q[l] \in Int
    OBVIOUS
  <2>2. k < l \/ k = l \/ l < k
    OBVIOUS
  <2> QED BY <2>1, <2>2
<1>2. q \in Bijection(1 .. n, S)
  <2>1. \A k, l \in 1 .. n : q[k] = q[l] => k = l
    <3> SUFFICES ASSUME NEW k \in 1 .. n, NEW l \in 1 .. n, k # l PROVE q[k] # q[l]
      OBVIOUS
    <3>1. k < l \/ l < k
      OBVIOUS
    <3>2. q[k] < q[l] \/ q[l] < q[k]
      BY <3>1
    <3>3. q[k] \in Int /\ q[l] \in Int
      OBVIOUS
    <3> QED BY <3>2, <3>3
  <2> QED BY <2>1 DEF Bijection, Injection, IsInjective, Surjection
<1>3. IsFiniteSet(1 .. n) /\ Cardinality(1 .. n) = n
  BY FS_Interval
<1>4. IsFiniteSet(S) /\ Cardinality(S) = n
  <2>1. ExistsBijection(1 .. n, S)
    BY <1>2 DEF ExistsBijection
  <2> QED BY <1>3, <2>1, FS_Bijection
<1>5. ASSUME NEW k \in 1 .. n
      PROVE  Ascending(S)[k] = q[k]
  <2> DEFINE B == {j \in S : j < q[k]}
             f == [l \in 1 .. k - 1 |-> q[l]]
  <2>1. IsFiniteSet(1 .. k - 1) /\ Cardinality(1 .. k - 1) = k - 1
    BY FS_Interval
  <2>2. \A l \in 1 .. k - 1 : l \in 1 .. n /\ q[l] \in B
    OBVIOUS
  <2>3. \A j \in B : \E l \in 1 .. k - 1 : q[l] = j
    <3> SUFFICES ASSUME NEW j \in B PROVE \E l \in 1 .. k - 1 : q[l] = j
      OBVIOUS
    <3>1. PICK l \in 1 .. n : q[l] = j
      OBVIOUS
    <3>2. l < k
      BY <1>1, <3>1
    <3> QED BY <3>1, <3>2
  <2>4. f \in Bijection(1 .. k - 1, B)
    <3>1. f \in [1 .. k - 1 -> B] /\ \A l \in 1 .. k - 1 : f[l] = q[l]
      BY <2>2
    <3>2. \A l, m \in 1 .. k - 1 : f[l] = f[m] => l = m
      BY <1>2, <2>2, <3>1 DEF Bijection, Injection, IsInjective
    <3>3. \A j \in B : \E l \in 1 .. k - 1 : f[l] = j
      BY <2>3, <3>1
    <3> HIDE DEF f, B
    <3> QED BY <3>1, <3>2, <3>3 DEF Bijection, Injection, IsInjective, Surjection
  <2>5. Cardinality(B) = k - 1
    <3>1. ExistsBijection(1 .. k - 1, B)
      BY <2>4 DEF ExistsBijection
    <3> HIDE DEF B
    <3> QED BY <2>1, <3>1, FS_Bijection
  <2>6. Rank(S, q[k]) = k - 1
    BY <2>5 DEF Rank
  <2>7. q[k] \in S /\ Ascending(S)[k] \in S /\ Rank(S, Ascending(S)[k]) = k - 1
    <3>1. k \in 1 .. Cardinality(S)
      BY <1>4
    <3> QED BY <1>4, <3>1, AscendingIsInOrder
  <2>8. \A i, j \in S : Rank(S, i) = Rank(S, j) => i = j
    BY <1>4, RankIsOneToOne
  <2> QED BY <2>6, <2>7, <2>8, Zenon
<1>6. Ascending(S) = [k \in 1 .. n |-> q[k]]
  <2>1. Ascending(S) \in [1 .. n -> S]
    BY <1>4, AscendingIsInOrder
  <2> QED BY <1>5, <2>1
<1> QED BY <1>4, <1>6

(* The first n numbers are in order as they stand.                         *)
LEMMA AscendingFirst ==
  ASSUME NEW n \in Nat, NEW k \in 1 .. n
  PROVE  Ascending(1 .. n)[k] = k
<1>1. IsFiniteSet(1 .. n) /\ Cardinality(1 .. n) = n
  BY FS_Interval
<1>2. {j \in 1 .. n : j < k} = 1 .. k - 1
  OBVIOUS
<1>3. Rank(1 .. n, k) = k - 1
  <2>1. Cardinality(1 .. k - 1) = k - 1
    BY FS_Interval
  <2> QED BY <1>2, <2>1 DEF Rank
<1> QED BY <1>1, <1>3, AscendingIsInOrder

(* The entries at some places of a list, in order.                         *)
LEMMA PickedInOrder ==
  ASSUME NEW T, NEW s \in Seq(T), NEW S \in SUBSET (DOMAIN s)
  PROVE  /\ Cardinality(S) \in Nat /\ Len(Picked(s, S)) = Cardinality(S)
         /\ Picked(s, S) \in Seq(T)
         /\ Ascending(S) \in [1 .. Cardinality(S) -> S]
         /\ \A k, l \in 1 .. Cardinality(S) : k < l => Ascending(S)[k] < Ascending(S)[l]
         /\ \A k \in 1 .. Cardinality(S) : Picked(s, S)[k] = s[Ascending(S)[k]]
<1> DEFINE n == Cardinality(S)
           f == Ascending(S)
           p == Picked(s, S)
<1>1. Len(s) \in Nat /\ DOMAIN s = 1 .. Len(s) /\ \A i \in 1 .. Len(s) : s[i] \in T
  OBVIOUS
<1>2. IsFiniteSet(1 .. Len(s))
  BY <1>1, FS_Interval
<1>3. S \in SUBSET (1 .. Len(s))
  BY <1>1
<1>4. IsFiniteSet(S) /\ S \in SUBSET Int
  BY <1>1, <1>2, <1>3, FS_Subset
<1>5. /\ n \in Nat /\ f \in [1 .. n -> S]
      /\ \A k, l \in 1 .. n : k < l => f[k] < f[l]
  BY <1>4, AscendingIsInOrder
<1>6. p = [k \in 1 .. n |-> s[f[k]]]
  BY DEF Picked
<1> HIDE DEF n, f, p
<1>7. \A k \in 1 .. n : f[k] \in 1 .. Len(s)
  BY <1>3, <1>5
<1>8. \A k \in 1 .. n : s[f[k]] \in T
  BY <1>1, <1>7
<1>9. p \in Seq(T) /\ Len(p) = n
  <2>1. p \in [1 .. n -> T]
    BY <1>6, <1>8
  <2> QED
    BY <1>5, <2>1
<1>10. \A k \in 1 .. n : p[k] = s[f[k]]
  BY <1>6
<1> QED
  BY <1>5, <1>9, <1>10 DEF n, f, p

=============================================================================
