--------------------------- MODULE OrderingProofs ---------------------------
(***************************************************************************)
(* Lemmas about the operators of Ordering, for every finite set and every  *)
(* strict order that is total on it.  An order is given by the function    *)
(* that maps each member to its predecessors, because the provers cannot   *)
(* instantiate a lemma whose parameter is an operator.                     *)
(***************************************************************************)
EXTENDS Ordering, Integers, FiniteSetTheorems, WellFoundedInduction, TLAPS

-----------------------------------------------------------------------------
(* Minima and maxima of sets of numbers. *)

\* Every nonempty set of naturals has a least member.
LEMMA LeastNatural ==
    ASSUME NEW S, S \subseteq Nat, S # {}
    PROVE  \E x \in S : \A y \in S : x <= y
<1> DEFINE R == {p \in Nat \X Nat : p[1] < p[2]}
<1>1. IsWellFoundedOn(R, Nat)
  <2>1. OpToRel(<, Nat) = R
    BY DEF OpToRel
  <2> QED BY <2>1, NatLessThanWellFounded
<1> HIDE DEF R
<1>2. PICK x \in S : \A y \in S : ~(<<y, x>> \in R)
  BY <1>1, WFMin
<1>3. ASSUME NEW y \in S, y < x
      PROVE  FALSE
  <2>1. <<y, x>> \in R
    BY <1>3 DEF R
  <2> QED BY <2>1, <1>2
<1> QED BY <1>2, <1>3

\* So has it a Min.
LEMMA MinOfNaturals ==
    ASSUME NEW S, S \subseteq Nat, S # {}
    PROVE  Min(S) \in S /\ \A y \in S : Min(S) <= y
BY LeastNatural DEF Min

\* And a bounded one a Max.
LEMMA MaxOfNaturals ==
    ASSUME NEW n \in Nat, NEW S, S \subseteq 0 .. n, S # {}
    PROVE  Max(S) \in S /\ \A y \in S : y <= Max(S)
<1> DEFINE mirrored == {n - x : x \in S}
<1>1. mirrored \subseteq Nat /\ mirrored # {}
  <2>1. PICK x \in S : TRUE
    OBVIOUS
  <2>2. n - x \in mirrored
    BY <2>1
  <2>3. \A y \in S : n - y \in Nat
    OBVIOUS
  <2> QED BY <2>2, <2>3
<1>2. PICK m \in mirrored : \A y \in mirrored : m <= y
  BY <1>1, LeastNatural
<1>3. PICK x \in S : m = n - x
  BY <1>2
<1>4. \A y \in S : y <= x
  BY <1>2, <1>3
<1> QED BY <1>4 DEF Max

\* A list whose neighbours are in order is in order: of two entries out of order, the
\* later one can be moved down to its neighbour.
LEMMA NeighboursOrdered ==
    ASSUME NEW n \in Nat, NEW f \in [1 .. n -> Int]
    PROVE  /\ (\A i \in 2 .. n : f[i - 1] <= f[i]) =>
                \A i, j \in 1 .. n : i <= j => f[i] <= f[j]
           /\ (\A i \in 2 .. n : f[i - 1] < f[i]) =>
                \A i, j \in 1 .. n : i < j => f[i] < f[j]
<1>1. ASSUME \A i \in 2 .. n : f[i - 1] <= f[i]
      PROVE  \A i, j \in 1 .. n : i <= j => f[i] <= f[j]
  <2> DEFINE bad == {j \in 1 .. n : \E i \in 1 .. n : i <= j /\ ~(f[i] <= f[j])}
  <2>1. ASSUME bad # {}
        PROVE  FALSE
    <3>0. bad \subseteq Nat
      OBVIOUS
    <3> HIDE DEF bad
    <3>1. PICK j \in bad : \A k \in bad : j <= k
      BY <2>1, <3>0, LeastNatural
    <3> USE DEF bad
    <3>2. PICK i \in 1 .. n : i <= j /\ ~(f[i] <= f[j])
      BY <3>1
    <3>3. j \in 1 .. n /\ f[i] \in Int /\ f[j] \in Int /\ i # j
      BY <3>1, <3>2
    <3>4. j - 1 \in 1 .. n /\ j \in 2 .. n /\ i <= j - 1 /\ f[j - 1] \in Int
      BY <3>2, <3>3
    <3>5. j - 1 \notin bad
      BY <3>1, <3>3
    <3>6. f[i] <= f[j - 1]
      BY <3>4, <3>5
    <3>7. f[j - 1] <= f[j]
      BY <3>4, <1>1
    <3> QED BY <3>2, <3>3, <3>4, <3>6, <3>7
  <2> QED BY <2>1
<1>2. ASSUME \A i \in 2 .. n : f[i - 1] < f[i]
      PROVE  \A i, j \in 1 .. n : i < j => f[i] < f[j]
  <2>1. \A i \in 2 .. n : f[i - 1] <= f[i]
    <3> SUFFICES ASSUME NEW i \in 2 .. n PROVE f[i - 1] <= f[i]
      OBVIOUS
    <3>1. i - 1 \in 1 .. n /\ i \in 1 .. n
      OBVIOUS
    <3>2. f[i - 1] \in Int /\ f[i] \in Int /\ f[i - 1] < f[i]
      BY <3>1, <1>2
    <3> QED BY <3>2
  <2>2. \A i, j \in 1 .. n : i <= j => f[i] <= f[j]
    BY <1>1, <2>1
  <2>3. ASSUME NEW i \in 1 .. n, NEW j \in 1 .. n, i < j
        PROVE  f[i] < f[j]
    <3>1. j - 1 \in 1 .. n /\ j \in 2 .. n /\ i <= j - 1
      BY <2>3
    <3>2. f[i] \in Int /\ f[j] \in Int /\ f[j - 1] \in Int
      BY <3>1
    <3> QED BY <3>1, <3>2, <2>2, <1>2
  <2> QED BY <2>3
<1> QED BY <1>1, <1>2

-----------------------------------------------------------------------------
(* Sequences. *)

\* Every sequence holds what its parts hold.
LEMMA ConcatHolds ==
    ASSUME NEW S, NEW s \in Seq(S), NEW t \in Seq(S)
    PROVE  /\ s \o t \in Seq(S) /\ Len(s \o t) = Len(s) + Len(t)
           /\ ToSet(s \o t) = ToSet(s) \cup ToSet(t)
<1>1. s \o t \in Seq(S) /\ Len(s \o t) = Len(s) + Len(t)
  OBVIOUS
<1>2. \A i \in 1 .. Len(s) : (s \o t)[i] = s[i]
  OBVIOUS
<1>3. \A i \in 1 .. Len(t) : (s \o t)[Len(s) + i] = t[i]
  OBVIOUS
<1>4. \A i \in 1 .. Len(s) + Len(t) : i \notin 1 .. Len(s) => i - Len(s) \in 1 .. Len(t)
  OBVIOUS
<1>5. ToSet(s \o t) \subseteq ToSet(s) \cup ToSet(t)
  <2> SUFFICES ASSUME NEW i \in 1 .. Len(s) + Len(t)
               PROVE  (s \o t)[i] \in ToSet(s) \cup ToSet(t)
    BY <1>1 DEF ToSet
  <2>1. CASE i \in 1 .. Len(s)
    BY <2>1, <1>2 DEF ToSet
  <2>2. CASE i \notin 1 .. Len(s)
    <3>1. i - Len(s) \in 1 .. Len(t) /\ (s \o t)[Len(s) + (i - Len(s))] = t[i - Len(s)]
      BY <2>2, <1>3, <1>4
    <3> QED BY <3>1 DEF ToSet
  <2> QED BY <2>1, <2>2
<1>6. ToSet(s) \cup ToSet(t) \subseteq ToSet(s \o t)
  <2>1. \A i \in 1 .. Len(s) : s[i] \in ToSet(s \o t)
    BY <1>1, <1>2 DEF ToSet
  <2>2. \A i \in 1 .. Len(t) : t[i] \in ToSet(s \o t)
    <3> SUFFICES ASSUME NEW i \in 1 .. Len(t) PROVE t[i] \in ToSet(s \o t)
      OBVIOUS
    <3>1. Len(s) + i \in DOMAIN (s \o t)
      BY <1>1
    <3> QED BY <3>1, <1>3 DEF ToSet
  <2>3. ASSUME NEW x \in ToSet(s) \cup ToSet(t)
        PROVE  x \in ToSet(s \o t)
    <3>1. CASE x \in ToSet(s)
      BY <3>1, <2>1 DEF ToSet
    <3>2. CASE x \in ToSet(t)
      BY <3>2, <2>2 DEF ToSet
    <3> QED BY <3>1, <3>2
  <2> QED BY <2>3
<1> QED BY <1>1, <1>5, <1>6

\* What is left of a FIFO when its first k entries are taken.
LEMMA RestHolds ==
    ASSUME NEW S, NEW s \in Seq(S), NEW k \in 0 .. Len(s)
    PROVE  /\ SubSeq(s, k + 1, Len(s)) \in Seq(S)
           /\ Len(SubSeq(s, k + 1, Len(s))) = Len(s) - k
           /\ ToSet(SubSeq(s, k + 1, Len(s))) \subseteq ToSet(s)
BY DEF ToSet

\* The entries that are taken.
LEMMA FrontHolds ==
    ASSUME NEW S, NEW s \in Seq(S), NEW k \in 0 .. Len(s)
    PROVE  /\ SubSeq(s, 1, k) \in Seq(S)
           /\ Len(SubSeq(s, 1, k)) = k
           /\ ToSet(SubSeq(s, 1, k)) \subseteq ToSet(s)
BY DEF ToSet

\* The same of a FIFO whose head is taken.
LEMMA TailHolds ==
    ASSUME NEW S, NEW s \in Seq(S), s # <<>>
    PROVE  /\ Tail(s) \in Seq(S) /\ Len(Tail(s)) = Len(s) - 1
           /\ Head(s) \in S /\ Head(s) \in ToSet(s) /\ ToSet(Tail(s)) \subseteq ToSet(s)
           /\ Len(s) >= 1
BY DEF ToSet

\* A sequence is one over any set that holds its entries.
LEMMA HeldIn ==
    ASSUME NEW S, NEW s \in Seq(S), NEW T, ToSet(s) \subseteq T
    PROVE  s \in Seq(T)
<1>1. \A k \in 1 .. Len(s) : s[k] \in ToSet(s)
  BY DEF ToSet
<1>2. \A k \in 1 .. Len(s) : s[k] \in T
  BY <1>1
<1> QED BY <1>2

\* A function on 1 .. n is a sequence of its values.
LEMMA FunctionIsSequence ==
    ASSUME NEW S, NEW n \in Nat, NEW f \in [1 .. n -> S]
    PROVE  f \in Seq(S) /\ Len(f) = n /\ DOMAIN f = 1 .. n /\ ToSet(f) = {f[i] : i \in 1 .. n}
BY DEF ToSet

-----------------------------------------------------------------------------
(* Finite sets. *)

\* The values of a function on a finite set are no more than its arguments.
LEMMA ImageBound ==
    ASSUME NEW S, IsFiniteSet(S), NEW f, NEW T, \A y \in T : \E x \in S : y = f[x]
    PROVE  IsFiniteSet(T) /\ Cardinality(T) <= Cardinality(S)
<1> DEFINE preimage == {x \in S : f[x] \in T}
           g == [x \in preimage |-> f[x]]
<1>1. IsFiniteSet(preimage) /\ Cardinality(preimage) <= Cardinality(S)
  BY FS_Subset
<1>2. g \in Surjection(preimage, T)
  BY DEF Surjection
<1> HIDE DEF preimage, g
<1>3. /\ IsFiniteSet(T) /\ Cardinality(T) <= Cardinality(preimage)
  BY <1>1, <1>2, FS_Surjection
<1> QED BY <1>1, <1>3, FS_CardinalityType

\* What is added to a set bounds how much larger it gets.
LEMMA UnionBound ==
    ASSUME NEW S, IsFiniteSet(S), NEW T, IsFiniteSet(T)
    PROVE  IsFiniteSet(S \cup T) /\ Cardinality(S \cup T) <= Cardinality(S) + Cardinality(T)
<1>1. IsFiniteSet(S \cap T)
  BY FS_Subset
<1>2. /\ IsFiniteSet(S \cup T)
      /\ Cardinality(S \cup T) = Cardinality(S) + Cardinality(T) - Cardinality(S \cap T)
  BY FS_Union
<1>3. Cardinality(S) \in Nat /\ Cardinality(T) \in Nat /\ Cardinality(S \cap T) \in Nat
  BY <1>1, FS_CardinalityType
<1> QED BY <1>2, <1>3

-----------------------------------------------------------------------------
(* Ranks. *)

\* before[x] are the members of S before x, in a strict total order.
IsOrder(S, before) ==
    /\ \A x \in S : before[x] \subseteq S /\ x \notin before[x]
    /\ \A x, y \in S : x = y \/ x \in before[y] \/ y \in before[x]
    /\ \A x, y \in S : x \in before[y] => before[x] \subseteq before[y]

\* The rank tells members apart and grows with the order.
LEMMA RankGrows ==
    ASSUME NEW S, IsFiniteSet(S), NEW before, IsOrder(S, before), NEW x \in S, NEW y \in S
    PROVE  /\ Cardinality(before[x]) \in 0 .. Cardinality(S) - 1
           /\ x \in before[y] <=> Cardinality(before[x]) < Cardinality(before[y])
           /\ x = y <=> Cardinality(before[x]) = Cardinality(before[y])
<1>1. ASSUME NEW a \in S
      PROVE  /\ IsFiniteSet(before[a])
             /\ Cardinality(before[a]) \in Nat /\ Cardinality(S) \in Nat
             /\ Cardinality(before[a]) < Cardinality(S)
  <2>1. before[a] \subseteq S /\ before[a] # S
    BY DEF IsOrder
  <2>2. /\ IsFiniteSet(before[a]) /\ Cardinality(before[a]) <= Cardinality(S)
        /\ Cardinality(S) = Cardinality(before[a]) => S = before[a]
    BY <2>1, FS_Subset
  <2> QED BY <2>1, <2>2, FS_CardinalityType
<1>2. ASSUME NEW a \in S, NEW b \in S, a \in before[b]
      PROVE  Cardinality(before[a]) < Cardinality(before[b])
  <2>1. before[a] \subseteq before[b] /\ before[a] # before[b]
    BY <1>2 DEF IsOrder
  <2>2. /\ Cardinality(before[a]) <= Cardinality(before[b])
        /\ Cardinality(before[b]) = Cardinality(before[a]) => before[b] = before[a]
    BY <1>1, <2>1, FS_Subset
  <2> QED BY <1>1, <2>1, <2>2
<1>3. x = y \/ x \in before[y] \/ y \in before[x]
  BY DEF IsOrder
<1> QED BY <1>1, <1>2, <1>3

\* The members with a rank below k are at most k: what FirstOf picks is bounded.
LEMMA RankBound ==
    ASSUME NEW S, IsFiniteSet(S), NEW before, IsOrder(S, before), NEW k \in Nat,
           NEW T, T \subseteq S, \A x \in T : Cardinality(before[x]) < k
    PROVE  IsFiniteSet(T) /\ Cardinality(T) <= k
<1> DEFINE rank == [x \in T |-> Cardinality(before[x])]
<1>1. \A x \in T : rank[x] \in 0 .. k - 1
  BY RankGrows
<1>2. \A x, y \in T : rank[x] = rank[y] => x = y
  BY RankGrows
<1> HIDE DEF rank
<1>3. IsFiniteSet(0 .. k - 1) /\ Cardinality(0 .. k - 1) = k
  BY FS_Interval
<1>4. rank \in Injection(T, 0 .. k - 1)
  BY <1>1, <1>2 DEF Injection, IsInjective, rank
<1> QED BY <1>3, <1>4, FS_Injection

\* Every rank below the size is taken: the choice in InOrder finds its member.
LEMMA RankTaken ==
    ASSUME NEW S, IsFiniteSet(S), NEW before, IsOrder(S, before),
           NEW i \in 0 .. Cardinality(S) - 1
    PROVE  \E x \in S : Cardinality(before[x]) = i
<1> DEFINE n == Cardinality(S)
           rank == [x \in S |-> Cardinality(before[x])]
<1>1. n \in Nat
  BY FS_CardinalityType
<1>2. \A x \in S : rank[x] \in 0 .. n - 1
  BY RankGrows
<1>3. \A x, y \in S : rank[x] = rank[y] => x = y
  BY RankGrows
<1> HIDE DEF rank
<1>4. IsFiniteSet(0 .. n - 1) /\ Cardinality(0 .. n - 1) = n
  BY <1>1, FS_Interval
<1>5. rank \in Injection(S, 0 .. n - 1)
  BY <1>2, <1>3 DEF Injection, IsInjective, rank
<1>6. rank \in Surjection(S, 0 .. n - 1)
  BY <1>4, <1>5, FS_Injection
<1>7. \E x \in S : rank[x] = i
  BY <1>6 DEF Surjection
<1> QED BY <1>7 DEF rank

-----------------------------------------------------------------------------
(* Subsequences. *)

\* The members of I below i.
LowerIn(I) == [i \in I |-> {j \in I : j < i}]

\* The order of the integers is total on any set of them.
LEMMA IndicesOrdered ==
    ASSUME NEW I, I \subseteq Int
    PROVE  IsOrder(I, LowerIn(I))
<1> DEFINE b == LowerIn(I)
<1>1. \A x \in I : b[x] = {j \in I : j < x}
  BY DEF LowerIn
<1> HIDE DEF b
<1>2. \A x \in I : b[x] \subseteq I /\ x \notin b[x]
  BY <1>1
<1>3. \A x, y \in I : x = y \/ x \in b[y] \/ y \in b[x]
  BY <1>1
<1>4. ASSUME NEW x \in I, NEW y \in I, x \in b[y]
      PROVE  b[x] \subseteq b[y]
  <2>1. x \in Int /\ y \in Int /\ x < y
    BY <1>1, <1>4
  <2>2. \A j \in I : j < x => j < y
    BY <2>1
  <2> QED BY <2>2, <1>1
<1>5. IsOrder(I, b)
  BY <1>2, <1>3, <1>4 DEF IsOrder
<1> QED BY <1>5 DEF b

\* Below orders the indices: the k-th one in order is an index with rank k - 1.
LEMMA IndexInOrder ==
    ASSUME NEW I, I \subseteq Int, IsFiniteSet(I), NEW k \in 1 .. Cardinality(I)
    PROVE  /\ InOrder(I, Below)[k] \in I
           /\ Cardinality({j \in I : j < InOrder(I, Below)[k]}) = k - 1
<1> DEFINE x == InOrder(I, Below)[k]
<1>1. x = CHOOSE i \in I : Cardinality({j \in I : j < i}) = k - 1
  BY DEF InOrder, Rank, Below
<1>2. Cardinality(I) \in Nat
  BY FS_CardinalityType
<1>3. \E i \in I : Cardinality(LowerIn(I)[i]) = k - 1
  <2>1. k - 1 \in 0 .. Cardinality(I) - 1
    BY <1>2
  <2> DEFINE b == LowerIn(I)
             m == k - 1
  <2>2. IsOrder(I, b)
    BY IndicesOrdered
  <2>3. m \in 0 .. Cardinality(I) - 1
    BY <2>1
  <2> HIDE DEF b, m
  <2>4. \E i \in I : Cardinality(b[i]) = m
    BY ONLY IsFiniteSet(I), <2>2, <2>3, RankTaken
  <2> QED BY <2>4 DEF b, m
<1>4. \E i \in I : Cardinality({j \in I : j < i}) = k - 1
  BY <1>3 DEF LowerIn
<1> QED BY <1>1, <1>4

\* A subsequence holds the entries at its indices, as many as there are.
LEMMA PickedHolds ==
    ASSUME NEW S, NEW s \in Seq(S), NEW I, I \subseteq 1 .. Len(s)
    PROVE  /\ IsFiniteSet(I) /\ Cardinality(I) \in 0 .. Len(s)
           /\ Picked(s, I) \in Seq(S) /\ Len(Picked(s, I)) = Cardinality(I)
           /\ ToSet(Picked(s, I)) \subseteq {s[i] : i \in I}
<1> DEFINE len == Len(s)
<1>1. len \in Nat
  OBVIOUS
<1>2. IsFiniteSet(1 .. len) /\ Cardinality(1 .. len) = len
  <2> HIDE DEF len
  <2>1. /\ IsFiniteSet(1 .. len)
        /\ Cardinality(1 .. len) = IF 1 > len THEN 0 ELSE len - 1 + 1
    BY ONLY <1>1, FS_Interval
  <2> QED BY <1>1, <2>1
<1>3. IsFiniteSet(I) /\ Cardinality(I) <= Len(s)
  BY <1>2, FS_Subset
<1>4. Cardinality(I) \in Nat
  BY <1>3, FS_CardinalityType
<1>5. \A k \in 1 .. Cardinality(I) : InOrder(I, Below)[k] \in I
  <2>1. I \subseteq Int
    BY <1>1
  <2> QED BY <2>1, <1>3, IndexInOrder
<1>6. \A i \in I : s[i] \in S
  OBVIOUS
<1> DEFINE n == Cardinality(I)
           p == Picked(s, I)
           index == InOrder(I, Below)
<1>7. p = [k \in 1 .. n |-> s[index[k]]]
  BY DEF Picked
<1> HIDE DEF n, p, index
<1>8. n \in Nat /\ \A k \in 1 .. n : index[k] \in I /\ s[index[k]] \in S
  BY <1>4, <1>5, <1>6 DEF n, index
<1>9. p \in [1 .. n -> S]
  BY <1>7, <1>8
<1>10. p \in Seq(S) /\ Len(p) = n /\ ToSet(p) = {p[k] : k \in 1 .. n}
  BY <1>8, <1>9, FunctionIsSequence
<1>11. ToSet(p) \subseteq {s[i] : i \in I}
  BY <1>7, <1>8, <1>10
<1>12. Cardinality(I) \in 0 .. Len(s)
  BY <1>1, <1>3, <1>4
<1>13. /\ Picked(s, I) \in Seq(S) /\ Len(Picked(s, I)) = Cardinality(I)
       /\ ToSet(Picked(s, I)) \subseteq {s[i] : i \in I}
  BY <1>10, <1>11 DEF n, p
<1> QED BY <1>3, <1>12, <1>13

\* Picking every index gives the sequence.
LEMMA PickedAll ==
    ASSUME NEW S, NEW s \in Seq(S)
    PROVE  Picked(s, 1 .. Len(s)) = s
<1> DEFINE I == 1 .. Len(s)
<1>1. Len(s) \in Nat
  OBVIOUS
<1>2. IsFiniteSet(I) /\ Cardinality(I) = Len(s) /\ I \subseteq Int
  BY <1>1, FS_Interval
<1>3. ASSUME NEW k \in I
      PROVE  InOrder(I, Below)[k] = k
  <2>1. /\ InOrder(I, Below)[k] \in I
        /\ Cardinality({j \in I : j < InOrder(I, Below)[k]}) = k - 1
    BY <1>2, IndexInOrder
  <2> DEFINE x == InOrder(I, Below)[k]
  <2>2. {j \in I : j < x} = 1 .. x - 1
    BY <2>1, <1>1
  <2>3. Cardinality(1 .. x - 1) = x - 1
    <3>1. x \in Int /\ x >= 1
      BY <2>1
    <3>2. 1 \in Int /\ x - 1 \in Int
      BY <3>1
    <3>3. Cardinality(1 .. x - 1) = IF 1 > x - 1 THEN 0 ELSE (x - 1) - 1 + 1
      BY <3>2, FS_Interval
    <3> QED BY <3>1, <3>3
  <2>4. k \in Int /\ x \in Int
    BY <2>1, <1>1
  <2>5. x - 1 = k - 1
    BY <2>1, <2>2, <2>3
  <2> QED BY <2>4, <2>5
<1>4. Picked(s, I) = [k \in I |-> s[k]]
  BY <1>2, <1>3 DEF Picked
<1>5. s = [k \in 1 .. Len(s) |-> s[k]]
  OBVIOUS
<1> QED BY <1>4, <1>5
-----------------------------------------------------------------------------
(* Sums. *)

\* A set that is mapped one to one has as many images as members.
LEMMA ImageSize ==
    ASSUME NEW S, IsFiniteSet(S), NEW f, NEW T, T = {f[x] : x \in S},
           \A x, y \in S : f[x] = f[y] => x = y
    PROVE  IsFiniteSet(T) /\ Cardinality(T) = Cardinality(S)
<1> DEFINE g == [x \in S |-> f[x]]
<1>1. g \in Surjection(S, T) /\ g \in Injection(S, T)
  BY DEF Surjection, Injection, IsInjective
<1> QED BY <1>1, FS_Surjection

\* The cells of a function.
LEMMA CellsAre ==
    ASSUME NEW S, NEW f \in [S -> Nat]
    PROVE  \A y : y \in Cells(f) <=> \E x \in S : \E k \in 1 .. f[x] : y = <<x, k>>
BY DEF Cells

\* They are finitely many on a finite set.
LEMMA CellsFinite ==
    ASSUME NEW S, IsFiniteSet(S), NEW f \in [S -> Nat]
    PROVE  IsFiniteSet(Cells(f)) /\ Total(f) \in Nat
<1> DEFINE column == [x \in S |-> {<<x, k>> : k \in 1 .. f[x]}]
           C == {column[x] : x \in S}
<1>1. ASSUME NEW x \in S
      PROVE  IsFiniteSet(column[x])
  <2> DEFINE h == [k \in 1 .. f[x] |-> <<x, k>>]
  <2>1. IsFiniteSet(1 .. f[x])
    BY FS_Interval
  <2>2. \A y \in column[x] : \E k \in 1 .. f[x] : y = h[k]
    OBVIOUS
  <2> HIDE DEF column, h
  <2> QED BY <2>1, <2>2, ImageBound
<1>2. Cells(f) = UNION C
  BY DEF Cells
<1>3. IsFiniteSet(C)
  <2>1. \A y \in C : \E x \in S : y = column[x]
    OBVIOUS
  <2> HIDE DEF column, C
  <2> QED BY <2>1, ImageBound
<1>4. IsFiniteSet(UNION C)
  <2>1. \A T \in C : IsFiniteSet(T)
    BY <1>1
  <2> HIDE DEF C
  <2> QED BY <2>1, <1>3, FS_UNION
<1> QED BY <1>2, <1>4, FS_CardinalityType DEF Total

\* The sum of a sum.
LEMMA TotalOfSum ==
    ASSUME NEW S, IsFiniteSet(S), NEW f \in [S -> Nat], NEW h \in [S -> Nat],
           NEW t \in [S -> Nat], \A x \in S : t[x] = f[x] + h[x]
    PROVE  Total(t) = Total(f) + Total(h)
<1> DEFINE shift == [y \in Cells(h) |-> <<y[1], f[y[1]] + y[2]>>]
           T == {shift[y] : y \in Cells(h)}
<1>1. /\ IsFiniteSet(Cells(f)) /\ IsFiniteSet(Cells(h))
      /\ Cardinality(Cells(f)) \in Nat /\ Cardinality(Cells(h)) \in Nat
  BY CellsFinite, FS_CardinalityType
<1>2. \A y \in Cells(h) : \E x \in S : \E k \in 1 .. h[x] : y = <<x, k>> /\ shift[y] = <<x, f[x] + k>>
  BY CellsAre
<1>3. IsFiniteSet(T) /\ Cardinality(T) = Cardinality(Cells(h))
  <2>1. \A y, z \in Cells(h) : shift[y] = shift[z] => y = z
    <3>1. ASSUME NEW y \in Cells(h), NEW z \in Cells(h), shift[y] = shift[z]
          PROVE  y = z
      <4>1. PICK x \in S, k \in Nat : k \in 1 .. h[x] /\ y = <<x, k>> /\ shift[y] = <<x, f[x] + k>>
        BY <1>2
      <4>2. PICK u \in S, l \in Nat : l \in 1 .. h[u] /\ z = <<u, l>> /\ shift[z] = <<u, f[u] + l>>
        BY <1>2
      <4>3. x = u /\ f[x] + k = f[x] + l
        BY <3>1, <4>1, <4>2
      <4>4. f[x] \in Nat /\ k \in Int /\ l \in Int
        OBVIOUS
      <4> QED BY <4>1, <4>2, <4>3, <4>4
    <3> QED BY <3>1
  <2> HIDE DEF shift
  <2> QED BY <2>1, <1>1, ImageSize
<1>4. Cells(t) = Cells(f) \cup T
  <2>1. ASSUME NEW y \in Cells(t)
        PROVE  y \in Cells(f) \cup T
    <3>1. PICK x \in S, k \in Nat : k \in 1 .. t[x] /\ y = <<x, k>>
      BY CellsAre
    <3>2. f[x] \in Nat /\ h[x] \in Nat /\ t[x] = f[x] + h[x] /\ k \in Int
      OBVIOUS
    <3>3. CASE k <= f[x]
      <4>1. k \in 1 .. f[x]
        BY <3>1, <3>2, <3>3
      <4> QED BY <3>1, <4>1, CellsAre
    <3>4. CASE ~(k <= f[x])
      <4>1. k - f[x] \in 1 .. h[x] /\ f[x] + (k - f[x]) = k
        BY <3>1, <3>2, <3>4
      <4>2. <<x, k - f[x]>> \in Cells(h)
        BY <4>1, CellsAre
      <4>3. shift[<<x, k - f[x]>>] = y
        BY <3>1, <4>1, <4>2
      <4> QED BY <4>2, <4>3
    <3> QED BY <3>3, <3>4
  <2>2. ASSUME NEW y \in Cells(f)
        PROVE  y \in Cells(t)
    <3>1. PICK x \in S, k \in Nat : k \in 1 .. f[x] /\ y = <<x, k>>
      BY CellsAre
    <3>2. f[x] \in Nat /\ h[x] \in Nat /\ t[x] = f[x] + h[x] /\ k \in Int
      OBVIOUS
    <3>3. k \in 1 .. t[x]
      BY <3>1, <3>2
    <3> QED BY <3>1, <3>3, CellsAre
  <2>3. ASSUME NEW y \in T
        PROVE  y \in Cells(t)
    <3>1. PICK z \in Cells(h) : y = shift[z]
      OBVIOUS
    <3>2. PICK x \in S, k \in Nat : k \in 1 .. h[x] /\ y = <<x, f[x] + k>>
      BY <3>1, <1>2
    <3>3. f[x] \in Nat /\ h[x] \in Nat /\ t[x] = f[x] + h[x] /\ k \in Int
      OBVIOUS
    <3>4. f[x] + k \in 1 .. t[x]
      BY <3>2, <3>3
    <3> QED BY <3>2, <3>4, CellsAre
  <2> QED BY <2>1, <2>2, <2>3
<1>5. Cells(f) \cap T = {}
  <2>1. ASSUME NEW y \in Cells(f), y \in T
        PROVE  FALSE
    <3>1. PICK x \in S, k \in Nat : k \in 1 .. f[x] /\ y = <<x, k>>
      BY CellsAre
    <3>2. PICK u \in S, l \in Nat : l \in 1 .. h[u] /\ y = <<u, f[u] + l>>
      BY <2>1, <1>2
    <3>3. k = f[x] + l /\ f[x] \in Nat /\ k \in Int /\ l \in Int /\ k <= f[x] /\ l >= 1
      BY <3>1, <3>2
    <3> QED BY <3>3
  <2> QED BY <2>1
<1>6. Cardinality(Cells(t)) = Cardinality(Cells(f)) + Cardinality(T) - Cardinality({})
  <2> HIDE DEF T
  <2> QED BY <1>1, <1>3, <1>4, <1>5, FS_Union
<1> QED BY <1>1, <1>3, <1>6, FS_EmptySet DEF Total

\* Counting a finite set by a key of its members.
LEMMA TotalByKey ==
    ASSUME NEW S, IsFiniteSet(S), NEW X, IsFiniteSet(X), NEW key \in [X -> S],
           NEW t \in [S -> Nat], \A s \in S : t[s] = Cardinality({x \in X : key[x] = s})
    PROVE  Total(t) = Cardinality(X)
<1> DEFINE part(s) == {x \in X : key[x] = s}
           b == [s \in S |-> CHOOSE h : h \in Bijection(1 .. t[s], part(s))]
           m == [y \in Cells(t) |-> b[y[1]][y[2]]]
<1>1. ASSUME NEW s \in S
      PROVE  b[s] \in Bijection(1 .. t[s], part(s))
  <2>1. IsFiniteSet(part(s)) /\ t[s] = Cardinality(part(s))
    BY FS_Subset
  <2>2. \E h : h \in Bijection(1 .. t[s], part(s))
    <3> HIDE DEF part
    <3> QED BY <2>1, FS_CardinalityType DEF ExistsBijection
  <2>3. b[s] = CHOOSE h : h \in Bijection(1 .. t[s], part(s))
    OBVIOUS
  <2> HIDE DEF b, part
  <2> QED BY <2>2, <2>3
<1> HIDE DEF b
<1>2. \A y \in Cells(t) : \E s \in S : \E k \in 1 .. t[s] : y = <<s, k>> /\ m[y] = b[s][k]
  <2>1. ASSUME NEW y \in Cells(t)
        PROVE  \E s \in S : \E k \in 1 .. t[s] : y = <<s, k>> /\ m[y] = b[s][k]
    <3>1. PICK s \in S, k \in Nat : k \in 1 .. t[s] /\ y = <<s, k>>
      BY CellsAre
    <3>2. m[y] = b[y[1]][y[2]]
      OBVIOUS
    <3>3. m[y] = b[s][k]
      BY <3>1, <3>2
    <3> QED BY <3>1, <3>3
  <2> QED BY <2>1
<1>3. \A s \in S : \A k \in 1 .. t[s] : b[s][k] \in X /\ key[b[s][k]] = s
  BY <1>1 DEF Bijection, Injection
<1>4. \A y, z \in Cells(t) : m[y] = m[z] => y = z
  <2>1. ASSUME NEW y \in Cells(t), NEW z \in Cells(t), m[y] = m[z]
        PROVE  y = z
    <3>1. PICK s \in S, k \in Nat : k \in 1 .. t[s] /\ y = <<s, k>> /\ m[y] = b[s][k]
      BY <1>2
    <3>2. PICK u \in S, l \in Nat : l \in 1 .. t[u] /\ z = <<u, l>> /\ m[z] = b[u][l]
      BY <1>2
    <3>3. s = u /\ b[s][k] = b[s][l]
      BY <2>1, <3>1, <3>2, <1>3
    <3>4. \A i, j \in 1 .. t[s] : b[s][i] = b[s][j] => i = j
      <4>1. b[s] \in Injection(1 .. t[s], part(s))
        BY <1>1 DEF Bijection
      <4> HIDE DEF part
      <4>2. IsInjective(b[s]) /\ DOMAIN b[s] = 1 .. t[s]
        BY <4>1 DEF Injection
      <4> QED BY <4>2 DEF IsInjective
    <3>5. k = l
      BY <3>1, <3>2, <3>3, <3>4
    <3> QED BY <3>1, <3>2, <3>3, <3>5
  <2> QED BY <2>1
<1>5. X = {m[y] : y \in Cells(t)}
  <2>1. ASSUME NEW x \in X
        PROVE  \E y \in Cells(t) : x = m[y]
    <3>1. key[x] \in S /\ x \in part(key[x])
      OBVIOUS
    <3>2. PICK k \in 1 .. t[key[x]] : b[key[x]][k] = x
      BY <3>1, <1>1 DEF Bijection, Surjection
    <3>3. <<key[x], k>> \in Cells(t)
      BY <3>1, CellsAre
    <3> QED BY <3>2, <3>3
  <2>2. \A y \in Cells(t) : m[y] \in X
    BY <1>2, <1>3
  <2> QED BY <2>1, <2>2
<1>6. IsFiniteSet(Cells(t))
  BY CellsFinite
<1> HIDE DEF m
<1> QED BY <1>4, <1>5, <1>6, ImageSize DEF Total

\* Counting the members of a set.
LEMMA TotalOfFlags ==
    ASSUME NEW S, IsFiniteSet(S), NEW T, T \subseteq S,
           NEW t \in [S -> Nat], \A s \in S : t[s] = IF s \in T THEN 1 ELSE 0
    PROVE  Total(t) = Cardinality(T)
<1> DEFINE m == [s \in T |-> <<s, 1>>]
<1>1. IsFiniteSet(T)
  BY FS_Subset
<1>2. Cells(t) = {m[s] : s \in T}
  BY CellsAre
<1>3. \A x, y \in T : m[x] = m[y] => x = y
  OBVIOUS
<1> HIDE DEF m
<1> QED BY <1>1, <1>2, <1>3, ImageSize DEF Total

-----------------------------------------------------------------------------
(* Sums over sets, which the fold MapThenSumSet defines by a recursive function on the  *)
(* subsets of a set. *)

\* The sum of the values of f on S, and what the fold that defines it iterates.
SumOf(f, S) == MapThenSumSet(LAMBDA x : f[x], S)
IsSum(f, S, g) ==
    g = [s \in SUBSET S |-> IF s = {} THEN 0
                            ELSE LET x == CHOOSE x \in s : TRUE IN f[x] + g[s \ {x}]]

\* The equation has a solution on the subsets of a finite set, one size after the other.
LEMMA SumExists ==
    ASSUME NEW f, NEW S, IsFiniteSet(S)
    PROVE  \E g : IsSum(f, S, g)
<1> DEFINE upTo(k) == {s \in SUBSET S : Cardinality(s) <= k}
           next(g, s) == IF s = {} THEN 0
                         ELSE LET x == CHOOSE x \in s : TRUE IN f[x] + g[s \ {x}]
           solved(k) == \E g : g = [s \in upTo(k) |-> next(g, s)]
           unsolved == {k \in Nat : ~solved(k)}
<1>1. ASSUME NEW s \in SUBSET S
      PROVE  /\ IsFiniteSet(s) /\ Cardinality(s) \in Nat /\ Cardinality(s) <= Cardinality(S)
             /\ s = {} <=> Cardinality(s) = 0
  BY FS_Subset, FS_CardinalityType, FS_EmptySet
<1>2. ASSUME NEW s \in SUBSET S, NEW x \in s
      PROVE  s \ {x} \in SUBSET S /\ Cardinality(s \ {x}) = Cardinality(s) - 1
  BY <1>1, FS_RemoveElement
<1>3. solved(0)
  <2> DEFINE g == [s \in upTo(0) |-> 0]
  <2>1. \A s \in upTo(0) : s = {}
    BY <1>1
  <2>2. g = [s \in upTo(0) |-> next(g, s)]
    BY <2>1
  <2> HIDE DEF g
  <2> QED BY <2>2
<1>4. ASSUME NEW k \in Nat, solved(k)
      PROVE  solved(k + 1)
  <2>1. PICK g : g = [s \in upTo(k) |-> next(g, s)]
    BY <1>4
  <2> DEFINE h == [s \in upTo(k + 1) |-> next(g, s)]
  <2>2. ASSUME NEW s \in upTo(k), s # {}
        PROVE  h[s] = g[s]
    <3>1. s \in upTo(k + 1)
      BY <1>1
    <3>2. g[s] = next(g, s)
      BY <2>1
    <3> QED BY <3>1, <3>2
  <2>3. ASSUME NEW s \in upTo(k + 1)
        PROVE  next(g, s) = next(h, s)
    <3>1. CASE s = {}
      BY <3>1
    <3>2. CASE s # {}
      <4> DEFINE x == CHOOSE x \in s : TRUE
      <4>1. x \in s
        BY <3>2
      <4> HIDE DEF x
      <4>2. s \ {x} \in upTo(k) /\ s \ {x} \in upTo(k + 1)
        BY <1>1, <1>2, <4>1
      <4>3. g[s \ {x}] = next(g, s \ {x})
        BY <2>1, <4>2
      <4>4. h[s \ {x}] = g[s \ {x}]
        BY <4>2, <4>3
      <4> QED BY <3>2, <4>4 DEF x
    <3> QED BY <3>1, <3>2
  <2>4. h = [s \in upTo(k + 1) |-> next(h, s)]
    <3>1. h = [s \in upTo(k + 1) |-> next(g, s)]
      OBVIOUS
    <3> HIDE DEF h, next, upTo
    <3> QED BY <2>3, <3>1
  <2> HIDE DEF h
  <2> QED BY <2>4
<1>5. ASSUME unsolved # {}
      PROVE  FALSE
  <2>0. unsolved \subseteq Nat
    OBVIOUS
  <2>00. \A k \in Nat : k \in unsolved <=> ~solved(k)
    OBVIOUS
  <2> HIDE DEF solved, unsolved
  <2>1. PICK k \in unsolved : \A j \in unsolved : k <= j
    BY <1>5, <2>0, LeastNatural
  <2>2. k \in Nat /\ k # 0
    BY <1>3, <2>0, <2>00, <2>1
  <2>3. k - 1 \in Nat /\ k - 1 \notin unsolved
    BY <2>1, <2>2
  <2>4. solved((k - 1) + 1)
    BY <1>4, <2>00, <2>3
  <2>5. solved(k)
    <3>1. (k - 1) + 1 = k
      BY <2>2
    <3> QED BY <2>4, <3>1
  <2> QED BY <2>00, <2>1, <2>2, <2>5
<1>6. solved(Cardinality(S))
  BY <1>1, <1>5
<1>7. upTo(Cardinality(S)) = SUBSET S
  BY <1>1
<1> QED BY <1>6, <1>7 DEF IsSum

\* Two solutions agree wherever their functions do.
LEMMA SumUnique ==
    ASSUME NEW f, NEW S, IsFiniteSet(S), NEW g, IsSum(f, S, g),
           NEW e, NEW T, NEW h, IsSum(e, T, h),
           NEW s, s \subseteq S, s \subseteq T, \A x \in s : e[x] = f[x]
    PROVE  g[s] = h[s]
<1> DEFINE wrong == {r \in SUBSET s : g[r] # h[r]}
           sizes == {Cardinality(r) : r \in wrong}
<1>1. ASSUME NEW r \in SUBSET s
      PROVE  IsFiniteSet(r) /\ Cardinality(r) \in Nat
  <2>1. IsFiniteSet(r)
    BY FS_Subset
  <2> QED BY <2>1, FS_CardinalityType
<1>2. ASSUME NEW r \in SUBSET s
      PROVE  /\ g[r] = IF r = {} THEN 0 ELSE LET x == CHOOSE x \in r : TRUE IN f[x] + g[r \ {x}]
             /\ h[r] = IF r = {} THEN 0 ELSE LET x == CHOOSE x \in r : TRUE IN e[x] + h[r \ {x}]
  <2>1. r \in SUBSET S /\ r \in SUBSET T
    OBVIOUS
  <2>2. g[r] = IF r = {} THEN 0 ELSE LET x == CHOOSE x \in r : TRUE IN f[x] + g[r \ {x}]
    BY <2>1 DEF IsSum
  <2>3. h[r] = IF r = {} THEN 0 ELSE LET x == CHOOSE x \in r : TRUE IN e[x] + h[r \ {x}]
    BY <2>1 DEF IsSum
  <2> QED BY <2>2, <2>3
<1>3. ASSUME wrong # {}
      PROVE  FALSE
  <2>1. sizes \subseteq Nat /\ sizes # {}
    BY <1>1, <1>3
  <2>2. PICK k \in sizes : \A j \in sizes : k <= j
    <3> HIDE DEF sizes
    <3> QED BY <2>1, LeastNatural
  <2>3. PICK r \in wrong : k = Cardinality(r)
    BY <2>2
  <2> DEFINE x == CHOOSE x \in r : TRUE
  <2>4. r # {} /\ r \in SUBSET s
    BY <1>2, <2>3
  <2>5. x \in r
    BY <2>4
  <2>6. /\ g[r] = f[x] + g[r \ {x}]
        /\ h[r] = e[x] + h[r \ {x}]
    BY <1>2, <2>4
  <2> HIDE DEF x
  <2>7. r \ {x} \in SUBSET s /\ Cardinality(r \ {x}) = k - 1
    <3>1. Cardinality(r \ {x}) = Cardinality(r) - 1
      BY <1>1, <2>4, <2>5, FS_RemoveElement
    <3> QED BY <2>3, <2>4, <3>1
  <2>8. g[r \ {x}] = h[r \ {x}]
    <3>1. k \in Nat
      BY <2>1, <2>2
    <3>2. r \ {x} \notin wrong
      BY <2>2, <2>7, <3>1
    <3> QED BY <2>7, <3>2
  <2>9. e[x] = f[x]
    BY <2>4, <2>5
  <2> QED BY <2>3, <2>6, <2>8, <2>9
<1> QED BY <1>3

\* The fold is the value of any solution.
LEMMA SumSolved ==
    ASSUME NEW f, NEW S, IsFiniteSet(S)
    PROVE  /\ \E g : IsSum(f, S, g)
           /\ \A g, T : IsSum(f, T, g) /\ S \subseteq T => SumOf(f, S) = g[S]
<1>1. PICK g : IsSum(f, S, g)
  BY SumExists
<1> DEFINE c == CHOOSE h : IsSum(f, S, h)
<1>2. SumOf(f, S) = c[S]
  BY DEF SumOf, MapThenSumSet, MapThenFoldSet, IsSum
<1>3. IsSum(f, S, c)
  BY <1>1
<1> HIDE DEF c
<1>4. ASSUME NEW h, NEW T, IsSum(f, T, h), S \subseteq T
      PROVE  c[S] = h[S]
  <2> DEFINE e == f
  <2>1. S \subseteq S /\ S \subseteq T /\ IsSum(e, T, h) /\ \A x \in S : e[x] = f[x]
    BY <1>4
  <2> HIDE DEF e
  <2> QED BY <1>3, <2>1, SumUnique
<1> QED BY <1>1, <1>2, <1>4

\* Functions that agree on the set have the same sum.
LEMMA SumAgrees ==
    ASSUME NEW f, NEW e, NEW S, IsFiniteSet(S), \A x \in S : e[x] = f[x]
    PROVE  SumOf(e, S) = SumOf(f, S)
<1>1. PICK g : IsSum(f, S, g)
  BY SumExists
<1>2. PICK h : IsSum(e, S, h)
  BY SumExists
<1>3. g[S] = h[S]
  BY <1>1, <1>2, SumUnique
<1> QED BY <1>1, <1>2, <1>3, SumSolved

\* The chosen member comes first.
LEMMA SumStep ==
    ASSUME NEW f, NEW S, IsFiniteSet(S)
    PROVE  /\ S = {} => SumOf(f, S) = 0
           /\ S # {} => \E x \in S : SumOf(f, S) = f[x] + SumOf(f, S \ {x})
<1>1. PICK g : IsSum(f, S, g)
  BY SumExists
<1>2. SumOf(f, S) = g[S]
  BY <1>1, SumSolved
<1>3. \A s \in SUBSET S :
        g[s] = IF s = {} THEN 0 ELSE LET x == CHOOSE x \in s : TRUE IN f[x] + g[s \ {x}]
  BY <1>1 DEF IsSum
<1>4. ASSUME S # {}
      PROVE  \E x \in S : SumOf(f, S) = f[x] + SumOf(f, S \ {x})
  <2> DEFINE x == CHOOSE x \in S : TRUE
  <2>1. x \in S
    BY <1>4
  <2>2. g[S] = f[x] + g[S \ {x}]
    BY <1>3, <1>4
  <2> HIDE DEF x
  <2>3. IsFiniteSet(S \ {x})
    BY FS_RemoveElement
  <2>4. SumOf(f, S \ {x}) = g[S \ {x}]
    BY <1>1, <2>3, SumSolved
  <2> QED BY <1>2, <2>1, <2>2, <2>4
<1>5. S = {} => SumOf(f, S) = 0
  BY <1>2, <1>3
<1> QED BY <1>4, <1>5

\* The sum does not depend on the order: any member can come first.
LEMMA SumRemove ==
    ASSUME NEW f, NEW S, IsFiniteSet(S), \A x \in S : f[x] \in Int
    PROVE  /\ SumOf(f, S) \in Int
           /\ \A x \in S : SumOf(f, S) = f[x] + SumOf(f, S \ {x})
<1> DEFINE fits(r) == /\ SumOf(f, r) \in Int
                      /\ \A x \in r : SumOf(f, r) = f[x] + SumOf(f, r \ {x})
           wrong == {r \in SUBSET S : ~fits(r)}
           sizes == {Cardinality(r) : r \in wrong}
<1>1. ASSUME NEW r \in SUBSET S
      PROVE  /\ IsFiniteSet(r) /\ Cardinality(r) \in Nat
             /\ \A x \in r : r \ {x} \in SUBSET S /\ Cardinality(r \ {x}) = Cardinality(r) - 1
  <2>1. IsFiniteSet(r)
    BY FS_Subset
  <2> QED BY <2>1, FS_CardinalityType, FS_RemoveElement
<1>2. ASSUME wrong # {}
      PROVE  FALSE
  <2>1. sizes \subseteq Nat /\ sizes # {}
    BY <1>1, <1>2
  <2>2. PICK k \in sizes : \A j \in sizes : k <= j
    <3> HIDE DEF sizes
    <3> QED BY <2>1, LeastNatural
  <2>3. PICK r \in wrong : k = Cardinality(r)
    BY <2>2
  <2>4. r \in SUBSET S /\ ~fits(r) /\ k \in Nat
    BY <2>1, <2>2, <2>3
  <2>5. \A q \in SUBSET S : Cardinality(q) = k - 1 => fits(q)
    <3> SUFFICES ASSUME NEW q \in SUBSET S, Cardinality(q) = k - 1 PROVE q \notin wrong
      OBVIOUS
    <3>1. ~(k <= k - 1)
      BY <2>4
    <3> QED BY <2>2, <3>1
  <2> HIDE DEF wrong, sizes
  <2>6. r # {}
    <3>1. SumOf(f, {}) = 0
      BY FS_EmptySet, SumStep
    <3> QED BY <2>4, <3>1
  <2>7. PICK y \in r : SumOf(f, r) = f[y] + SumOf(f, r \ {y})
    BY <1>1, <2>4, <2>6, SumStep
  <2>8. fits(r \ {y})
    BY <1>1, <2>3, <2>4, <2>5, <2>7
  <2>9. f[y] \in Int /\ SumOf(f, r \ {y}) \in Int
    BY <2>4, <2>7, <2>8
  <2>10. ASSUME NEW x \in r, x # y
         PROVE  SumOf(f, r) = f[x] + SumOf(f, r \ {x})
    <3> DEFINE rest == (r \ {x}) \ {y}
    <3>1. rest = (r \ {y}) \ {x}
      OBVIOUS
    <3>2. fits(r \ {x})
      BY <1>1, <2>3, <2>4, <2>5
    <3>3. SumOf(f, r \ {y}) = f[x] + SumOf(f, rest)
      BY <2>8, <2>10, <3>1
    <3>4. SumOf(f, r \ {x}) = f[y] + SumOf(f, rest)
      BY <2>7, <2>10, <3>2
    <3>5. SumOf(f, rest) \in Int
      <4>1. rest \in SUBSET S /\ IsFiniteSet(rest)
        BY <1>1, <2>4
      <4>2. Cardinality(rest) = (k - 1) - 1
        <5>1. r \ {x} \in SUBSET S /\ Cardinality(r \ {x}) = k - 1 /\ y \in r \ {x}
          BY <1>1, <2>3, <2>4, <2>7, <2>10
        <5>2. Cardinality((r \ {x}) \ {y}) = Cardinality(r \ {x}) - 1
          BY <1>1, <5>1
        <5> QED BY <5>1, <5>2
      <4>3. rest \notin wrong
        <5>1. ~(k <= (k - 1) - 1)
          BY <2>4
        <5>2. rest \in wrong => Cardinality(rest) \in sizes
          BY DEF sizes
        <5> QED BY <2>2, <4>2, <5>1, <5>2
      <4> QED BY <4>1, <4>3 DEF wrong
    <3> HIDE DEF rest
    <3>6. f[x] \in Int
      BY <2>4, <2>10
    <3> QED BY <2>7, <2>9, <3>3, <3>4, <3>5, <3>6
  <2>11. SumOf(f, r) \in Int
    BY <2>7, <2>9
  <2> QED BY <2>4, <2>7, <2>10, <2>11
<1>3. S \in SUBSET S /\ S \notin wrong
  BY <1>2
<1>4. fits(S)
  BY <1>3
<1> QED BY <1>4

\* One more member adds its value.
LEMMA SumAdd ==
    ASSUME NEW f, NEW S, IsFiniteSet(S), NEW e, e \notin S, \A x \in S \cup {e} : f[x] \in Int
    PROVE  SumOf(f, S) \in Int /\ SumOf(f, S \cup {e}) = SumOf(f, S) + f[e]
<1> DEFINE T == S \cup {e}
           rest == T \ {e}
<1>1. IsFiniteSet(T) /\ e \in T
  BY FS_AddElement
<1>2. \A x \in T : f[x] \in Int
  OBVIOUS
<1>3. rest = S
  OBVIOUS
<1> HIDE DEF T, rest
<1>4. SumOf(f, T) = f[e] + SumOf(f, rest)
  BY <1>1, <1>2, SumRemove DEF rest
<1>5. SumOf(f, S) \in Int /\ f[e] \in Int
  BY <1>1, <1>2, SumRemove
<1>6. SumOf(f, T) = SumOf(f, S) + f[e]
  BY <1>3, <1>4, <1>5
<1> QED BY <1>5, <1>6 DEF T
=============================================================================
