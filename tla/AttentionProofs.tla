-------------------------- MODULE AttentionProofs --------------------------
(* For any block, field and tile sizes, documents, windows and chunks: both     *)
(* kernels compute attention over the real keys of the context at their         *)
(* distances in it, whatever the chunks into which the query is cut.            *)
EXTENDS LazyAttention, WellFoundedInduction, SequenceTheorems, TLAPS

-----------------------------------------------------------------------------
(* The layout of a merged prompt: what the sums of the metadata are, which    *)
(* blocks a document has, and that the rotation of a block closes the gap       *)
(* between the angle at which its keys are cached and their place in the        *)
(* context without padding.                                                    *)

-----------------------------------------------------------------------------
(* Induction over the naturals, as the least element of a set.                 *)
LEMMA LeastElement ==
    ASSUME NEW S \in SUBSET Nat, S # {}
    PROVE  \E n \in S : \A m \in S : n <= m
<1>1. IsWellFoundedOn(OpToRel(<, Nat), Nat)
  BY NatLessThanWellFounded
<1>2. PICK n \in S : \A m \in S : ~(<<m, n>> \in OpToRel(<, Nat))
  BY <1>1, WFMin
<1>3. \A m \in S : ~(m < n)
  BY <1>2 DEF OpToRel
<1> QED BY <1>3

(* What holds at 0 and is passed on holds up to n.                             *)
LEMMA BoundedInduction ==
    ASSUME NEW n \in Nat, NEW T, 0 \in T, \A i \in 0..n-1 : i \in T => i + 1 \in T
    PROVE  \A i \in 0..n : i \in T
<1> DEFINE S == {i \in 0..n : i \notin T}
<1>1. SUFFICES ASSUME S # {} PROVE FALSE
  OBVIOUS
<1>a. S \in SUBSET Nat
  OBVIOUS
<1> HIDE DEF S
<1>2. PICK i \in S : \A m \in S : i <= m
  BY <1>1, <1>a, LeastElement
<1> USE DEF S
<1>3. i - 1 \in 0..n-1 /\ i - 1 \notin S
  BY <1>2
<1> QED BY <1>2, <1>3

-----------------------------------------------------------------------------
(* Prefix sums.                                                                *)
IsPrefixSum(f, s, n) ==
    /\ f \in [0..n -> Nat] /\ f[0] = 0
    /\ \A i \in 1..n : f[i] = f[i - 1] + s[i]

LEMMA PrefixSumsExist ==
    ASSUME NEW s \in Seq(Nat)
    PROVE  \E f : IsPrefixSum(f, s, Len(s))
<1> DEFINE T == {n \in 0..Len(s) : \E f : IsPrefixSum(f, s, n)}
<1>0. Len(s) \in Nat
  OBVIOUS
<1>1. 0 \in T
  <2>1. IsPrefixSum([i \in 0..0 |-> 0], s, 0)
    BY DEF IsPrefixSum
  <2> QED BY <2>1
<1>2. ASSUME NEW n \in 0..Len(s)-1, n \in T PROVE n + 1 \in T
  <2>1. PICK f : IsPrefixSum(f, s, n)
    BY <1>2
  <2> DEFINE g == [i \in 0..n+1 |-> IF i = n + 1 THEN f[n] + s[n + 1] ELSE f[i]]
  <2>2. s[n + 1] \in Nat
    OBVIOUS
  <2>3. IsPrefixSum(g, s, n + 1)
    <3>1. n + 1 \in 1..n+1 /\ f[n] \in Nat
      BY <2>1 DEF IsPrefixSum
    <3>2. g \in [0..n+1 -> Nat] /\ g[0] = 0
      BY <2>1, <2>2, <3>1 DEF IsPrefixSum
    <3>3. ASSUME NEW i \in 1..n+1 PROVE g[i] = g[i - 1] + s[i]
      <4>1. CASE i = n + 1
        BY <4>1
      <4>2. CASE i # n + 1
        <5>1. i \in 1..n /\ i - 1 \in 0..n /\ i \in 0..n+1 /\ i - 1 \in 0..n+1 /\ i - 1 # n + 1
          BY <4>2
        <5>2. g[i] = f[i] /\ g[i - 1] = f[i - 1]
          BY <5>1, <4>2
        <5> QED BY <5>1, <5>2, <2>1 DEF IsPrefixSum
      <4> QED BY <4>1, <4>2
    <3> QED BY <3>2, <3>3 DEF IsPrefixSum
  <2>4. n + 1 \in 0..Len(s)
    OBVIOUS
  <2> HIDE DEF g
  <2> QED BY <2>3, <2>4
<1>3. \A n \in 0..Len(s)-1 : n \in T => n + 1 \in T
  BY <1>2
<1> HIDE DEF T
<1>4. \A n \in 0..Len(s) : n \in T
  BY <1>0, <1>1, <1>3, BoundedInduction
<1> QED BY <1>4 DEF T

(* PrefixSum is what its definition says.                                      *)
LEMMA PrefixSumDef ==
    ASSUME NEW s \in Seq(Nat)
    PROVE  IsPrefixSum(PrefixSum(s), s, Len(s))
<1>0. Len(s) \in Nat
  OBVIOUS
<1> DEFINE D(f) == [i \in 0..Len(s) |-> IF i = 0 THEN 0 ELSE f[i - 1] + s[i]]
<1>1. PICK f : IsPrefixSum(f, s, Len(s))
  BY PrefixSumsExist
<1>2. f = D(f)
  BY <1>1 DEF IsPrefixSum
<1>3. PrefixSum(s) = D(PrefixSum(s))
  BY <1>2 DEF PrefixSum
<1> DEFINE g == PrefixSum(s)
           T == {n \in 0..Len(s) : g[n] \in Nat}
<1>4. \A i \in 0..Len(s) : g[i] = IF i = 0 THEN 0 ELSE g[i - 1] + s[i]
  BY <1>3
<1>5. DOMAIN g = 0..Len(s) /\ g = [i \in 0..Len(s) |-> g[i]]
  BY <1>3
<1> HIDE DEF g
<1>6. 0 \in T
  BY <1>4
<1>7. ASSUME NEW i \in 0..Len(s)-1, i \in T PROVE i + 1 \in T
  <2>1. i + 1 \in 1..Len(s) /\ i + 1 \in 0..Len(s) /\ (i + 1) - 1 = i /\ i + 1 # 0
    BY <1>0
  <2>2. s[i + 1] \in Nat
    BY <2>1
  <2>3. g[i + 1] = g[i] + s[i + 1]
    BY <1>4, <2>1
  <2>4. g[i] \in Nat
    BY <1>7
  <2>5. g[i + 1] \in Nat
    BY <2>2, <2>3, <2>4
  <2> QED BY <2>1, <2>5
<1> HIDE DEF T
<1>8. \A i \in 0..Len(s) : i \in T
  BY <1>0, <1>6, <1>7, BoundedInduction
<1> USE DEF T
<1>9. g \in [0..Len(s) -> Nat]
  BY <1>5, <1>8
<1>10. IsPrefixSum(g, s, Len(s))
  BY <1>4, <1>9 DEF IsPrefixSum
<1> QED BY <1>10 DEF g

-----------------------------------------------------------------------------
(* Arithmetic of blocks.                                                       *)
LEMMA Division ==
    ASSUME NEW a \in Int
    PROVE  /\ a \div BlockSize \in Int
           /\ (a \div BlockSize) * BlockSize <= a
           /\ a < (a \div BlockSize) * BlockSize + BlockSize
BY AttentionAssumption

LEMMA DivisionUnique ==
    ASSUME NEW a \in Int, NEW q \in Int, q * BlockSize <= a, a < q * BlockSize + BlockSize
    PROVE  a \div BlockSize = q
BY AttentionAssumption

LEMMA Products ==
    ASSUME NEW a \in Int, NEW b \in Int
    PROVE  /\ a * BlockSize \in Int /\ (a + b) * BlockSize = a * BlockSize + b * BlockSize
           /\ (a - b) * BlockSize = a * BlockSize - b * BlockSize
           /\ 1 * BlockSize = BlockSize /\ 0 * BlockSize = 0
           /\ a <= b <=> a * BlockSize <= b * BlockSize
           /\ a < b <=> a * BlockSize < b * BlockSize
BY AttentionAssumption

LEMMA Padded ==
    ASSUME NEW m \in Nat
    PROVE  /\ PaddedLen(m) \in Nat /\ PaddedLen(m) = m + Padding(m)
           /\ Padding(m) \in 0..BlockSize-1
           /\ \E c \in Nat : PaddedLen(m) = c * BlockSize /\ (m > 0 => c >= 1)
<1> DEFINE c == (m + BlockSize - 1) \div BlockSize
<1>0. BlockSize \in Nat /\ BlockSize >= 1 /\ m + BlockSize - 1 \in Int
  BY AttentionAssumption
<1>1. c \in Int /\ c * BlockSize <= m + BlockSize - 1 /\ m + BlockSize - 1 < c * BlockSize + BlockSize
  BY <1>0, Division
<1>2. PaddedLen(m) = c * BlockSize
  BY DEF PaddedLen, CeilDiv
<1> HIDE DEF c
<1>3. c * BlockSize \in Int /\ c * BlockSize >= m /\ c * BlockSize < m + BlockSize
  BY <1>0, <1>1, Products
<1>4. c >= 0 /\ (m > 0 => c >= 1)
  BY <1>0, <1>1, <1>3
<1>5. c \in Nat
  BY <1>1, <1>4
<1> QED BY <1>0, <1>2, <1>3, <1>4, <1>5 DEF Padding

-----------------------------------------------------------------------------
(* The sums of the metadata.                                                   *)
LEMMA LayoutSums ==
    ASSUME NEW ds \in Seq(Nat)
    PROVE  /\ TrueBefore(ds, 1) = 0 /\ PaddedBefore(ds, 1) = 0
           /\ \A d \in 1..Len(ds)+1 : TrueBefore(ds, d) \in Nat /\ PaddedBefore(ds, d) \in Nat
           /\ \A d \in 1..Len(ds) : /\ TrueBefore(ds, d + 1) = TrueBefore(ds, d) + ds[d]
                                    /\ PaddedBefore(ds, d + 1) = PaddedBefore(ds, d) + PaddedLen(ds[d])
           /\ TotalPadding(ds) \in Nat /\ DocRegion(ds) \in Nat /\ DocTokens(ds) \in Nat
           /\ DocRegion(ds) = DocTokens(ds) + TotalPadding(ds)
<1> DEFINE padded == [e \in DOMAIN ds |-> PaddedLen(ds[e])]
           padding == [e \in DOMAIN ds |-> Padding(ds[e])]
           T == {i \in 0..Len(ds) : PrefixSum(padded)[i] = PrefixSum(ds)[i] + PrefixSum(padding)[i]}
<1>0. Len(ds) \in Nat /\ DOMAIN ds = 1..Len(ds) /\ \A d \in 1..Len(ds) : ds[d] \in Nat
  OBVIOUS
<1>a. ASSUME NEW d \in 1..Len(ds)
      PROVE  /\ ds[d] \in Nat /\ PaddedLen(ds[d]) \in Nat /\ Padding(ds[d]) \in Nat
             /\ PaddedLen(ds[d]) = ds[d] + Padding(ds[d])
  <2>1. ds[d] \in Nat
    BY <1>0
  <2>2. Padding(ds[d]) \in 0..BlockSize-1 /\ PaddedLen(ds[d]) \in Nat
        /\ PaddedLen(ds[d]) = ds[d] + Padding(ds[d])
    BY <2>1, Padded
  <2> QED BY <2>1, <2>2, AttentionAssumption
<1>1. padded \in Seq(Nat) /\ Len(padded) = Len(ds) /\ \A d \in 1..Len(ds) : padded[d] = PaddedLen(ds[d])
  BY <1>0, <1>a
<1>2. padding \in Seq(Nat) /\ Len(padding) = Len(ds) /\ \A d \in 1..Len(ds) : padding[d] = Padding(ds[d])
  BY <1>0, <1>a
<1>3. IsPrefixSum(PrefixSum(ds), ds, Len(ds))
  BY PrefixSumDef
<1>4. /\ TotalPadding(ds) = PrefixSum(padding)[Len(ds)]
      /\ \A d : PaddedBefore(ds, d) = PrefixSum(padded)[d - 1]
  BY DEF TotalPadding, PaddedBefore
<1> HIDE DEF padded, padding
<1>5. IsPrefixSum(PrefixSum(padded), padded, Len(ds)) /\ IsPrefixSum(PrefixSum(padding), padding, Len(ds))
  BY <1>1, <1>2, PrefixSumDef
<1>6. ASSUME NEW i \in 0..Len(ds)-1, i \in T PROVE i + 1 \in T
  <2>1. i + 1 \in 1..Len(ds) /\ (i + 1) - 1 = i /\ i + 1 \in 0..Len(ds) /\ i \in 0..Len(ds)
    BY <1>0
  <2>2. PaddedLen(ds[i + 1]) = ds[i + 1] + Padding(ds[i + 1]) /\ Padding(ds[i + 1]) \in Int
    BY <2>1, <1>a
  <2>3. PrefixSum(padded)[i + 1] = PrefixSum(padded)[i] + PaddedLen(ds[i + 1])
    BY <1>1, <1>5, <2>1 DEF IsPrefixSum
  <2>4. PrefixSum(padding)[i + 1] = PrefixSum(padding)[i] + Padding(ds[i + 1])
    BY <1>2, <1>5, <2>1 DEF IsPrefixSum
  <2>5. PrefixSum(ds)[i + 1] = PrefixSum(ds)[i] + ds[i + 1]
    BY <1>3, <2>1 DEF IsPrefixSum
  <2>6. PrefixSum(ds)[i] \in Nat /\ PrefixSum(padding)[i] \in Nat /\ PrefixSum(padded)[i] \in Nat /\ ds[i + 1] \in Nat
    BY <1>0, <1>3, <1>5, <2>1 DEF IsPrefixSum
  <2>7. PrefixSum(padded)[i] = PrefixSum(ds)[i] + PrefixSum(padding)[i]
    BY <1>6
  <2>8. PrefixSum(padded)[i + 1] =
           (PrefixSum(ds)[i] + PrefixSum(padding)[i]) + (ds[i + 1] + Padding(ds[i + 1]))
    BY <2>2, <2>3, <2>7
  <2>9. \A a, b, x \in Nat : \A y \in Int : (a + b) + (x + y) = (a + x) + (b + y)
    OBVIOUS
  <2>10. PrefixSum(padded)[i + 1] =
           (PrefixSum(ds)[i] + ds[i + 1]) + (PrefixSum(padding)[i] + Padding(ds[i + 1]))
    BY <2>2, <2>6, <2>8, <2>9
  <2>11. PrefixSum(padded)[i + 1] = PrefixSum(ds)[i + 1] + PrefixSum(padding)[i + 1]
    BY <2>4, <2>5, <2>10
  <2> QED BY <2>1, <2>11
<1>7. 0 \in T
  BY <1>0, <1>3, <1>5 DEF IsPrefixSum
<1> HIDE DEF T
<1>8. \A i \in 0..Len(ds) : i \in T
  BY <1>0, <1>6, <1>7, BoundedInduction
<1>9. Len(ds) \in T
  BY <1>0, <1>8
<1>10. \A d \in 1..Len(ds)+1 : TrueBefore(ds, d) \in Nat /\ PaddedBefore(ds, d) \in Nat
  <2> TAKE d \in 1..Len(ds)+1
  <2>1. d - 1 \in 0..Len(ds)
    BY <1>0
  <2>2. PrefixSum(ds)[d - 1] \in Nat /\ PrefixSum(padded)[d - 1] \in Nat
    BY <1>3, <1>5, <2>1 DEF IsPrefixSum
  <2> QED BY <1>4, <2>2 DEF TrueBefore
<1>11. TrueBefore(ds, 1) = 0 /\ PaddedBefore(ds, 1) = 0
  BY <1>3, <1>4, <1>5 DEF IsPrefixSum, TrueBefore
<1>12. \A d \in 1..Len(ds) : /\ TrueBefore(ds, d + 1) = TrueBefore(ds, d) + ds[d]
                             /\ PaddedBefore(ds, d + 1) = PaddedBefore(ds, d) + PaddedLen(ds[d])
  <2> TAKE d \in 1..Len(ds)
  <2>1. (d + 1) - 1 = d
    BY <1>0
  <2>2. PrefixSum(ds)[d] = PrefixSum(ds)[d - 1] + ds[d]
    BY <1>3 DEF IsPrefixSum
  <2>3. PrefixSum(padded)[d] = PrefixSum(padded)[d - 1] + padded[d]
    BY <1>5 DEF IsPrefixSum
  <2>4. PaddedBefore(ds, d + 1) = PrefixSum(padded)[d] /\ PaddedBefore(ds, d) = PrefixSum(padded)[d - 1]
    BY <1>4, <2>1
  <2>5. TrueBefore(ds, d + 1) = PrefixSum(ds)[d] /\ TrueBefore(ds, d) = PrefixSum(ds)[d - 1]
    BY <2>1 DEF TrueBefore
  <2> QED BY <1>1, <2>2, <2>3, <2>4, <2>5
<1>13. TotalPadding(ds) \in Nat
  BY <1>0, <1>4, <1>5 DEF IsPrefixSum
<1>14. DocRegion(ds) = DocTokens(ds) + TotalPadding(ds)
  <2>1. (Len(ds) + 1) - 1 = Len(ds)
    BY <1>0
  <2> QED BY <2>1, <1>4, <1>9 DEF DocRegion, DocTokens, TrueBefore, T
<1>15. DocRegion(ds) \in Nat /\ DocTokens(ds) \in Nat
  BY <1>0, <1>10 DEF DocRegion, DocTokens
<1> QED BY <1>10, <1>11, <1>12, <1>13, <1>14, <1>15

-----------------------------------------------------------------------------
(* The blocks of a document.                                                   *)
BlocksBefore(ds, d) == PaddedBefore(ds, d) \div BlockSize

(* A document starts at a block.                                               *)
LEMMA DocumentsStartAtBlocks ==
    ASSUME NEW ds \in Seq(Nat), NEW d \in 1..Len(ds)+1
    PROVE  /\ BlocksBefore(ds, d) \in Nat
           /\ PaddedBefore(ds, d) = BlocksBefore(ds, d) * BlockSize
<1> DEFINE T == {i \in 0..Len(ds) : \E c \in Nat : PaddedBefore(ds, i + 1) = c * BlockSize}
<1>0. Len(ds) \in Nat
  OBVIOUS
<1>1. 0 \in T
  <2>1. PaddedBefore(ds, 0 + 1) = 0 * BlockSize
    BY LayoutSums, Products
  <2> QED BY <1>0, <2>1
<1>2. ASSUME NEW i \in 0..Len(ds)-1, i \in T PROVE i + 1 \in T
  <2>1. i + 1 \in 1..Len(ds) /\ ds[i + 1] \in Nat /\ i + 1 \in 0..Len(ds)
    BY <1>0
  <2>2. PICK c \in Nat : PaddedBefore(ds, i + 1) = c * BlockSize
    BY <1>2
  <2>3. PICK b \in Nat : PaddedLen(ds[i + 1]) = b * BlockSize
    BY <2>1, Padded
  <2>4. PaddedBefore(ds, (i + 1) + 1) = c * BlockSize + b * BlockSize
    BY <2>1, <2>2, <2>3, LayoutSums
  <2>5. c + b \in Nat /\ (c + b) * BlockSize = c * BlockSize + b * BlockSize
    BY Products
  <2> QED BY <2>1, <2>4, <2>5
<1>3. \A i \in 0..Len(ds)-1 : i \in T => i + 1 \in T
  BY <1>2
<1> HIDE DEF T
<1>4. \A i \in 0..Len(ds) : i \in T
  BY <1>0, <1>1, <1>3, BoundedInduction
<1>5. d - 1 \in 0..Len(ds) /\ (d - 1) + 1 = d
  BY <1>0
<1>6. d - 1 \in T
  BY <1>4, <1>5
<1>7. PICK c \in Nat : PaddedBefore(ds, d) = c * BlockSize
  BY <1>5, <1>6 DEF T
<1>8. c * BlockSize \in Int /\ BlockSize \in Nat /\ BlockSize >= 1
  BY Products, AttentionAssumption
<1>9. PaddedBefore(ds, d) \div BlockSize = c
  BY <1>7, <1>8, DivisionUnique
<1> QED BY <1>7, <1>9 DEF BlocksBefore

(* The documents stand in the order of the list.                               *)
LEMMA LayoutMonotone ==
    ASSUME NEW ds \in Seq(Nat), NEW d \in 1..Len(ds)+1, NEW e \in 1..Len(ds)+1, d <= e
    PROVE  TrueBefore(ds, d) <= TrueBefore(ds, e) /\ PaddedBefore(ds, d) <= PaddedBefore(ds, e)
<1> DEFINE Above(x) == TrueBefore(ds, d) <= TrueBefore(ds, x) /\ PaddedBefore(ds, d) <= PaddedBefore(ds, x)
           T == {i \in 0..Len(ds) : d <= i + 1 => Above(i + 1)}
<1>0. Len(ds) \in Nat
  OBVIOUS
<1>a. \A x \in 1..Len(ds)+1 : TrueBefore(ds, x) \in Nat /\ PaddedBefore(ds, x) \in Nat
  BY LayoutSums
<1>1. 0 \in T
  <2>1. d <= 0 + 1 => d = 0 + 1
    BY <1>0
  <2>2. Above(d)
    BY <1>a
  <2> QED BY <1>0, <2>1, <2>2
<1>2. ASSUME NEW i \in 0..Len(ds)-1, i \in T PROVE i + 1 \in T
  <2>1. i + 1 \in 1..Len(ds) /\ ds[i + 1] \in Nat /\ i + 1 \in 0..Len(ds) /\ i + 1 \in 1..Len(ds)+1
        /\ (i + 1) + 1 \in 1..Len(ds)+1
    BY <1>0
  <2>2. PaddedLen(ds[i + 1]) \in Nat
    BY <2>1, Padded
  <2>3. /\ TrueBefore(ds, (i + 1) + 1) = TrueBefore(ds, i + 1) + ds[i + 1]
        /\ PaddedBefore(ds, (i + 1) + 1) = PaddedBefore(ds, i + 1) + PaddedLen(ds[i + 1])
    BY <2>1, LayoutSums
  <2>4. CASE d = (i + 1) + 1
    BY <1>a, <2>1, <2>4
  <2>5. CASE d <= i + 1
    <3>1. Above(i + 1)
      BY <1>2, <2>5
    <3>2. /\ TrueBefore(ds, d) \in Nat /\ TrueBefore(ds, i + 1) \in Nat /\ ds[i + 1] \in Nat
          /\ PaddedBefore(ds, d) \in Nat /\ PaddedBefore(ds, i + 1) \in Nat
      BY <1>a, <2>1
    <3>3. \A a, b, x \in Nat : a <= b => a <= b + x
      OBVIOUS
    <3>4. TrueBefore(ds, d) <= TrueBefore(ds, (i + 1) + 1)
      BY <2>3, <3>1, <3>2, <3>3
    <3>5. PaddedBefore(ds, d) <= PaddedBefore(ds, (i + 1) + 1)
      BY <2>2, <2>3, <3>1, <3>2, <3>3
    <3> QED BY <2>1, <3>4, <3>5
  <2>6. d <= (i + 1) + 1 => d = (i + 1) + 1 \/ d <= i + 1
    BY <1>0
  <2> QED BY <2>1, <2>4, <2>5, <2>6
<1>3. \A i \in 0..Len(ds)-1 : i \in T => i + 1 \in T
  BY <1>2
<1> HIDE DEF T
<1>4. \A i \in 0..Len(ds) : i \in T
  BY <1>0, <1>1, <1>3, BoundedInduction
<1>5. e - 1 \in 0..Len(ds) /\ (e - 1) + 1 = e
  BY <1>0
<1> QED BY <1>4, <1>5 DEF T

(* A position of the document region belongs to one document.                  *)
LEMMA Covering ==
    ASSUME NEW ds \in Seq(Nat), NEW p \in Nat, p < DocRegion(ds)
    PROVE  \E d \in 1..Len(ds) : PaddedBefore(ds, d) <= p /\ p < PaddedBefore(ds, d + 1)
<1> DEFINE T == {i \in 0..Len(ds) : PaddedBefore(ds, i + 1) <= p}
<1>0. Len(ds) \in Nat
  OBVIOUS
<1>a. \A x \in 1..Len(ds)+1 : PaddedBefore(ds, x) \in Nat
  BY LayoutSums
<1>1. SUFFICES ASSUME \A d \in 1..Len(ds) : PaddedBefore(ds, d) <= p => ~(p < PaddedBefore(ds, d + 1))
               PROVE  FALSE
  OBVIOUS
<1>2. 0 \in T
  <2>1. PaddedBefore(ds, 0 + 1) = 0
    BY LayoutSums
  <2> QED BY <1>0, <2>1
<1>3. ASSUME NEW i \in 0..Len(ds)-1, i \in T PROVE i + 1 \in T
  <2>1. i + 1 \in 1..Len(ds) /\ i + 1 \in 0..Len(ds) /\ (i + 1) + 1 \in 1..Len(ds)+1
    BY <1>0
  <2>2. PaddedBefore(ds, (i + 1) + 1) \in Nat /\ ~(p < PaddedBefore(ds, (i + 1) + 1))
    BY <1>1, <1>3, <1>a, <2>1
  <2> QED BY <2>1, <2>2
<1>4. \A i \in 0..Len(ds)-1 : i \in T => i + 1 \in T
  BY <1>3
<1> HIDE DEF T
<1>5. \A i \in 0..Len(ds) : i \in T
  BY <1>0, <1>2, <1>4, BoundedInduction
<1>6. Len(ds) \in T
  BY <1>0, <1>5
<1>7. DocRegion(ds) <= p
  BY <1>6 DEF T, DocRegion
<1>8. DocRegion(ds) \in Nat
  BY LayoutSums
<1> QED BY <1>7, <1>8

Holds(ds, d, p) == PaddedBefore(ds, d) <= p /\ p < PaddedBefore(ds, d + 1)

LEMMA HoldsUnique ==
    ASSUME NEW ds \in Seq(Nat), NEW d \in 1..Len(ds), NEW e \in 1..Len(ds), NEW p \in Nat,
           Holds(ds, d, p), Holds(ds, e, p)
    PROVE  d = e
<1>0. Len(ds) \in Nat /\ d \in 1..Len(ds)+1 /\ e \in 1..Len(ds)+1 /\ d + 1 \in 1..Len(ds)+1 /\ e + 1 \in 1..Len(ds)+1
  OBVIOUS
<1>1. \A x \in 1..Len(ds)+1 : PaddedBefore(ds, x) \in Nat
  BY LayoutSums
<1>2. CASE d < e
  <2>1. PaddedBefore(ds, d + 1) <= PaddedBefore(ds, e)
    <3>1. d + 1 <= e
      BY <1>2
    <3> QED BY <1>0, <3>1, LayoutMonotone
  <2>2. PaddedBefore(ds, d + 1) \in Nat /\ PaddedBefore(ds, e) \in Nat
    BY <1>0, <1>1
  <2>3. p < PaddedBefore(ds, d + 1) /\ PaddedBefore(ds, e) <= p
    BY DEF Holds
  <2> QED BY <2>1, <2>2, <2>3
<1>3. CASE e < d
  <2>1. PaddedBefore(ds, e + 1) <= PaddedBefore(ds, d)
    <3>1. e + 1 <= d
      BY <1>3
    <3> QED BY <1>0, <3>1, LayoutMonotone
  <2>2. PaddedBefore(ds, e + 1) \in Nat /\ PaddedBefore(ds, d) \in Nat
    BY <1>0, <1>1
  <2>3. p < PaddedBefore(ds, e + 1) /\ PaddedBefore(ds, d) <= p
    BY DEF Holds
  <2> QED BY <2>1, <2>2, <2>3
<1> QED BY <1>2, <1>3

(* A position is in the blocks of the document that it belongs to, and the      *)
(* whole of its block is.                                                      *)
LEMMA BlockOfPosition ==
    ASSUME NEW ds \in Seq(Nat), NEW d \in 1..Len(ds), NEW p \in Nat, NEW k \in Nat,
           (k - 1) * BlockSize <= p, p < k * BlockSize
    PROVE  /\ Holds(ds, d, p) <=> k \in Blocks(ds, d)
           /\ k \in Blocks(ds, d) => /\ PaddedBefore(ds, d) <= (k - 1) * BlockSize
                                     /\ k * BlockSize <= PaddedBefore(ds, d + 1)
<1>0. Len(ds) \in Nat /\ d \in 1..Len(ds)+1 /\ d + 1 \in 1..Len(ds)+1
  OBVIOUS
<1> DEFINE c == BlocksBefore(ds, d)
           b == BlocksBefore(ds, d + 1)
<1>1. c \in Nat /\ b \in Nat /\ PaddedBefore(ds, d) = c * BlockSize /\ PaddedBefore(ds, d + 1) = b * BlockSize
  BY <1>0, DocumentsStartAtBlocks
<1>2. k \in Blocks(ds, d) <=> c + 1 <= k /\ k <= b
  BY <1>1 DEF Blocks, BlocksBefore
<1> HIDE DEF c, b
<1>3. /\ c <= k - 1 <=> c * BlockSize <= (k - 1) * BlockSize
      /\ k <= b <=> k * BlockSize <= b * BlockSize
      /\ c < k <=> c * BlockSize < k * BlockSize
      /\ k - 1 < b <=> (k - 1) * BlockSize < b * BlockSize
      /\ (k - 1) * BlockSize \in Int /\ k * BlockSize \in Int /\ c * BlockSize \in Int /\ b * BlockSize \in Int
  BY <1>1, Products
<1>4. Holds(ds, d, p) => c < k /\ k - 1 < b
  BY <1>1, <1>3 DEF Holds
<1>5. c < k /\ k - 1 < b => c + 1 <= k /\ k <= b
  BY <1>1
<1>6. k \in Blocks(ds, d) => c * BlockSize <= (k - 1) * BlockSize /\ k * BlockSize <= b * BlockSize
  BY <1>1, <1>2, <1>3
<1>7. k \in Blocks(ds, d) => Holds(ds, d, p)
  BY <1>1, <1>3, <1>6 DEF Holds
<1> QED BY <1>1, <1>2, <1>4, <1>5, <1>6, <1>7

-----------------------------------------------------------------------------
(* The block of a position.                                                    *)
BlockOf(p) == p \div BlockSize + 1

LEMMA BlockOfBounds ==
    ASSUME NEW p \in Nat
    PROVE  /\ BlockOf(p) \in Nat /\ BlockOf(p) >= 1
           /\ (BlockOf(p) - 1) * BlockSize \in Nat /\ BlockOf(p) * BlockSize \in Nat
           /\ (BlockOf(p) - 1) * BlockSize <= p /\ p < BlockOf(p) * BlockSize
<1> DEFINE c == p \div BlockSize
<1>1. c \in Int /\ c * BlockSize <= p /\ p < c * BlockSize + BlockSize
  BY Division
<1>2. BlockOf(p) = c + 1
  BY DEF BlockOf
<1> HIDE DEF c
<1>3. BlockSize \in Nat /\ BlockSize >= 1
  BY AttentionAssumption
<1>4. c * BlockSize \in Int /\ (c + 1) * BlockSize = c * BlockSize + BlockSize
  BY <1>1, Products
<1>5. c >= 0
  <2>1. 0 < c + 1 <=> 0 * BlockSize < (c + 1) * BlockSize
    <3>1. \A n \in Int : 0 < n <=> 0 * BlockSize < n * BlockSize
      BY AttentionAssumption
    <3>2. c + 1 \in Int
      BY <1>1
    <3> QED BY <3>1, <3>2
  <2>2. 0 * BlockSize = 0
    BY Products
  <2> QED BY <1>1, <1>3, <1>4, <2>1, <2>2
<1>6. c * BlockSize >= 0
  BY <1>1, <1>3, <1>5
<1>7. (c + 1) - 1 = c
  BY <1>1
<1> QED BY <1>1, <1>2, <1>3, <1>4, <1>5, <1>6, <1>7

LEMMA MetadataBlocks ==
    ASSUME NEW ds \in Seq(Nat), NEW p \in Nat
    PROVE  /\ MetadataLen(ds) = BlockOf(DocRegion(ds)) /\ MetadataLen(ds) \in Nat /\ MetadataLen(ds) >= 1
           /\ (MetadataLen(ds) - 1) * BlockSize = DocRegion(ds)
           /\ p < DocRegion(ds) <=> BlockOf(p) < MetadataLen(ds)
           /\ BlockOf(p) < MetadataLen(ds) => BlockOf(p) * BlockSize <= DocRegion(ds)
<1>0. Len(ds) \in Nat /\ Len(ds) + 1 \in 1..Len(ds)+1 /\ DocRegion(ds) \in Nat
  BY LayoutSums
<1> DEFINE c == BlocksBefore(ds, Len(ds) + 1)
           k == BlockOf(p)
<1>1. c \in Nat /\ DocRegion(ds) = c * BlockSize /\ MetadataLen(ds) = c + 1
  BY <1>0, DocumentsStartAtBlocks DEF DocRegion, MetadataLen, BlocksBefore
<1>2. MetadataLen(ds) = BlockOf(DocRegion(ds))
  BY DEF MetadataLen, BlockOf
<1>3. k \in Nat /\ k >= 1 /\ (k - 1) * BlockSize <= p /\ p < k * BlockSize
  BY BlockOfBounds
<1> HIDE DEF c, k
<1>a. k \in Int /\ k - 1 \in Int /\ c \in Int
  BY <1>1, <1>3
<1>4. /\ k <= c <=> k * BlockSize <= c * BlockSize
      /\ k - 1 < c <=> (k - 1) * BlockSize < c * BlockSize
      /\ k * BlockSize \in Int /\ (k - 1) * BlockSize \in Int /\ c * BlockSize \in Int
  BY <1>a, Products
<1>5. k < c + 1 <=> k <= c
  BY <1>1, <1>3
<1>6. k - 1 < c <=> k <= c
  BY <1>1, <1>3
<1>7. p < DocRegion(ds) <=> k < MetadataLen(ds)
  BY <1>1, <1>3, <1>4, <1>5, <1>6
<1>8. k < MetadataLen(ds) => k * BlockSize <= DocRegion(ds)
  BY <1>1, <1>4, <1>5
<1>9. (c + 1) - 1 = c
  BY <1>1
<1> QED BY <1>1, <1>2, <1>7, <1>8, <1>9 DEF k

-----------------------------------------------------------------------------
(* What the metadata says of a document's positions.                           *)
LEMMA DocumentOfBlock ==
    ASSUME NEW ds \in Seq(Nat), NEW p \in Nat, NEW d \in 1..Len(ds), Holds(ds, d, p)
    PROVE  /\ DocumentAt(ds, BlockOf(p)) = d
           /\ PaddedBefore(ds, d) <= (BlockOf(p) - 1) * BlockSize
           /\ BlockOf(p) * BlockSize <= PaddedBefore(ds, d + 1)
           /\ p < DocRegion(ds)
<1> DEFINE k == BlockOf(p)
<1>0. k \in Nat /\ (k - 1) * BlockSize <= p /\ p < k * BlockSize /\ DOMAIN ds = 1..Len(ds) /\ Len(ds) \in Nat
  BY BlockOfBounds
<1> HIDE DEF k
<1>1. \A e \in 1..Len(ds) : Holds(ds, e, p) <=> k \in Blocks(ds, e)
  BY <1>0, BlockOfPosition
<1>2. k \in Blocks(ds, d) /\ PaddedBefore(ds, d) <= (k - 1) * BlockSize /\ k * BlockSize <= PaddedBefore(ds, d + 1)
  BY <1>0, <1>1, BlockOfPosition
<1>3. \A e \in 1..Len(ds) : k \in Blocks(ds, e) => e = d
  BY <1>1, HoldsUnique
<1>4. DocumentAt(ds, k) = d
  BY <1>0, <1>2, <1>3 DEF DocumentAt
<1>5. p < DocRegion(ds)
  <2>1. d + 1 \in 1..Len(ds)+1 /\ Len(ds) + 1 \in 1..Len(ds)+1 /\ d + 1 <= Len(ds) + 1
    BY <1>0
  <2>2. PaddedBefore(ds, d + 1) <= DocRegion(ds)
    BY <2>1, LayoutMonotone DEF DocRegion
  <2>3. PaddedBefore(ds, d + 1) \in Nat /\ DocRegion(ds) \in Nat
    BY <2>1, LayoutSums
  <2> QED BY <2>2, <2>3 DEF Holds
<1> QED BY <1>2, <1>4, <1>5 DEF k

LEMMA InDocument ==
    ASSUME NEW ds \in Seq(Nat), NEW p \in Nat, NEW d \in 1..Len(ds), Holds(ds, d, p)
    PROVE  /\ BlockOf(p) < MetadataLen(ds)
           /\ QOffset(ds, BlockOf(p)) = 1 + TotalPadding(ds) + TrueBefore(ds, d)
           /\ KeyAngle(ds, p) = p - PaddedBefore(ds, d)
           /\ Real(ds, p) <=> p - PaddedBefore(ds, d) < ds[d]
           /\ Real(ds, p) => ContextPosition(ds, p) = TrueBefore(ds, d) + p - PaddedBefore(ds, d)
<1>0. Len(ds) \in Nat /\ DOMAIN ds = 1..Len(ds) /\ \A e \in 1..Len(ds) : ds[e] \in Nat
  OBVIOUS
<1>1. DocumentAt(ds, BlockOf(p)) = d /\ p < DocRegion(ds)
  BY DocumentOfBlock
<1>2. DocRegion(ds) \in Nat /\ ~(p >= DocRegion(ds))
  BY <1>1, LayoutSums
<1>3. BlockOf(p) < MetadataLen(ds) /\ BlockOf(p) # MetadataLen(ds)
  <2>1. BlockOf(p) < MetadataLen(ds) /\ MetadataLen(ds) \in Nat /\ BlockOf(p) \in Nat
    BY <1>1, MetadataBlocks, BlockOfBounds
  <2> QED BY <2>1
<1>4. QOffset(ds, BlockOf(p)) = 1 + TotalPadding(ds) + TrueBefore(ds, d)
  BY <1>1, <1>3 DEF QOffset
<1>5. KeyAngle(ds, p) = p - PaddedBefore(ds, d)
  BY <1>1, <1>2 DEF KeyAngle, BlockOf
<1>6. ASSUME NEW e \in 1..Len(ds) PROVE p - PaddedBefore(ds, e) \in 0..ds[e]-1 => Holds(ds, e, p)
  <2>1. PaddedBefore(ds, e) \in Nat /\ PaddedBefore(ds, e + 1) = PaddedBefore(ds, e) + PaddedLen(ds[e]) /\ ds[e] \in Nat
    <3>1. e \in 1..Len(ds)+1
      BY <1>0
    <3> QED BY <1>0, <3>1, LayoutSums
  <2>2. PaddedLen(ds[e]) \in Nat /\ PaddedLen(ds[e]) >= ds[e]
    <3>1. PaddedLen(ds[e]) \in Nat /\ PaddedLen(ds[e]) = ds[e] + Padding(ds[e]) /\ Padding(ds[e]) \in 0..BlockSize-1
      BY <2>1, Padded
    <3>2. Padding(ds[e]) \in Nat
      BY <3>1, AttentionAssumption
    <3>3. \A a, b \in Nat : a + b >= a
      OBVIOUS
    <3> QED BY <2>1, <3>1, <3>2, <3>3
  <2>3. \A b, l, n \in Nat : l >= n /\ p - b \in 0..n-1 => b <= p /\ p < b + l
    OBVIOUS
  <2>4. p - PaddedBefore(ds, e) \in 0..ds[e]-1
           => PaddedBefore(ds, e) <= p /\ p < PaddedBefore(ds, e) + PaddedLen(ds[e])
    BY <2>1, <2>2, <2>3
  <2> QED BY <2>1, <2>4 DEF Holds
<1>7. \A e \in 1..Len(ds) : p - PaddedBefore(ds, e) \in 0..ds[e]-1 => e = d
  BY <1>6, HoldsUnique
<1>8. p - PaddedBefore(ds, d) \in 0..ds[d]-1 <=> p - PaddedBefore(ds, d) < ds[d]
  <2>1. PaddedBefore(ds, d) \in Nat /\ ds[d] \in Nat
    BY <1>0, LayoutSums
  <2>2. p - PaddedBefore(ds, d) \in Nat
    BY <2>1 DEF Holds
  <2> QED BY <2>1, <2>2
<1>9. Real(ds, p) <=> p - PaddedBefore(ds, d) < ds[d]
  BY <1>0, <1>2, <1>7, <1>8 DEF Real
<1>10. Real(ds, p) => (CHOOSE e \in DOMAIN ds : p - PaddedBefore(ds, e) \in 0..ds[e]-1) = d
  BY <1>0, <1>7, <1>8, <1>9
<1>11. Real(ds, p) => ContextPosition(ds, p) = TrueBefore(ds, d) + p - PaddedBefore(ds, d)
  BY <1>2, <1>10 DEF ContextPosition
<1> QED BY <1>3, <1>4, <1>5, <1>9, <1>11

LEMMA BehindDocuments ==
    ASSUME NEW ds \in Seq(Nat), NEW p \in Nat, p >= DocRegion(ds)
    PROVE  /\ BlockOf(p) >= MetadataLen(ds) /\ KeyAngle(ds, p) = p /\ Real(ds, p)
           /\ ContextPosition(ds, p) = DocTokens(ds) + p - DocRegion(ds)
<1>1. DocRegion(ds) \in Nat /\ ~(p < DocRegion(ds))
  BY LayoutSums
<1>2. BlockOf(p) >= MetadataLen(ds)
  <2>1. ~(BlockOf(p) < MetadataLen(ds)) /\ MetadataLen(ds) \in Nat /\ BlockOf(p) \in Nat
    BY <1>1, MetadataBlocks, BlockOfBounds
  <2> QED BY <2>1
<1> QED BY <1>2 DEF KeyAngle, Real, ContextPosition

-----------------------------------------------------------------------------
(* A set of numbers up to n has a largest one.                                 *)
LEMMA MaxOf ==
    ASSUME NEW n \in Nat, NEW S \in SUBSET (0..n), S # {}
    PROVE  Max(S) \in S /\ \A x \in S : x <= Max(S)
<1> DEFINE R == {n - x : x \in S}
<1>1. R \in SUBSET Nat /\ R # {}
  <2>1. \A x \in S : n - x \in Nat
    OBVIOUS
  <2> QED BY <2>1
<1> HIDE DEF R
<1>2. PICK r \in R : \A x \in R : r <= x
  BY <1>1, LeastElement
<1> USE DEF R
<1>3. PICK m \in S : r = n - m
  BY <1>2
<1>4. \A x \in S : m >= x
  <2> TAKE x \in S
  <2>1. n - m <= n - x
    BY <1>2, <1>3
  <2> QED BY <2>1
<1>5. Max(S) \in S /\ \A x \in S : Max(S) >= x
  BY <1>4 DEF Max
<1> QED BY <1>5

(* The documents that end with a block.                                        *)
Ends(ds, k) == {d \in DOMAIN ds : PaddedBefore(ds, d + 1) \div BlockSize = k}

LEMMA MaskBounds ==
    ASSUME NEW ds \in Seq(Nat), NEW k
    PROVE  QMask(ds, k) \in 0..BlockSize-1
<1>0. Len(ds) \in Nat /\ DOMAIN ds = 1..Len(ds) /\ \A d \in 1..Len(ds) : ds[d] \in Nat
  OBVIOUS
<1>1. QMask(ds, k) = IF Ends(ds, k) = {} THEN 0 ELSE Padding(ds[Max(Ends(ds, k))])
  BY DEF QMask, Ends
<1>2. CASE Ends(ds, k) = {}
  <2>1. 0 \in 0..BlockSize-1
    BY AttentionAssumption
  <2> QED BY <1>1, <1>2, <2>1
<1>3. CASE Ends(ds, k) # {}
  <2>1. Ends(ds, k) \in SUBSET (0..Len(ds))
    BY <1>0 DEF Ends
  <2>2. Max(Ends(ds, k)) \in Ends(ds, k)
    BY <1>0, <1>3, <2>1, MaxOf
  <2>3. ds[Max(Ends(ds, k))] \in Nat
    BY <1>0, <2>2 DEF Ends
  <2> QED BY <1>1, <1>3, <2>3, Padded
<1> QED BY <1>2, <1>3

(* No document is empty.                                                       *)
NonEmpty(ds) == \A d \in DOMAIN ds : ds[d] > 0

(* The mask of a block leaves out the padding at its end, and no more: in the  *)
(* last block of a document, which no document without blocks comes after, its  *)
(* padding.                                                                    *)
LEMMA MaskInDocument ==
    ASSUME NEW ds \in Seq(Nat), NonEmpty(ds), NEW p \in Nat, NEW d \in 1..Len(ds), Holds(ds, d, p)
    PROVE  Real(ds, p) <=> p < BlockOf(p) * BlockSize - QMask(ds, BlockOf(p))
<1>0. Len(ds) \in Nat /\ DOMAIN ds = 1..Len(ds) /\ \A e \in 1..Len(ds) : ds[e] \in Nat /\ ds[e] > 0
  BY DEF NonEmpty
<1> DEFINE k == BlockOf(p)
           b(e) == BlocksBefore(ds, e)
<1>1. k \in Nat /\ k >= 1 /\ k * BlockSize \in Nat /\ (k - 1) * BlockSize \in Nat
      /\ (k - 1) * BlockSize <= p /\ p < k * BlockSize
  BY BlockOfBounds
<1>2. PaddedBefore(ds, d) <= (k - 1) * BlockSize /\ k * BlockSize <= PaddedBefore(ds, d + 1)
  BY DocumentOfBlock
<1>3. /\ PaddedBefore(ds, d) \in Nat /\ PaddedBefore(ds, d + 1) = PaddedBefore(ds, d) + ds[d] + Padding(ds[d])
      /\ Padding(ds[d]) \in 0..BlockSize-1 /\ ds[d] \in Nat /\ BlockSize \in Nat /\ BlockSize >= 1
  <2>1. PaddedBefore(ds, d) \in Nat /\ PaddedBefore(ds, d + 1) = PaddedBefore(ds, d) + PaddedLen(ds[d]) /\ ds[d] \in Nat
    <3>1. d \in 1..Len(ds)+1
      BY <1>0
    <3> QED BY <1>0, <3>1, LayoutSums
  <2>2. PaddedLen(ds[d]) = ds[d] + Padding(ds[d]) /\ Padding(ds[d]) \in 0..BlockSize-1
    BY <2>1, Padded
  <2> QED BY <2>1, <2>2, AttentionAssumption
<1>4. Real(ds, p) <=> p - PaddedBefore(ds, d) < ds[d]
  BY InDocument
<1>5. \A e \in 1..Len(ds) : e \in Ends(ds, k) <=> PaddedBefore(ds, e + 1) = k * BlockSize
  <2> TAKE e \in 1..Len(ds)
  <2>1. e + 1 \in 1..Len(ds)+1
    BY <1>0
  <2>2. b(e + 1) \in Nat /\ PaddedBefore(ds, e + 1) = b(e + 1) * BlockSize
    BY <2>1, DocumentsStartAtBlocks
  <2>3. e \in Ends(ds, k) <=> b(e + 1) = k
    BY <1>0 DEF Ends, BlocksBefore
  <2> HIDE DEF b, k
  <2>a. b(e + 1) \in Int /\ k \in Int
    BY <1>1, <2>2
  <2>4. b(e + 1) <= k <=> b(e + 1) * BlockSize <= k * BlockSize
    BY <2>a, Products
  <2>5. k <= b(e + 1) <=> k * BlockSize <= b(e + 1) * BlockSize
    BY <2>a, Products
  <2>6. b(e + 1) * BlockSize \in Int
    BY <2>2, Products
  <2> QED BY <1>1, <2>2, <2>3, <2>4, <2>5, <2>6
<1> HIDE DEF k
<1>6. ASSUME NEW e \in 1..Len(ds), PaddedBefore(ds, e + 1) = k * BlockSize PROVE e = d
  <2>0. /\ e + 1 \in 1..Len(ds)+1 /\ d \in 1..Len(ds)+1 /\ e \in 1..Len(ds)+1 /\ d + 1 \in 1..Len(ds)+1
    BY <1>0
  <2>1. CASE e < d
    <3>1. e + 1 <= d
      BY <2>1
    <3>2. PaddedBefore(ds, e + 1) <= PaddedBefore(ds, d)
      BY <2>0, <3>1, LayoutMonotone
    <3> QED BY <1>1, <1>2, <1>3, <1>6, <3>2
  <2>2. CASE d < e
    <3>1. d + 1 <= e
      BY <2>2
    <3>2. PaddedBefore(ds, d + 1) <= PaddedBefore(ds, e)
      BY <2>0, <3>1, LayoutMonotone
    <3>3. PaddedBefore(ds, e) \in Nat /\ PaddedBefore(ds, e + 1) = PaddedBefore(ds, e) + PaddedLen(ds[e])
      BY <2>0, LayoutSums
    <3>4. PaddedLen(ds[e]) \in Nat /\ PaddedLen(ds[e]) > 0
      <4>1. PaddedLen(ds[e]) \in Nat /\ PaddedLen(ds[e]) = ds[e] + Padding(ds[e]) /\ Padding(ds[e]) \in 0..BlockSize-1
        BY <1>0, Padded
      <4> QED BY <1>0, <1>3, <4>1
    <3>5. PaddedBefore(ds, d + 1) \in Nat
      BY <2>0, LayoutSums
    <3> QED BY <1>1, <1>2, <1>6, <3>2, <3>3, <3>4, <3>5
  <2> QED BY <2>1, <2>2
<1>7. QMask(ds, k) = IF Ends(ds, k) = {} THEN 0 ELSE Padding(ds[Max(Ends(ds, k))])
  BY DEF QMask, Ends
<1>8. CASE k * BlockSize = PaddedBefore(ds, d + 1)
  <2>1. d \in Ends(ds, k) /\ \A e \in Ends(ds, k) : e = d
    BY <1>0, <1>5, <1>6, <1>8 DEF Ends
  <2>2. Max(Ends(ds, k)) = d
    <3>1. Ends(ds, k) \in SUBSET (0..Len(ds))
      BY <1>0 DEF Ends
    <3>2. Max(Ends(ds, k)) \in Ends(ds, k)
      BY <1>0, <2>1, <3>1, MaxOf
    <3> QED BY <2>1, <3>2
  <2>3. QMask(ds, k) = Padding(ds[d])
    BY <1>7, <2>1, <2>2
  <2>4. \A c, n, m \in Nat : p - c < n <=> p < (c + n + m) - m
    OBVIOUS
  <2>5. Padding(ds[d]) \in Nat
    BY <1>3
  <2>6. p - PaddedBefore(ds, d) < ds[d] <=> p < (PaddedBefore(ds, d) + ds[d] + Padding(ds[d])) - Padding(ds[d])
    BY <1>3, <2>4, <2>5
  <2>7. p - PaddedBefore(ds, d) < ds[d] <=> p < k * BlockSize - QMask(ds, k)
    BY <1>3, <1>8, <2>3, <2>6
  <2> QED BY <1>4, <2>7 DEF k
<1>9. CASE k * BlockSize # PaddedBefore(ds, d + 1)
  <2>1. Ends(ds, k) = {}
    BY <1>0, <1>5, <1>6, <1>9 DEF Ends
  <2>2. QMask(ds, k) = 0
    BY <1>7, <2>1
  <2>3. (k + 1) * BlockSize <= PaddedBefore(ds, d + 1)
    <3>1. d + 1 \in 1..Len(ds)+1
      BY <1>0
    <3>2. b(d + 1) \in Nat /\ PaddedBefore(ds, d + 1) = b(d + 1) * BlockSize
      BY <3>1, DocumentsStartAtBlocks
    <3> HIDE DEF b
    <3>a. k \in Int /\ b(d + 1) \in Int
      BY <1>1, <3>2
    <3>3. k <= b(d + 1) <=> k * BlockSize <= b(d + 1) * BlockSize
      BY <3>a, Products
    <3>4. k + 1 <= b(d + 1)
      BY <1>1, <1>2, <1>9, <3>2, <3>3
    <3>5. k + 1 \in Int /\ b(d + 1) \in Int
      BY <1>1, <3>2
    <3>6. k + 1 <= b(d + 1) <=> (k + 1) * BlockSize <= b(d + 1) * BlockSize
      BY <3>5, Products
    <3> QED BY <3>2, <3>4, <3>6
  <2>4. (k + 1) * BlockSize = k * BlockSize + BlockSize
    BY <1>1, AttentionAssumption
  <2>5. Real(ds, p)
    BY <1>1, <1>3, <1>4, <2>3, <2>4
  <2>6. p < k * BlockSize - 0
    BY <1>1
  <2> QED BY <2>2, <2>5, <2>6 DEF k
<1> QED BY <1>8, <1>9

(* Behind the documents nothing is masked.                                     *)
LEMMA MaskBehindDocuments ==
    ASSUME NEW ds \in Seq(Nat)
    PROVE  QMask(ds, MetadataLen(ds)) = 0
<1>0. Len(ds) \in Nat /\ DOMAIN ds = 1..Len(ds)
  OBVIOUS
<1>1. ASSUME NEW d \in 1..Len(ds) PROVE d \notin Ends(ds, MetadataLen(ds))
  <2>1. d + 1 \in 1..Len(ds)+1 /\ Len(ds) + 1 \in 1..Len(ds)+1 /\ d + 1 <= Len(ds) + 1
    BY <1>0
  <2> DEFINE b == BlocksBefore(ds, d + 1)
             c == BlocksBefore(ds, Len(ds) + 1)
  <2>2. b \in Nat /\ c \in Nat /\ b * BlockSize <= c * BlockSize
    BY <2>1, DocumentsStartAtBlocks, LayoutMonotone
  <2>3. MetadataLen(ds) = c + 1
    BY DEF MetadataLen, DocRegion, BlocksBefore
  <2>4. d \in Ends(ds, MetadataLen(ds)) => b = c + 1
    BY <2>3 DEF Ends, BlocksBefore
  <2> HIDE DEF b, c
  <2>a. b \in Int /\ c \in Int
    BY <2>2
  <2>5. b <= c
    BY <2>a, <2>2, Products
  <2> QED BY <2>2, <2>4, <2>5
<1>2. Ends(ds, MetadataLen(ds)) = {}
  BY <1>0, <1>1 DEF Ends
<1> QED BY <1>2 DEF QMask, Ends

(* A block of the metadata belongs to a document, but for the last.            *)
LEMMA OffsetBounds ==
    ASSUME NEW ds \in Seq(Nat), NEW k \in 1..MetadataLen(ds)
    PROVE  /\ QOffset(ds, k) \in Nat /\ QOffset(ds, k) >= 1
           /\ QOffset(ds, k) <= MaxRotationOffset(ds) \/ QOffset(ds, k) = 1
<1>0. Len(ds) \in Nat /\ MetadataLen(ds) \in Nat /\ k \in Nat /\ k >= 1
  BY MetadataBlocks
<1>1. CASE k = MetadataLen(ds)
  BY <1>1 DEF QOffset
<1>2. CASE k # MetadataLen(ds)
  <2> DEFINE p == (k - 1) * BlockSize
  <2>1. p \in Nat /\ BlockOf(p) = k
    <3>1. BlockSize \in Nat /\ BlockSize >= 1 /\ k - 1 \in Nat /\ k - 1 \in Int
      BY <1>0, AttentionAssumption
    <3>2. p \in Nat
      BY <3>1
    <3>3. p \div BlockSize = k - 1
      <4>1. (k - 1) * BlockSize <= p /\ p < (k - 1) * BlockSize + BlockSize
        BY <3>1, <3>2
      <4> HIDE DEF p
      <4>2. p \in Int
        BY <3>2
      <4> QED BY <3>1, <4>1, <4>2, DivisionUnique
    <3> HIDE DEF p
    <3> QED BY <1>0, <3>2, <3>3 DEF BlockOf
  <2> HIDE DEF p
  <2>2. p < DocRegion(ds)
    <3>1. BlockOf(p) < MetadataLen(ds)
      BY <1>0, <1>2, <2>1
    <3> QED BY <2>1, <3>1, MetadataBlocks
  <2>3. PICK d \in 1..Len(ds) : Holds(ds, d, p)
    BY <2>1, <2>2, Covering DEF Holds
  <2>4. QOffset(ds, k) = 1 + TotalPadding(ds) + TrueBefore(ds, d)
    BY <2>1, <2>3, InDocument
  <2>5. d \in 1..Len(ds)+1 /\ Len(ds) \in 1..Len(ds)+1 /\ d <= Len(ds) /\ ds # <<>>
    <3>1. Len(<<>>) = 0
      OBVIOUS
    <3> QED BY <1>0, <3>1
  <2>6. TrueBefore(ds, d) <= TrueBefore(ds, Len(ds))
    BY <2>5, LayoutMonotone
  <2>7. TrueBefore(ds, d) \in Nat /\ TrueBefore(ds, Len(ds)) \in Nat /\ TotalPadding(ds) \in Nat
    BY <2>5, LayoutSums
  <2>8. MaxRotationOffset(ds) = TotalPadding(ds) + TrueBefore(ds, Len(ds)) + 1
    BY <2>5 DEF MaxRotationOffset
  <2> QED BY <2>4, <2>6, <2>7, <2>8
<1> QED BY <1>1, <1>2

(* What admission checks is enough for every block's fields.                   *)
LEMMA AdmissionBounds ==
    ASSUME NEW ds \in Seq(Nat), ~(MaxRotationOffset(ds) > MAX_PACKED_Q_OFFSET),
           NEW k \in 1..MetadataLen(ds)
    PROVE  /\ QOffset(ds, k) \in 1..MAX_PACKED_Q_OFFSET
           /\ QMask(ds, k) \in 0..MAX_PACKED_Q_OFFSET
<1>1. MAX_PACKED_Q_OFFSET \in Nat /\ MAX_PACKED_Q_OFFSET >= 1 /\ BlockSize - 1 <= MAX_PACKED_Q_OFFSET
      /\ BlockSize \in Nat
  BY AttentionAssumption DEF MAX_PACKED_Q_OFFSET
<1>2. MaxRotationOffset(ds) \in Int
  <2>1. CASE ds = <<>>
    BY <2>1 DEF MaxRotationOffset
  <2>2. CASE ds # <<>>
    <3>1. Len(ds) \in Nat /\ Len(ds) # 0 /\ Len(ds) \in 1..Len(ds)+1
      BY <2>2
    <3>2. TrueBefore(ds, Len(ds)) \in Nat /\ TotalPadding(ds) \in Nat
      BY <3>1, LayoutSums
    <3> QED BY <2>2, <3>2 DEF MaxRotationOffset
  <2> QED BY <2>1, <2>2
<1>3. QOffset(ds, k) \in 1..MAX_PACKED_Q_OFFSET
  BY <1>1, <1>2, OffsetBounds
<1>4. QMask(ds, k) \in 0..BlockSize-1
  BY MaskBounds
<1> QED BY <1>1, <1>3, <1>4

-----------------------------------------------------------------------------
(* The rotation of a block turns the angle at which a key is cached into its    *)
(* place in the context without padding, as far as the query is turned.        *)
LEMMA GapClosed ==
    ASSUME NEW ds \in Seq(Nat), NEW p \in Nat, Real(ds, p), NEW q \in Nat, q >= DocRegion(ds)
    PROVE  ContextPosition(ds, q) - ContextPosition(ds, p) =
              q - (KeyAngle(ds, p) +
                      (IF BlockOf(p) <= MetadataLen(ds) THEN QOffset(ds, BlockOf(p)) - 1 ELSE 0))
<1>0. DocRegion(ds) \in Nat /\ DocTokens(ds) \in Nat /\ TotalPadding(ds) \in Nat
      /\ DocRegion(ds) = DocTokens(ds) + TotalPadding(ds)
  BY LayoutSums
<1>a. BlockOf(p) \in Nat /\ MetadataLen(ds) \in Nat
  BY BlockOfBounds, MetadataBlocks
<1> DEFINE turn == IF BlockOf(p) <= MetadataLen(ds) THEN QOffset(ds, BlockOf(p)) - 1 ELSE 0
<1>1. ContextPosition(ds, q) = DocTokens(ds) + q - DocRegion(ds)
  BY BehindDocuments
<1>2. CASE p < DocRegion(ds)
  <2>1. PICK d \in 1..Len(ds) : Holds(ds, d, p)
    BY <1>2, Covering DEF Holds
  <2>2. TrueBefore(ds, d) \in Nat /\ PaddedBefore(ds, d) \in Nat
    <3>1. d \in 1..Len(ds)+1
      OBVIOUS
    <3> QED BY <3>1, LayoutSums
  <2>3. /\ BlockOf(p) < MetadataLen(ds)
        /\ QOffset(ds, BlockOf(p)) = 1 + TotalPadding(ds) + TrueBefore(ds, d)
        /\ KeyAngle(ds, p) = p - PaddedBefore(ds, d)
        /\ ContextPosition(ds, p) = TrueBefore(ds, d) + p - PaddedBefore(ds, d)
    BY <2>1, InDocument
  <2>4. BlockOf(p) <= MetadataLen(ds)
    BY <1>a, <2>3
  <2>5. turn = TotalPadding(ds) + TrueBefore(ds, d)
    BY <1>0, <2>2, <2>3, <2>4
  <2> HIDE DEF turn
  <2>6. ContextPosition(ds, q) - ContextPosition(ds, p) = q - (KeyAngle(ds, p) + turn)
    <3>1. ContextPosition(ds, q) = DocTokens(ds) + q - (DocTokens(ds) + TotalPadding(ds))
      BY <1>0, <1>1
    <3>2. ContextPosition(ds, p) = TrueBefore(ds, d) + p - PaddedBefore(ds, d)
      BY <2>3
    <3>3. KeyAngle(ds, p) + turn = (p - PaddedBefore(ds, d)) + (TotalPadding(ds) + TrueBefore(ds, d))
      BY <2>3, <2>5
    <3>4. \A a, b, s, t \in Nat :
             (a + q - (a + s)) - (t + p - b) = q - ((p - b) + (s + t))
      OBVIOUS
    <3>5. DocTokens(ds) \in Nat /\ PaddedBefore(ds, d) \in Nat /\ TotalPadding(ds) \in Nat /\ TrueBefore(ds, d) \in Nat
      BY <1>0, <2>2
    <3> QED BY <3>1, <3>2, <3>3, <3>4, <3>5
  <2> QED BY <2>6 DEF turn
<1>3. CASE p >= DocRegion(ds)
  <2>1. /\ BlockOf(p) >= MetadataLen(ds) /\ KeyAngle(ds, p) = p
        /\ ContextPosition(ds, p) = DocTokens(ds) + p - DocRegion(ds)
    BY <1>3, BehindDocuments
  <2>2. BlockOf(p) <= MetadataLen(ds) => BlockOf(p) = MetadataLen(ds)
    BY <1>a, <2>1
  <2>3. BlockOf(p) <= MetadataLen(ds) => QOffset(ds, BlockOf(p)) = 1
    BY <2>2 DEF QOffset
  <2>4. turn = 0
    BY <2>3
  <2> HIDE DEF turn
  <2>5. \A a, c \in Nat : (a + q - c) - (a + p - c) = q - (p + 0)
    OBVIOUS
  <2>6. ContextPosition(ds, q) - ContextPosition(ds, p) = q - (KeyAngle(ds, p) + turn)
    BY <1>0, <1>1, <2>1, <2>4, <2>5
  <2> QED BY <2>6 DEF turn
<1> QED BY <1>0, <1>2, <1>3

(* The mask of a block leaves out what is padding, and nothing else.           *)
LEMMA MaskExact ==
    ASSUME NEW ds \in Seq(Nat), NonEmpty(ds), NEW p \in Nat
    PROVE  Real(ds, p) <=> p < BlockOf(p) * BlockSize
                                  - (IF BlockOf(p) <= MetadataLen(ds) THEN QMask(ds, BlockOf(p)) ELSE 0)
<1>0. DocRegion(ds) \in Nat /\ BlockOf(p) \in Nat /\ MetadataLen(ds) \in Nat
      /\ BlockOf(p) * BlockSize \in Nat /\ p < BlockOf(p) * BlockSize
  BY LayoutSums, BlockOfBounds, MetadataBlocks
<1>1. CASE p < DocRegion(ds)
  <2>1. PICK d \in 1..Len(ds) : Holds(ds, d, p)
    BY <1>1, Covering DEF Holds
  <2>2. BlockOf(p) < MetadataLen(ds)
    BY <2>1, InDocument
  <2>3. BlockOf(p) <= MetadataLen(ds)
    BY <1>0, <2>2
  <2> QED BY <2>1, <2>3, MaskInDocument
<1>2. CASE p >= DocRegion(ds)
  <2>1. BlockOf(p) >= MetadataLen(ds) /\ Real(ds, p)
    BY <1>2, BehindDocuments
  <2>2. BlockOf(p) <= MetadataLen(ds) => QMask(ds, BlockOf(p)) = 0
    BY <1>0, <2>1, MaskBehindDocuments
  <2> QED BY <1>0, <2>1, <2>2
<1> QED BY <1>0, <1>1, <1>2

-----------------------------------------------------------------------------
(* The blocks that hold m tokens.                                              *)
LEMMA Ceil ==
    ASSUME NEW m \in Nat
    PROVE  /\ CeilDiv(m, BlockSize) \in Nat
           /\ m <= CeilDiv(m, BlockSize) * BlockSize
           /\ CeilDiv(m, BlockSize) * BlockSize < m + BlockSize
<1> DEFINE c == CeilDiv(m, BlockSize)
<1>0. BlockSize \in Nat /\ BlockSize >= 1 /\ m + BlockSize - 1 \in Int
  BY AttentionAssumption
<1>1. c \in Int /\ c * BlockSize <= m + BlockSize - 1 /\ m + BlockSize - 1 < c * BlockSize + BlockSize
  BY <1>0, Division DEF CeilDiv
<1> HIDE DEF c
<1>2. c * BlockSize \in Int
  BY <1>1, Products
<1>3. m <= c * BlockSize /\ c * BlockSize < m + BlockSize
  BY <1>0, <1>1, <1>2
<1>4. c >= 0
  BY <1>0, <1>1, <1>3
<1> QED BY <1>1, <1>3, <1>4 DEF c

LEMMA CeilCounts ==
    ASSUME NEW m \in Nat, NEW i \in Int
    PROVE  i < CeilDiv(m, BlockSize) <=> i * BlockSize < m
<1> DEFINE c == CeilDiv(m, BlockSize)
<1>0. BlockSize \in Nat /\ BlockSize >= 1
  BY AttentionAssumption
<1>1. c \in Nat /\ c \in Int /\ m <= c * BlockSize /\ c * BlockSize < m + BlockSize
  BY Ceil
<1> HIDE DEF c
<1>2. i + 1 \in Int
  OBVIOUS
<1>3. i < c <=> i * BlockSize < c * BlockSize
  BY <1>1, Products
<1>4. i + 1 <= c <=> (i + 1) * BlockSize <= c * BlockSize
  BY <1>1, <1>2, Products
<1>5. (i + 1) * BlockSize = i * BlockSize + BlockSize /\ i * BlockSize \in Int /\ c * BlockSize \in Int
  BY <1>0, <1>1, Products
<1>6. i < c <=> i + 1 <= c
  BY <1>1
<1>7. i < c <=> i * BlockSize < m
  BY <1>0, <1>1, <1>3, <1>4, <1>5, <1>6
<1> QED BY <1>7 DEF c

-----------------------------------------------------------------------------
(* Each physical block stands at one position of the table.                    *)
LEMMA PositionInTable ==
    ASSUME NEW k \in 1..Len(BlockAt), NEW n \in 0..BlockSize-1
    PROVE  PositionOf(BlockAt[k], n) = (k - 1) * BlockSize + n
<1>1. DOMAIN BlockAt = 1..Len(BlockAt)
  BY AttentionAssumption
<1>2. \A i \in DOMAIN BlockAt : BlockAt[i] = BlockAt[k] => i = k
  BY <1>1, AttentionAssumption DEF IsInjective
<1>3. (CHOOSE i \in DOMAIN BlockAt : BlockAt[i] = BlockAt[k]) = k
  BY <1>1, <1>2
<1> QED BY <1>3 DEF PositionOf

(* The n-th slot of the k-th block is a position of that block.                *)
LEMMA SlotOfBlock ==
    ASSUME NEW i \in Nat, NEW n \in 0..BlockSize-1
    PROVE  i * BlockSize + n \in Nat /\ BlockOf(i * BlockSize + n) = i + 1
<1> DEFINE p == i * BlockSize + n
<1>1. i * BlockSize \in Nat /\ BlockSize \in Nat /\ n \in Nat /\ n < BlockSize
  BY AttentionAssumption
<1>2. p \in Nat /\ i * BlockSize <= p /\ p < i * BlockSize + BlockSize
  BY <1>1
<1> HIDE DEF p
<1>3. p \div BlockSize = i
  BY <1>2, DivisionUnique
<1> QED BY <1>2, <1>3 DEF BlockOf, p

(* What is packed comes out again.                                             *)
LEMMA Fields ==
    ASSUME NEW b \in Nat, NEW o \in 0..MAX_PACKED_Q_OFFSET, NEW m \in 0..MAX_PACKED_Q_OFFSET
    PROVE  /\ (b * FieldSize + o) * FieldSize + m \in Nat
           /\ BlockField((b * FieldSize + o) * FieldSize + m) = b
           /\ OffsetField((b * FieldSize + o) * FieldSize + m) = o
           /\ MaskField((b * FieldSize + o) * FieldSize + m) = m
<1>0. FieldSize \in Nat /\ FieldSize >= 2 /\ o \in Nat /\ m \in Nat /\ o < FieldSize /\ m < FieldSize
  BY AttentionAssumption DEF MAX_PACKED_Q_OFFSET
<1> DEFINE h == b * FieldSize + o
           v == h * FieldSize + m
<1>1. h \in Nat
  BY <1>0
<1>2. h % FieldSize = o /\ h \div FieldSize = b
  BY <1>0
<1> HIDE DEF h
<1>3. v \in Nat /\ v % FieldSize = m /\ v \div FieldSize = h
  BY <1>0, <1>1
<1> HIDE DEF v
<1>4. v \div (FieldSize * FieldSize) = (v \div FieldSize) \div FieldSize
  BY <1>0, <1>3
<1> QED BY <1>2, <1>3, <1>4 DEF BlockField, OffsetField, MaskField, h, v

-----------------------------------------------------------------------------
(* The tiles of a step: each token is stored once, by one of the two kernels,   *)
(* whatever else is in the batch.                                              *)

Running == phase \in {"prefill", "decode", "done"}
Stored(i) == \E x : out[i] = <<x>>

(* The programs of the prefill kernel store the row tile by tile.  Its grid     *)
(* covers the longest query of the batch, so the last program has passed the   *)
(* row's own; a row of one token is left to the decode kernel.                 *)
TilesOK ==
    /\ chunk \in Nat /\ maxQuery \in Nat /\ tile \in Nat
    /\ phase \in {"new", "refused", "ready", "prefill", "decode", "done"}
    /\ Running => chunk >= 1 /\ maxQuery >= chunk /\ DOMAIN out = 0..chunk-1
    /\ phase = "prefill" => /\ DOMAIN level = TileTokens(tile)
                            /\ \A i \in 0..chunk-1 :
                                  IF chunk # 1 /\ i < tile * TileM THEN Stored(i) ELSE out[i] = <<>>
    /\ phase = "decode" => /\ DOMAIN level = {0}
                           /\ \A i \in 0..chunk-1 : IF chunk # 1 THEN Stored(i) ELSE out[i] = <<>>
    /\ phase = "done" => \A i \in 0..chunk-1 : Stored(i)

-----------------------------------------------------------------------------
LEMMA TileArithmetic ==
    ASSUME NEW t \in Nat
    PROVE  t * TileM \in Nat /\ (t + 1) * TileM = t * TileM + TileM /\ TileM >= 1
BY AttentionAssumption

LEMMA AppendToEmpty ==
    ASSUME NEW x
    PROVE  Append(<<>>, x) = <<x>>
OBVIOUS

(* StoreTokens stores the tokens that the program has.                         *)
LEMMA StoreAdds ==
    ASSUME StoreTokens, DOMAIN out = 0..chunk-1, NEW i \in 0..chunk-1
    PROVE  /\ DOMAIN out' = 0..chunk-1
           /\ i \in DOMAIN level /\ out[i] = <<>> => Stored(i)'
           /\ i \notin DOMAIN level => out'[i] = out[i]
<1>1. out' = [k \in DOMAIN out |-> IF k \in DOMAIN level THEN Append(out[k], attended[k]) ELSE out[k]]
  BY DEF StoreTokens
<1>2. ASSUME i \in DOMAIN level, out[i] = <<>> PROVE Stored(i)'
  <2>1. out'[i] = <<attended[i]>>
    BY <1>1, <1>2, AppendToEmpty
  <2> QED BY <2>1 DEF Stored
<1> QED BY <1>1, <1>2

(* The program at tile ends: the grid goes on, or it is through and the row    *)
(* has been stored, or left alone when it has one token.                       *)
LEMMA EndProgramTiles ==
    ASSUME TilesOK, phase = "prefill", EndProgram, UNCHANGED <<chunk, maxQuery>>,
           DOMAIN out' = 0..chunk-1,
           \A i \in 0..chunk-1 :
              IF chunk # 1 /\ i < (tile + 1) * TileM THEN Stored(i)' ELSE out'[i] = <<>>
    PROVE  TilesOK'
<1>0. chunk \in Nat /\ maxQuery \in Nat /\ tile \in Nat /\ chunk >= 1 /\ maxQuery >= chunk
  BY DEF TilesOK, Running
<1>1. tile + 1 \in Nat /\ (tile + 1) * TileM \in Nat
  <2>1. tile + 1 \in Nat
    BY <1>0
  <2> QED BY <2>1, TileArithmetic
<1>2. CASE (tile + 1) * TileM < maxQuery
  <2>1. tile' = tile + 1 /\ phase' = phase /\ level' = [i \in TileTokens(tile + 1) |-> MASKED]
    BY <1>2 DEF EndProgram, Fresh
  <2>2. DOMAIN level' = TileTokens(tile)'
    BY <2>1 DEF TileTokens
  <2>3. phase' = "prefill" /\ tile' \in Nat /\ chunk' = chunk /\ maxQuery' = maxQuery
    BY <1>1, <2>1
  <2>4. \A i \in 0..chunk'-1 : IF chunk' # 1 /\ i < tile' * TileM THEN Stored(i)' ELSE out'[i] = <<>>
    BY <2>1, <2>3
  <2> QED BY <1>0, <2>2, <2>3, <2>4 DEF TilesOK, Running
<1>3. CASE ~((tile + 1) * TileM < maxQuery)
  <2>1. tile' = tile /\ phase' = "decode" /\ level' = [i \in {0} |-> MASKED]
    BY <1>3 DEF EndProgram, Fresh
  <2>2. \A i \in 0..chunk-1 : i < (tile + 1) * TileM
    BY <1>0, <1>1, <1>3
  <2> QED BY <1>0, <2>1, <2>2 DEF TilesOK, Running
<1> QED BY <1>2, <1>3

LEMMA StoreTileTiles ==
    ASSUME TilesOK, LazyStoreTile \/ PlainStoreTile
    PROVE  TilesOK'
<1>1. phase = "prefill" /\ chunk # 1 /\ StoreTokens /\ EndProgram /\ UNCHANGED <<chunk, maxQuery>>
  BY DEF LazyStoreTile, PlainStoreTile, SkipDecode, rowVars, launchVars
<1>2. chunk \in Nat /\ tile \in Nat /\ DOMAIN out = 0..chunk-1 /\ DOMAIN level = TileTokens(tile)
  BY <1>1 DEF TilesOK, Running
<1>3. tile * TileM \in Nat /\ (tile + 1) * TileM = tile * TileM + TileM /\ TileM >= 1 /\ TileM \in Nat
  BY <1>2, TileArithmetic, AttentionAssumption
<1>4. DOMAIN out' = 0..chunk-1
  BY <1>1, <1>2 DEF StoreTokens
<1>5. ASSUME NEW i \in 0..chunk-1
      PROVE  IF chunk # 1 /\ i < (tile + 1) * TileM THEN Stored(i)' ELSE out'[i] = <<>>
  <2>1. i \in DOMAIN level <=> tile * TileM <= i /\ i < (tile + 1) * TileM
    BY <1>2, <1>3 DEF TileTokens
  <2>2. CASE i < tile * TileM
    <3>1. out'[i] = out[i] /\ Stored(i)
      BY <1>1, <1>2, <1>3, <2>1, <2>2, StoreAdds DEF TilesOK
    <3> QED BY <1>1, <1>2, <1>3, <2>2, <3>1 DEF Stored
  <2>3. CASE tile * TileM <= i /\ i < (tile + 1) * TileM
    <3>1. out[i] = <<>>
      BY <1>1, <1>2, <1>3, <2>3 DEF TilesOK
    <3> QED BY <1>1, <1>2, <2>1, <2>3, <3>1, StoreAdds
  <2>4. CASE i >= (tile + 1) * TileM
    <3>1. out'[i] = <<>>
      BY <1>1, <1>2, <1>3, <2>1, <2>4, StoreAdds DEF TilesOK
    <3> QED BY <1>2, <1>3, <2>4, <3>1
  <2> QED BY <1>2, <1>3, <2>2, <2>3, <2>4
<1> QED BY <1>1, <1>4, <1>5, EndProgramTiles

(* A program that takes another block or tile of keys leaves its tokens alone. *)
LEMMA MoreKeysTiles ==
    ASSUME TilesOK, UNCHANGED <<chunk, maxQuery, tile, phase, out>>, DOMAIN level' = DOMAIN level
    PROVE  TilesOK'
<1>1. TileTokens(tile)' = TileTokens(tile)
  BY DEF TileTokens
<1>2. \A i : Stored(i)' <=> Stored(i)
  BY DEF Stored
<1> QED BY <1>1, <1>2 DEF TilesOK, Running

-----------------------------------------------------------------------------
LEMMA TilesInductive == TilesOK /\ [Next]_vars => TilesOK'
<1> SUFFICES ASSUME TilesOK, [Next]_vars PROVE TilesOK'
  OBVIOUS
<1>1. CASE Arrive
  <2>1. phase' \in {"refused", "ready"} /\ UNCHANGED <<chunk, maxQuery, tile>>
    BY <1>1 DEF Arrive, launchVars
  <2> QED BY <2>1 DEF TilesOK, Running
<1>2. CASE PrepareInputs
  <2>1. /\ chunk' \in 1..MaxNew /\ maxQuery' \in {chunk', MaxNew} /\ tile' = 0
        /\ phase' = IF LaunchPrefill(maxQuery') THEN "prefill" ELSE "decode"
        /\ out' = [i \in 0..chunk'-1 |-> <<>>]
    BY <1>2 DEF PrepareInputs
  <2>2. chunk' \in Nat /\ maxQuery' \in Nat /\ chunk' >= 1 /\ maxQuery' >= chunk' /\ 0 * TileM = 0
    BY <2>1, AttentionAssumption
  <2>3. DOMAIN level' = IF LaunchPrefill(maxQuery') THEN TileTokens(0)' ELSE {0}
    BY <1>2 DEF PrepareInputs, Fresh
  <2>4. CASE maxQuery' > 1
    <3>1. phase' = "prefill" /\ DOMAIN level' = TileTokens(tile)'
      BY <2>1, <2>3, <2>4 DEF LaunchPrefill, TileTokens
    <3>2. \A i \in 0..chunk'-1 : ~(i < tile' * TileM) /\ out'[i] = <<>>
      BY <2>1, <2>2
    <3> QED BY <2>1, <2>2, <3>1, <3>2 DEF TilesOK, Running
  <2>5. CASE ~(maxQuery' > 1)
    <3>1. phase' = "decode" /\ DOMAIN level' = {0} /\ chunk' = 1
      BY <2>1, <2>2, <2>3, <2>5 DEF LaunchPrefill
    <3> QED BY <2>1, <2>2, <3>1 DEF TilesOK, Running
  <2> QED BY <2>4, <2>5
<1>3. CASE PrefillSkips
  <2>1. /\ phase = "prefill" /\ chunk = 1 /\ EndProgram
        /\ UNCHANGED <<chunk, maxQuery, out>>
    BY <1>3 DEF PrefillSkips, SkipDecode, rowVars, launchVars
  <2>2. DOMAIN out' = 0..chunk-1 /\ \A i \in 0..chunk-1 : out'[i] = <<>>
    BY <2>1 DEF TilesOK, Running
  <2> QED BY <2>1, <2>2, EndProgramTiles
<1>4. CASE LazyContextBlock
  <2>1. UNCHANGED <<chunk, maxQuery, tile, phase, out>> /\ DOMAIN level' = DOMAIN level
    BY <1>4 DEF LazyContextBlock, Accumulate, rowVars, launchVars
  <2> QED BY <2>1, MoreKeysTiles
<1>5. CASE PlainContextBlock
  <2>1. UNCHANGED <<chunk, maxQuery, tile, phase, out>> /\ DOMAIN level' = DOMAIN level
    BY <1>5 DEF PlainContextBlock, Accumulate, rowVars, launchVars
  <2> QED BY <2>1, MoreKeysTiles
<1>6. CASE LazyOwnTile \/ PlainOwnTile
  <2>1. UNCHANGED <<chunk, maxQuery, tile, phase, out>> /\ DOMAIN level' = DOMAIN level
    BY <1>6 DEF LazyOwnTile, PlainOwnTile, Accumulate, rowVars, launchVars
  <2> QED BY <2>1, MoreKeysTiles
<1>7. CASE LazyStoreTile \/ PlainStoreTile
  BY <1>7, StoreTileTiles
<1>8. CASE DecodeSkips
  <2>1. /\ phase = "decode" /\ chunk > 1 /\ phase' = "done"
        /\ UNCHANGED <<chunk, maxQuery, tile, out>>
    BY <1>8 DEF DecodeSkips, rowVars, launchVars
  <2>2. \A i \in 0..chunk-1 : Stored(i)'
    BY <2>1 DEF TilesOK, Stored
  <2> QED BY <2>1, <2>2 DEF TilesOK, Running
<1>9. CASE VisitBlock \/ LazyOnlyVisitBlock
  <2>1. UNCHANGED <<chunk, maxQuery, tile, phase, out>> /\ DOMAIN level' = DOMAIN level
    BY <1>9 DEF VisitBlock, LazyOnlyVisitBlock, VisitLazyBlock, Accumulate, rowVars, launchVars
  <2> QED BY <2>1, MoreKeysTiles
<1>10. CASE PlainVisitBlock
  <2>1. UNCHANGED <<chunk, maxQuery, tile, phase, out>> /\ DOMAIN level' = DOMAIN level
    BY <1>10 DEF PlainVisitBlock, Accumulate, rowVars, launchVars
  <2> QED BY <2>1, MoreKeysTiles
<1>11. CASE StoreToken
  <2>1. /\ phase = "decode" /\ chunk = 1 /\ phase' = "done" /\ StoreTokens
        /\ UNCHANGED <<chunk, maxQuery, tile>>
    BY <1>11 DEF StoreToken, rowVars, launchVars
  <2>2. DOMAIN out = 0..chunk-1 /\ DOMAIN level = {0} /\ \A i \in 0..chunk-1 : out[i] = <<>>
    BY <2>1 DEF TilesOK, Running
  <2>3. DOMAIN out' = 0..chunk-1 /\ \A i \in 0..chunk-1 : Stored(i)'
    BY <2>1, <2>2, StoreAdds
  <2> QED BY <2>1, <2>3 DEF TilesOK, Running
<1>12. CASE NextStep
  BY <1>12 DEF NextStep, TilesOK, Running, rowVars, launchVars
<1>13. CASE UNCHANGED vars
  <2>1. UNCHANGED <<chunk, maxQuery, tile, phase, out, level>>
    BY <1>13 DEF vars, rowVars, launchVars
  <2> QED BY <2>1, MoreKeysTiles
<1> QED BY <1>1, <1>2, <1>3, <1>4, <1>5, <1>6, <1>7, <1>8, <1>9, <1>10, <1>11, <1>12, <1>13 DEF Next

-----------------------------------------------------------------------------
(* A token of a step is stored once: the tiles of the prefill kernel neither   *)
(* overlap nor leave one out, whatever the longest query of the batch makes    *)
(* of the grid, and SKIP_DECODE and filter_by_query_len split the rows between *)
(* the two kernels.                                                           *)
THEOREM TokensStoredOnce == Spec => []StoredOnce
<1>1. Init => TilesOK
  BY DEF Init, TilesOK, Running
<1>2. TilesOK => StoredOnce
  <2> SUFFICES ASSUME TilesOK PROVE StoredOnce
    OBVIOUS
  <2>1. ASSUME NEW i, Stored(i) PROVE Len(out[i]) = 1
    <3>1. PICK x : out[i] = <<x>>
      BY <2>1 DEF Stored
    <3>2. Len(<<x>>) = 1
      OBVIOUS
    <3> QED BY <3>1, <3>2
  <2>2. ASSUME NEW i, out[i] = <<>> PROVE Len(out[i]) = 0
    <3>1. Len(<<>>) = 0
      OBVIOUS
    <3> QED BY <2>2, <3>1
  <2>3. ASSUME phase \in {"prefill", "decode"}, NEW i \in DOMAIN out PROVE Len(out[i]) <= 1
    <3>1. i \in 0..chunk-1
      BY <2>3 DEF TilesOK, Running
    <3>2. Stored(i) \/ out[i] = <<>>
      BY <2>3, <3>1 DEF TilesOK
    <3> QED BY <2>1, <2>2, <3>2
  <2>4. ASSUME phase = "done", NEW i \in DOMAIN out PROVE Len(out[i]) = 1
    <3>1. Stored(i)
      BY <2>4 DEF TilesOK, Running
    <3> QED BY <2>1, <3>1
  <2> QED BY <2>3, <2>4 DEF StoredOnce
<1> QED BY <1>1, <1>2, TilesInductive, PTL DEF Spec

-----------------------------------------------------------------------------
(* The request and its row.                                                    *)
Admitted == phase \notin {"new", "refused"}

RowOK ==
    /\ lens \in Seq(Nat) /\ window \in Nat /\ seqLen \in Nat /\ chunk \in 0..MaxNew
    /\ maxQuery \in 0..MaxNew /\ lazyOnly \in BOOLEAN
    /\ phase \in {"new", "refused", "ready", "prefill", "decode", "done"}
    /\ IF phase = "new" THEN lens = <<>> /\ seqLen = 0 ELSE lens \in DocumentSets
    /\ DocRegion(lens) <= seqLen /\ seqLen <= DocRegion(lens) + MaxNew
    /\ Running => chunk >= 1 /\ ctx >= DocRegion(lens) /\ (lazyOnly => Lazy)
    /\ Admitted => ~(MaxRotationOffset(lens) > MAX_PACKED_Q_OFFSET)

(* The packed table holds what the metadata says of each block, however often   *)
(* the table has grown since it was packed.                                    *)
PackedOK ==
    /\ packed \in Seq(Nat)
    /\ phase \in {"new", "refused"} => packed = <<>>
    /\ packed = [k \in 1..Len(packed) |-> PackedEntry(k)]
    /\ Running => Len(packed) = NumBlocks

(* The query token of the decode kernel is turned as far as the last block that *)
(* it visited asks for.                                                        *)
TurnOK ==
    /\ tile \in Nat /\ own \in Nat /\ j \in 0..NumBlocks
    /\ prev \in -1..MAX_PACKED_Q_OFFSET /\ rot \in 0..MAX_PACKED_Q_OFFSET
    /\ phase \in {"new", "refused"} => j = 0 /\ out = <<>>
    /\ phase = "prefill" /\ j * BlockSize < ctx => own = 0
    /\ phase = "decode" => own = 0
    /\ phase = "decode" /\ Lazy =>
          IF j = 0 THEN prev = -1 /\ rot = 0 ELSE prev = OffsetAt(j) /\ rot = ForwardRotation(j)

(* The classes and keys that the kernels keep.                                 *)
KeysOK ==
    /\ DOMAIN attended = DOMAIN level
    /\ \A i \in DOMAIN level : level[i] \in MASKED..SCORED /\ attended[i] \subseteq Nat \X Int
    /\ phase \in {"prefill", "decode"} /\ j + own > 0 => \A i \in DOMAIN level : level[i] # MASKED
    /\ \A i \in DOMAIN out : out[i] \in Seq(SUBSET (Nat \X Int))

-----------------------------------------------------------------------------
(* The keys before position n that token i of the chunk attends to, each with  *)
(* its distance in the context without padding.                               *)
Attends(i, p) == p <= ctx + i /\ Real(lens, p) /\ (window = 0 \/ ctx + i - p < window)
Seen(i, n) == {p \in 0..n-1 : Attends(i, p)}
WithDistance(i, S) == {<<p, ContextPosition(lens, ctx + i) - ContextPosition(lens, p)>> : p \in S}

(* What the online softmax holds when it has seen the keys before n.           *)
Summary(i, n) ==
    /\ level[i] = SCORED <=> Seen(i, n) # {}
    /\ level[i] = SCORED => attended[i] = WithDistance(i, Seen(i, n))

(* How far the kernel that runs has come.                                      *)
Visited ==
    IF phase = "prefill" /\ j * BlockSize >= ctx THEN ctx + own ELSE j * BlockSize

SoftmaxOK ==
    phase \in {"prefill", "decode"} => \A i \in DOMAIN level : Summary(i, Visited)

NonEmptyDocuments == \A ds \in DocumentSets : NonEmpty(ds)

-----------------------------------------------------------------------------
(* The keys of one iteration of a kernel's loop: lo + n, at distance D[n] and   *)
(* of class W[n], for the n below len.                                        *)
Slots(lo, len, D, W) == {<<lo + n, D[n], W[n]>> : n \in 0..len-1}

(* They are what token i attends to between lo and m, when no document is       *)
(* empty; the first one is never masked.                                      *)
Describes(keys, i, lo, len, m) ==
    \E D, W :
       /\ keys = Slots(lo, len, D, W)
       /\ \A n \in 0..len-1 : D[n] \in Int /\ W[n] \in MASKED..SCORED
       /\ own = 0 => W[0] # MASKED
       /\ NonEmpty(lens) =>
             \A n \in 0..len-1 :
                /\ W[n] = SCORED <=> lo + n < m /\ Attends(i, lo + n)
                /\ W[n] = SCORED =>
                      D[n] = ContextPosition(lens, ctx + i) - ContextPosition(lens, lo + n)

LEMMA TopOf ==
    ASSUME NEW i, level[i] \in MASKED..SCORED, NEW keys, \A key \in keys : key[3] \in MASKED..SCORED
    PROVE  /\ Top(i, keys) \in MASKED..SCORED /\ level[i] <= Top(i, keys)
           /\ \A key \in keys : key[3] <= Top(i, keys)
           /\ Top(i, keys) = level[i] \/ \E key \in keys : key[3] = Top(i, keys)
<1> DEFINE S == {level[i]} \cup {key[3] : key \in keys}
<1>1. S \in SUBSET (0..2) /\ S # {} /\ 2 \in Nat
  BY DEF MASKED, SCORED
<1>2. Max(S) \in S /\ \A x \in S : x <= Max(S)
  <2> HIDE DEF S
  <2> QED BY <1>1, MaxOf
<1>3. Top(i, keys) = Max(S)
  BY DEF Top
<1>4. level[i] \in S /\ \A key \in keys : key[3] \in S
  OBVIOUS
<1>5. \A x \in S : x = level[i] \/ \E key \in keys : key[3] = x
  OBVIOUS
<1> HIDE DEF S
<1> QED BY <1>1, <1>2, <1>3, <1>4, <1>5 DEF MASKED, SCORED

LEMMA KeysMeet ==
    ASSUME NEW i, level[i] \in MASKED..SCORED, attended[i] \subseteq Nat \X Int,
           NEW keys, NEW lo \in Nat, NEW len \in Nat, len >= 1, NEW m \in Nat,
           Describes(keys, i, lo, len, m)
    PROVE  /\ Top(i, keys) \in MASKED..SCORED
           /\ Kept(i, keys) \subseteq Nat \X Int
           /\ own = 0 \/ level[i] # MASKED => Top(i, keys) # MASKED
<1>1. PICK D, W : /\ keys = Slots(lo, len, D, W)
                  /\ \A n \in 0..len-1 : D[n] \in Int /\ W[n] \in MASKED..SCORED
                  /\ own = 0 => W[0] # MASKED
  BY DEF Describes
<1>2. \A key \in keys : \E n \in 0..len-1 : key = <<lo + n, D[n], W[n]>>
  BY <1>1 DEF Slots
<1>3. \A key \in keys : key[1] \in Nat /\ key[2] \in Int /\ key[3] \in MASKED..SCORED
  <2> TAKE key \in keys
  <2>1. PICK n \in 0..len-1 : key = <<lo + n, D[n], W[n]>>
    BY <1>2
  <2>2. lo + n \in Nat
    OBVIOUS
  <2> QED BY <1>1, <2>1, <2>2
<1>4. /\ Top(i, keys) \in MASKED..SCORED /\ level[i] <= Top(i, keys)
      /\ \A key \in keys : key[3] <= Top(i, keys)
  BY <1>3, TopOf
<1>5. own = 0 => Top(i, keys) # MASKED
  <2>1. 0 \in 0..len-1 /\ <<lo + 0, D[0], W[0]>> \in keys
    <3>1. 0 \in 0..len-1
      OBVIOUS
    <3> QED BY <1>1, <3>1 DEF Slots
  <2>2. W[0] <= Top(i, keys) /\ W[0] \in MASKED..SCORED
    BY <1>1, <1>4, <2>1
  <2> QED BY <1>1, <1>4, <2>2 DEF MASKED, SCORED
<1>6. level[i] # MASKED => Top(i, keys) # MASKED
  BY <1>4 DEF MASKED, SCORED
<1>7. Kept(i, keys) \subseteq Nat \X Int
  <2>1. \A x \in Kept(i, keys) : x \in attended[i] \/ \E key \in keys : x = <<key[1], key[2]>>
    BY DEF Kept
  <2> QED BY <1>3, <2>1
<1> QED BY <1>4, <1>5, <1>6, <1>7

(* The online softmax goes from the keys before lo to the keys before m.       *)
LEMMA SummaryStep ==
    ASSUME NEW i, level[i] \in MASKED..SCORED, NEW keys, NonEmpty(lens),
           NEW lo \in Nat, NEW len \in Nat, len >= 1, NEW m \in Nat, lo <= m, m <= lo + len,
           Describes(keys, i, lo, len, m), Summary(i, lo)
    PROVE  /\ Top(i, keys) = SCORED <=> Seen(i, m) # {}
           /\ Top(i, keys) = SCORED => Kept(i, keys) = WithDistance(i, Seen(i, m))
<1> DEFINE far(p) == ContextPosition(lens, ctx + i) - ContextPosition(lens, p)
           new == {p \in lo..m-1 : Attends(i, p)}
           top == Top(i, keys)
<1>1. PICK D, W : /\ keys = Slots(lo, len, D, W)
                  /\ \A n \in 0..len-1 : D[n] \in Int /\ W[n] \in MASKED..SCORED
                  /\ \A n \in 0..len-1 : /\ W[n] = SCORED <=> lo + n < m /\ Attends(i, lo + n)
                                         /\ W[n] = SCORED => D[n] = far(lo + n)
  BY DEF Describes
<1>2. \A key \in keys : \E n \in 0..len-1 : key = <<lo + n, D[n], W[n]>>
  BY <1>1 DEF Slots
<1>3. \A key \in keys : key[3] \in MASKED..SCORED
  BY <1>1, <1>2
<1>4. /\ top \in MASKED..SCORED /\ level[i] <= top /\ \A key \in keys : key[3] <= top
      /\ top = level[i] \/ \E key \in keys : key[3] = top
  BY <1>3, TopOf
<1>5. \A key \in keys : key[3] = SCORED => key[1] \in new /\ key[2] = far(key[1])
  <2> TAKE key \in keys
  <2>1. PICK n \in 0..len-1 : key = <<lo + n, D[n], W[n]>>
    BY <1>2
  <2>2. key[1] = lo + n /\ key[2] = D[n] /\ key[3] = W[n]
    BY <2>1
  <2>3. W[n] = SCORED => lo + n \in lo..m-1 /\ Attends(i, lo + n) /\ D[n] = far(lo + n)
    BY <1>1
  <2> QED BY <2>2, <2>3
<1>6. \A p \in new : <<p, far(p), SCORED>> \in keys
  <2> TAKE p \in new
  <2>1. p \in lo..m-1 /\ Attends(i, p) /\ p - lo \in 0..len-1 /\ lo + (p - lo) = p
    OBVIOUS
  <2>2. W[p - lo] = SCORED /\ D[p - lo] = far(p)
    BY <1>1, <2>1
  <2>3. <<lo + (p - lo), D[p - lo], W[p - lo]>> \in keys
    BY <1>1, <2>1 DEF Slots
  <2> QED BY <2>1, <2>2, <2>3
<1>7. Seen(i, m) = Seen(i, lo) \cup new
  BY DEF Seen
<1> DEFINE scored == {<<key[1], key[2]>> : key \in {k \in keys : k[3] = SCORED}}
<1>8. scored = WithDistance(i, new)
  <2>1. ASSUME NEW x \in scored PROVE x \in WithDistance(i, new)
    <3>1. PICK key \in keys : key[3] = SCORED /\ x = <<key[1], key[2]>>
      BY <2>1
    <3>2. key[1] \in new /\ x = <<key[1], far(key[1])>>
      BY <1>5, <3>1
    <3> QED BY <3>2 DEF WithDistance
  <2>2. ASSUME NEW x \in WithDistance(i, new) PROVE x \in scored
    <3>1. PICK p \in new : x = <<p, far(p)>>
      BY <2>2 DEF WithDistance
    <3>2. <<p, far(p), SCORED>> \in keys
      BY <1>6
    <3> HIDE DEF far, new
    <3>3. <<p, far(p), SCORED>>[1] = p /\ <<p, far(p), SCORED>>[2] = far(p) /\ <<p, far(p), SCORED>>[3] = SCORED
      OBVIOUS
    <3> QED BY <3>1, <3>2, <3>3
  <2> QED BY <2>1, <2>2
<1>9. top = SCORED <=> Seen(i, lo) # {} \/ new # {}
  <2>1. top = SCORED => level[i] = SCORED \/ \E key \in keys : key[3] = SCORED
    BY <1>4
  <2>2. (\E key \in keys : key[3] = SCORED) => new # {}
    BY <1>5
  <2>3. new # {} => \E key \in keys : key[3] = SCORED
    <3>1. ASSUME NEW p \in new PROVE \E key \in keys : key[3] = SCORED
      <4>1. <<p, far(p), SCORED>> \in keys
        BY <1>6
      <4> QED BY <4>1
    <3> HIDE DEF new
    <3> QED BY <3>1
  <2>4. (\E key \in keys : key[3] = SCORED) => top = SCORED
    BY <1>4 DEF MASKED, SCORED
  <2>5. level[i] = SCORED => top = SCORED
    BY <1>4 DEF MASKED, SCORED
  <2>6. level[i] = SCORED <=> Seen(i, lo) # {}
    BY DEF Summary
  <2> HIDE DEF top, new
  <2> QED BY <2>1, <2>2, <2>3, <2>4, <2>5, <2>6
<1>10. ASSUME top = SCORED PROVE Kept(i, keys) = WithDistance(i, Seen(i, m))
  <2>1. Kept(i, keys) = (IF level[i] = SCORED THEN attended[i] ELSE {}) \cup scored
    BY <1>10 DEF Kept
  <2>2. (IF level[i] = SCORED THEN attended[i] ELSE {}) = WithDistance(i, Seen(i, lo))
    BY DEF Summary, WithDistance
  <2>3. WithDistance(i, Seen(i, m)) = WithDistance(i, Seen(i, lo)) \cup WithDistance(i, new)
    <3> HIDE DEF new
    <3> QED BY <1>7 DEF WithDistance
  <2> QED BY <1>8, <2>1, <2>2, <2>3
<1> QED BY <1>7, <1>9, <1>10

-----------------------------------------------------------------------------
(* What the buffers say of a position of this request.                         *)
LEMMA RotationOfBlock ==
    ASSUME lens \in Seq(Nat), NEW k \in Nat, k >= 1
    PROVE  /\ OffsetAt(k) \in Nat /\ ForwardRotation(k) \in Nat
           /\ ForwardRotation(k) = IF Lazy /\ k <= MetadataLen(lens) THEN QOffset(lens, k) - 1 ELSE 0
           /\ MaskAt(k) \in 0..BlockSize-1
<1>1. MetadataLen(lens) \in Nat /\ 0 \in 0..BlockSize-1
  BY MetadataBlocks, AttentionAssumption
<1>2. k <= MetadataLen(lens) => QOffset(lens, k) \in Nat /\ QOffset(lens, k) >= 1
  BY <1>1, OffsetBounds
<1>3. QMask(lens, k) \in 0..BlockSize-1
  BY MaskBounds
<1> QED BY <1>1, <1>2, <1>3 DEF OffsetAt, ForwardRotation, MaskAt

LEMMA PlainLayout ==
    ASSUME ~Lazy
    PROVE  lens \in Seq(Nat) /\ DocRegion(lens) = 0 /\ DocTokens(lens) = 0
<1>1. lens = <<>> /\ lens \in Seq(Nat) /\ Len(lens) = 0
  BY DEF Lazy
<1>2. PaddedBefore(lens, 1) = 0 /\ TrueBefore(lens, 1) = 0
  BY <1>1, LayoutSums
<1>3. Len(lens) + 1 = 1
  BY <1>1
<1> QED BY <1>1, <1>2, <1>3 DEF DocRegion, DocTokens

LEMMA TurnClosesGap ==
    ASSUME lens \in Seq(Nat), NEW p \in Nat, Real(lens, p), NEW q \in Nat, q >= DocRegion(lens)
    PROVE  q - (KeyAngle(lens, p) + ForwardRotation(BlockOf(p))) =
              ContextPosition(lens, q) - ContextPosition(lens, p)
<1>1. BlockOf(p) \in Nat /\ BlockOf(p) >= 1
  BY BlockOfBounds
<1>2. CASE Lazy
  <2>1. ForwardRotation(BlockOf(p)) =
           IF BlockOf(p) <= MetadataLen(lens) THEN QOffset(lens, BlockOf(p)) - 1 ELSE 0
    BY <1>1, <1>2, RotationOfBlock
  <2> QED BY <2>1, GapClosed
<1>3. CASE ~Lazy
  <2>1. DocRegion(lens) = 0 /\ DocTokens(lens) = 0
    BY <1>3, PlainLayout
  <2>2. ForwardRotation(BlockOf(p)) = 0
    BY <1>1, <1>3, RotationOfBlock
  <2>3. KeyAngle(lens, p) = p /\ ContextPosition(lens, p) = 0 + p - 0 /\ ContextPosition(lens, q) = 0 + q - 0
    BY <2>1, BehindDocuments
  <2> QED BY <2>2, <2>3
<1> QED BY <1>2, <1>3

LEMMA MaskLeavesPadding ==
    ASSUME lens \in Seq(Nat), NonEmpty(lens), NEW p \in Nat
    PROVE  Real(lens, p) <=> p < BlockOf(p) * BlockSize - MaskAt(BlockOf(p))
<1>1. CASE Lazy
  <2>1. MaskAt(BlockOf(p)) = IF BlockOf(p) <= MetadataLen(lens) THEN QMask(lens, BlockOf(p)) ELSE 0
    BY <1>1 DEF MaskAt
  <2> QED BY <2>1, MaskExact
<1>2. CASE ~Lazy
  <2>1. Real(lens, p)
    BY <1>2, PlainLayout, BehindDocuments
  <2>2. MaskAt(BlockOf(p)) = 0
    BY <1>2 DEF MaskAt
  <2>3. BlockOf(p) * BlockSize \in Nat /\ p < BlockOf(p) * BlockSize
    BY BlockOfBounds
  <2> QED BY <2>1, <2>2, <2>3
<1> QED BY <1>1, <1>2

LEMMA AngleType ==
    ASSUME lens \in Seq(Nat), NEW p \in Nat
    PROVE  KeyAngle(lens, p) \in Int
<1>1. DocRegion(lens) \in Nat
  BY LayoutSums
<1>2. CASE p < DocRegion(lens)
  <2>1. PICK d \in 1..Len(lens) : Holds(lens, d, p)
    BY <1>2, Covering DEF Holds
  <2>2. KeyAngle(lens, p) = p - PaddedBefore(lens, d)
    BY <2>1, InDocument
  <2>3. PaddedBefore(lens, d) \in Nat
    <3>1. d \in 1..Len(lens)+1
      OBVIOUS
    <3> QED BY <3>1, LayoutSums
  <2> QED BY <2>2, <2>3
<1>3. CASE p >= DocRegion(lens)
  BY <1>3, BehindDocuments
<1> QED BY <1>1, <1>2, <1>3

LEMMA Weights ==
    ASSUME window \in Nat, NEW masked \in BOOLEAN, NEW back \in Int
    PROVE  /\ Weight(masked, back) \in MASKED..SCORED
           /\ ~masked => Weight(masked, back) # MASKED
           /\ Weight(masked, back) = SCORED <=> ~masked /\ (window = 0 \/ back < window)
BY DEF Weight, MASKED, FAR, SCORED

-----------------------------------------------------------------------------
(* A block of keys from the cache, turned as far as its rotation says, with the *)
(* mask over its padding and over what is not there yet.                       *)
LEMMA BlockDescribed ==
    ASSUME RowOK, Running, NEW i \in 0..chunk-1, j \in Nat, NEW limit \in Nat, NEW m \in Nat, NEW keys,
           j * BlockSize < limit,
           \A n \in 0..BlockSize-1 : j * BlockSize + n < limit <=>
                                        j * BlockSize + n < m /\ j * BlockSize + n <= ctx + i,
           keys = {<<j * BlockSize + n,
                     ctx + i - (KeyAngle(lens, j * BlockSize + n) + ForwardRotation(j + 1)),
                     Weight(j * BlockSize + n >= limit
                               \/ j * BlockSize + n >= (j + 1) * BlockSize - MaskAt(j + 1),
                            ctx + i - (j * BlockSize + n))>> : n \in 0..BlockSize-1}
    PROVE  Describes(keys, i, j * BlockSize, BlockSize, m)
<1> DEFINE p(n) == j * BlockSize + n
           masked(n) == p(n) >= limit \/ p(n) >= (j + 1) * BlockSize - MaskAt(j + 1)
           D == [n \in 0..BlockSize-1 |-> ctx + i - (KeyAngle(lens, p(n)) + ForwardRotation(j + 1))]
           W == [n \in 0..BlockSize-1 |-> Weight(masked(n), ctx + i - p(n))]
<1>0. /\ BlockSize \in Nat /\ BlockSize >= 1 /\ j * BlockSize \in Nat /\ (j + 1) * BlockSize = j * BlockSize + BlockSize
      /\ 0 \in 0..BlockSize-1
  BY AttentionAssumption
<1>1. /\ lens \in Seq(Nat) /\ window \in Nat /\ ctx \in Int /\ ctx + i \in Nat /\ ctx + i >= DocRegion(lens)
  <2>1. lens \in Seq(Nat) /\ window \in Nat /\ seqLen \in Nat /\ chunk \in Nat /\ ctx >= DocRegion(lens)
    BY AttentionAssumption DEF RowOK
  <2>2. DocRegion(lens) \in Nat
    BY <2>1, LayoutSums
  <2>3. ctx \in Int
    BY <2>1 DEF ctx
  <2> HIDE DEF ctx
  <2> QED BY <2>1, <2>2, <2>3
<1>2. ForwardRotation(j + 1) \in Nat /\ MaskAt(j + 1) \in 0..BlockSize-1
  <2>1. j + 1 \in Nat /\ j + 1 >= 1
    OBVIOUS
  <2> QED BY <1>1, <2>1, RotationOfBlock
<1>3. \A n \in 0..BlockSize-1 : p(n) \in Nat /\ BlockOf(p(n)) = j + 1
  BY SlotOfBlock
<1>4. keys = Slots(j * BlockSize, BlockSize, D, W)
  BY DEF Slots
<1>5. \A n \in 0..BlockSize-1 :
         /\ D[n] = ctx + i - (KeyAngle(lens, p(n)) + ForwardRotation(j + 1))
         /\ W[n] = Weight(masked(n), ctx + i - p(n))
  OBVIOUS
<1>6. \A n \in 0..BlockSize-1 : masked(n) \in BOOLEAN /\ ctx + i - p(n) \in Int
  BY <1>1, <1>3
<1> DEFINE open == {n \in 0..BlockSize-1 : ~masked(n)}
<1>7. 0 \in open
  BY <1>0, <1>2
<1>8. \A n \in 0..BlockSize-1 : n \in open <=> p(n) < limit /\ p(n) < (j + 1) * BlockSize - MaskAt(j + 1)
  BY <1>0, <1>2, <1>3
<1>9. \A n \in 0..BlockSize-1 : p(n) < limit <=> p(n) < m /\ p(n) <= ctx + i
  OBVIOUS
<1>10. \A n \in 0..BlockSize-1 :
          /\ W[n] \in MASKED..SCORED
          /\ n \in open => W[n] # MASKED
          /\ W[n] = SCORED <=> n \in open /\ (window = 0 \/ ctx + i - p(n) < window)
  <2> TAKE n \in 0..BlockSize-1
  <2>1. n \in open <=> ~masked(n)
    OBVIOUS
  <2>2. W[n] = Weight(masked(n), ctx + i - p(n)) /\ masked(n) \in BOOLEAN /\ ctx + i - p(n) \in Int
    BY <1>5, <1>6
  <2> HIDE DEF open, masked, p, W
  <2> QED BY <1>1, <2>1, <2>2, Weights
<1> HIDE DEF D, W, masked, p, open
<1>11. \A n \in 0..BlockSize-1 : D[n] \in Int
  <2> TAKE n \in 0..BlockSize-1
  <2>1. KeyAngle(lens, p(n)) \in Int
    BY <1>1, <1>3, AngleType
  <2> QED BY <1>1, <1>2, <1>5, <2>1
<1>12. ASSUME NonEmpty(lens), NEW n \in 0..BlockSize-1
       PROVE  /\ W[n] = SCORED <=> p(n) < m /\ Attends(i, p(n))
              /\ W[n] = SCORED => D[n] = ContextPosition(lens, ctx + i) - ContextPosition(lens, p(n))
  <2>1. Real(lens, p(n)) <=> p(n) < (j + 1) * BlockSize - MaskAt(j + 1)
    BY <1>1, <1>3, <1>12, MaskLeavesPadding
  <2>2. W[n] = SCORED <=> p(n) < m /\ Attends(i, p(n))
    <3>1. n \in open <=> p(n) < m /\ p(n) <= ctx + i /\ Real(lens, p(n))
      BY <1>8, <1>9, <2>1
    <3>2. W[n] = SCORED <=> n \in open /\ (window = 0 \/ ctx + i - p(n) < window)
      BY <1>10
    <3> QED BY <3>1, <3>2 DEF Attends
  <2>3. ASSUME W[n] = SCORED PROVE D[n] = ContextPosition(lens, ctx + i) - ContextPosition(lens, p(n))
    <3>1. Real(lens, p(n))
      BY <2>2, <2>3 DEF Attends
    <3>2. p(n) \in Nat /\ BlockOf(p(n)) = j + 1
      BY <1>3
    <3>3. ctx + i - (KeyAngle(lens, p(n)) + ForwardRotation(BlockOf(p(n)))) =
             ContextPosition(lens, ctx + i) - ContextPosition(lens, p(n))
      <4>1. \A q \in Nat : q >= DocRegion(lens) =>
               q - (KeyAngle(lens, p(n)) + ForwardRotation(BlockOf(p(n)))) =
                  ContextPosition(lens, q) - ContextPosition(lens, p(n))
        BY <1>1, <3>1, <3>2, TurnClosesGap
      <4>2. PICK q \in Nat : q = ctx + i /\ q >= DocRegion(lens)
        BY <1>1
      <4>3. q - (KeyAngle(lens, p(n)) + ForwardRotation(BlockOf(p(n)))) =
               ContextPosition(lens, q) - ContextPosition(lens, p(n))
        BY <4>1, <4>2
      <4>4. KeyAngle(lens, p(n)) \in Int /\ ForwardRotation(BlockOf(p(n))) \in Int
        BY <1>1, <1>2, <3>2, AngleType
      <4> QED BY <1>1, <4>2, <4>3, <4>4
    <3>4. D[n] = ctx + i - (KeyAngle(lens, p(n)) + ForwardRotation(j + 1))
      BY <1>5
    <3> QED BY <3>2, <3>3, <3>4
  <2> QED BY <2>2, <2>3
<1>13. W[0] # MASKED
  BY <1>0, <1>7, <1>10
<1> QED BY <1>4, <1>10, <1>11, <1>12, <1>13 DEF Describes, p

-----------------------------------------------------------------------------
(* The keys of the kernels, one by one.                                        *)
LEMMA TableSuffices ==
    ASSUME NEW ds \in DocumentSets, NEW n \in Nat, n <= DocRegion(ds) + MaxNew
    PROVE  Len(BlockAt) \in Nat /\ CeilDiv(n, BlockSize) \in 0..Len(BlockAt)
<1>1. Len(BlockAt) \in Nat /\ DocRegion(ds) + MaxNew <= Len(BlockAt) * BlockSize /\ ds \in Seq(Nat)
  BY AttentionAssumption, BlocksSuffice
<1>2. DocRegion(ds) \in Nat /\ MaxNew \in Nat /\ Len(BlockAt) * BlockSize \in Nat
  BY <1>1, LayoutSums, AttentionAssumption
<1>3. CeilDiv(n, BlockSize) \in Nat
  BY Ceil
<1>4. Len(BlockAt) < CeilDiv(n, BlockSize) <=> Len(BlockAt) * BlockSize < n
  BY <1>1, CeilCounts
<1> QED BY <1>1, <1>2, <1>3, <1>4

LEMMA RowFacts ==
    ASSUME RowOK, Running
    PROVE  /\ lens \in Seq(Nat) /\ DocRegion(lens) \in Nat /\ window \in Nat
           /\ seqLen \in Nat /\ chunk \in Nat /\ chunk >= 1
           /\ ctx \in Nat /\ ctx = seqLen - chunk /\ ctx < seqLen /\ ctx >= DocRegion(lens)
           /\ Len(BlockAt) \in Nat /\ NumBlocks \in 0..Len(BlockAt)
           /\ \A k \in Nat : k < NumBlocks <=> k * BlockSize < seqLen
<1>1. /\ lens \in Seq(Nat) /\ window \in Nat /\ seqLen \in Nat /\ chunk \in Nat /\ chunk >= 1
      /\ seqLen - chunk >= DocRegion(lens) /\ lens \in DocumentSets
      /\ seqLen <= DocRegion(lens) + MaxNew
  BY AttentionAssumption DEF RowOK, Running, ctx
<1>2. DocRegion(lens) \in Nat
  BY <1>1, LayoutSums
<1>3. ctx \in Nat /\ ctx = seqLen - chunk /\ ctx < seqLen /\ ctx >= DocRegion(lens)
  BY <1>1, <1>2 DEF ctx
<1>4. Len(BlockAt) \in Nat /\ NumBlocks \in 0..Len(BlockAt)
  BY <1>1, TableSuffices DEF NumBlocks
<1>5. \A k \in Nat : k < NumBlocks <=> k * BlockSize < seqLen
  BY <1>1, CeilCounts DEF NumBlocks
<1> QED BY <1>1, <1>2, <1>3, <1>4, <1>5

LEMMA MinOfTwo ==
    ASSUME NEW a \in Int, NEW b \in Int
    PROVE  Min({a, b}) = IF a <= b THEN a ELSE b
<1>1. CASE a <= b
  <2>1. \A x \in {a, b} : (\A y \in {a, b} : x <= y) <=> x = a
    BY <1>1
  <2> QED BY <1>1, <2>1 DEF Min
<1>2. CASE ~(a <= b)
  <2>1. \A x \in {a, b} : (\A y \in {a, b} : x <= y) <=> x = b
    BY <1>2
  <2> QED BY <1>2, <2>1 DEF Min
<1> QED BY <1>1, <1>2

(* Where the keys of block j + 1 of the context end.                           *)
ContextUpTo == IF (j + 1) * BlockSize < ctx THEN (j + 1) * BlockSize ELSE ctx

LEMMA ContextBlockDescribed ==
    ASSUME RowOK, Running, NEW i \in 0..chunk-1, j \in Nat, j * BlockSize < ctx
    PROVE  /\ Describes(LazyContextKeys(i), i, j * BlockSize, BlockSize, ContextUpTo)
           /\ ~Lazy => Describes(PlainContextKeys(i), i, j * BlockSize, BlockSize, ContextUpTo)
           /\ ContextUpTo \in Nat /\ j * BlockSize <= ContextUpTo
           /\ ContextUpTo <= j * BlockSize + BlockSize
<1> DEFINE p(n) == j * BlockSize + n
           keys == {<<p(n), ctx + i - (KeyAngle(lens, p(n)) + ForwardRotation(j + 1)),
                      Weight(p(n) >= ctx \/ p(n) >= (j + 1) * BlockSize - MaskAt(j + 1),
                             ctx + i - p(n))>> : n \in 0..BlockSize-1}
<1>1. /\ lens \in Seq(Nat) /\ ctx \in Nat /\ seqLen \in Nat /\ ctx < seqLen
      /\ NumBlocks \in 0..Len(BlockAt) /\ Len(BlockAt) \in Nat
      /\ j < NumBlocks <=> j * BlockSize < seqLen
  BY RowFacts
<1>2. /\ BlockSize \in Nat /\ BlockSize >= 1 /\ j * BlockSize \in Nat
      /\ (j + 1) * BlockSize = j * BlockSize + BlockSize
  BY AttentionAssumption
<1>3. j + 1 \in 1..Len(BlockAt) /\ (j + 1) - 1 = j
  BY <1>1, <1>2
<1>4. \A n \in 0..BlockSize-1 : PositionOf(BlockAt[j + 1], n) = p(n) /\ p(n) \in Nat /\ n \in Nat
  BY <1>2, <1>3, PositionInTable
<1>5. ForwardRotation(j + 1) \in Nat /\ MaskAt(j + 1) \in 0..BlockSize-1
      /\ (~Lazy => ForwardRotation(j + 1) = 0 /\ MaskAt(j + 1) = 0)
  <2>1. j + 1 \in Nat /\ j + 1 >= 1
    OBVIOUS
  <2> QED BY <1>1, <2>1, RotationOfBlock DEF MaskAt
<1>6. ContextUpTo \in Nat /\ j * BlockSize <= ContextUpTo /\ ContextUpTo <= j * BlockSize + BlockSize
  BY <1>1, <1>2 DEF ContextUpTo
<1>7. \A n \in 0..BlockSize-1 : p(n) < ctx <=> p(n) < ContextUpTo /\ p(n) <= ctx + i
  BY <1>1, <1>2, <1>4 DEF ContextUpTo
<1>8. Describes(keys, i, j * BlockSize, BlockSize, ContextUpTo)
  BY <1>1, <1>6, <1>7, BlockDescribed
<1>9. LazyContextKeys(i) = keys
  <2>1. ContextEnd(j + 1) = IF ctx <= (j + 1) * BlockSize - MaskAt(j + 1)
                            THEN ctx ELSE (j + 1) * BlockSize - MaskAt(j + 1)
    <3>1. ctx \in Int /\ (j + 1) * BlockSize - MaskAt(j + 1) \in Int
      BY <1>1, <1>2, <1>5
    <3> QED BY <3>1, MinOfTwo DEF ContextEnd
  <2>2. \A n \in 0..BlockSize-1 :
           p(n) >= ContextEnd(j + 1) <=> p(n) >= ctx \/ p(n) >= (j + 1) * BlockSize - MaskAt(j + 1)
    BY <1>1, <1>2, <1>4, <1>5, <2>1
  <2>3. \A n \in 0..BlockSize-1 :
           Weight(p(n) >= ContextEnd(j + 1), ctx + i - p(n))
              = Weight(p(n) >= ctx \/ p(n) >= (j + 1) * BlockSize - MaskAt(j + 1), ctx + i - p(n))
    BY <2>2 DEF Weight
  <2>4. LazyContextKeys(i) =
           {<<p(n), ctx + i - (KeyAngle(lens, p(n)) + ForwardRotation(j + 1)),
              Weight(p(n) >= ContextEnd(j + 1), ctx + i - p(n))>> : n \in 0..BlockSize-1}
    BY <1>4 DEF LazyContextKeys
  <2> HIDE DEF p
  <2> QED BY <2>3, <2>4
<1>10. ASSUME ~Lazy PROVE PlainContextKeys(i) = keys
  <2>1. \A n \in 0..BlockSize-1 :
           p(n) >= ctx <=> p(n) >= ctx \/ p(n) >= (j + 1) * BlockSize - MaskAt(j + 1)
    BY <1>1, <1>2, <1>4, <1>5, <1>10
  <2>2. \A n \in 0..BlockSize-1 :
           Weight(p(n) >= ctx, ctx + i - p(n))
              = Weight(p(n) >= ctx \/ p(n) >= (j + 1) * BlockSize - MaskAt(j + 1), ctx + i - p(n))
    BY <2>1 DEF Weight
  <2>3. \A n \in 0..BlockSize-1 :
           ctx + i - KeyAngle(lens, p(n)) = ctx + i - (KeyAngle(lens, p(n)) + ForwardRotation(j + 1))
    <3> TAKE n \in 0..BlockSize-1
    <3>1. KeyAngle(lens, p(n)) \in Int
      BY <1>1, <1>4, AngleType
    <3> QED BY <1>5, <1>10, <3>1
  <2>4. PlainContextKeys(i) =
           {<<p(n), ctx + i - KeyAngle(lens, p(n)), Weight(p(n) >= ctx, ctx + i - p(n))>> :
               n \in 0..BlockSize-1}
    BY <1>4 DEF PlainContextKeys
  <2> HIDE DEF p
  <2> QED BY <2>2, <2>3, <2>4
<1> QED BY <1>6, <1>8, <1>9, <1>10

LEMMA OwnTileDescribed ==
    ASSUME RowOK, Running, NEW i \in 0..chunk-1, own \in Nat
    PROVE  Describes(OwnKeys(i), i, ctx + own, TileN, ctx + own + TileN)
<1> DEFINE D == [n \in 0..TileN-1 |-> i - (own + n)]
           W == [n \in 0..TileN-1 |-> Weight(own + n > i, i - (own + n))]
<1>1. /\ lens \in Seq(Nat) /\ DocRegion(lens) \in Nat /\ ctx \in Nat /\ window \in Nat
      /\ ctx >= DocRegion(lens) /\ chunk \in Nat /\ i \in Nat /\ DocTokens(lens) \in Nat
  BY RowFacts, LayoutSums
<1>2. TileN \in Nat /\ TileN >= 1 /\ 0 \in 0..TileN-1
  BY AttentionAssumption
<1>3. OwnKeys(i) = Slots(ctx + own, TileN, D, W)
  <2>1. ASSUME NEW n \in own .. own + TileN - 1
        PROVE  /\ n - own \in 0..TileN-1
               /\ <<ctx + n, i - n, Weight(n > i, i - n)>>
                     = <<ctx + own + (n - own), D[n - own], W[n - own]>>
    <3>1. n - own \in 0..TileN-1 /\ own + (n - own) = n /\ ctx + own + (n - own) = ctx + n
      BY <1>1, <1>2
    <3>2. D[n - own] = i - n /\ W[n - own] = Weight(n > i, i - n)
      BY <3>1
    <3> QED BY <3>1, <3>2
  <2>2. ASSUME NEW n \in 0..TileN-1
        PROVE  /\ own + n \in own .. own + TileN - 1
               /\ <<ctx + own + n, D[n], W[n]>>
                     = <<ctx + (own + n), i - (own + n), Weight(own + n > i, i - (own + n))>>
    <3>1. own + n \in own .. own + TileN - 1 /\ ctx + own + n = ctx + (own + n)
      BY <1>1, <1>2
    <3> QED BY <3>1
  <2> HIDE DEF D, W
  <2>3. OwnKeys(i) \subseteq Slots(ctx + own, TileN, D, W)
    BY <2>1 DEF OwnKeys, Slots
  <2>4. Slots(ctx + own, TileN, D, W) \subseteq OwnKeys(i)
    BY <2>2 DEF OwnKeys, Slots
  <2> QED BY <2>3, <2>4
<1>4. ASSUME NEW n \in 0..TileN-1
      PROVE  /\ D[n] = i - (own + n) /\ D[n] \in Int /\ W[n] \in MASKED..SCORED
             /\ own + n <= i => W[n] # MASKED
             /\ W[n] = SCORED <=> own + n <= i /\ (window = 0 \/ i - (own + n) < window)
  <2>1. own + n \in Nat /\ i - (own + n) \in Int /\ (own + n > i) \in BOOLEAN
    BY <1>1, <1>2
  <2>2. W[n] = Weight(own + n > i, i - (own + n)) /\ D[n] = i - (own + n)
    OBVIOUS
  <2>3. own + n <= i <=> ~(own + n > i)
    BY <1>1, <2>1
  <2> HIDE DEF W, D
  <2> QED BY <1>1, <2>1, <2>2, <2>3, Weights
<1>5. own = 0 => W[0] # MASKED
  <2>1. own = 0 => own + 0 <= i
    BY <1>1
  <2> HIDE DEF W
  <2> QED BY <1>2, <1>4, <2>1
<1> HIDE DEF D, W
<1>6. ASSUME NEW n \in 0..TileN-1
      PROVE  /\ W[n] = SCORED <=> ctx + own + n < ctx + own + TileN /\ Attends(i, ctx + own + n)
             /\ D[n] = ContextPosition(lens, ctx + i) - ContextPosition(lens, ctx + own + n)
  <2> DEFINE p == ctx + own + n
             q == ctx + i
  <2>1. /\ p \in Nat /\ q \in Nat /\ p >= DocRegion(lens) /\ q >= DocRegion(lens)
        /\ p < ctx + own + TileN /\ (p <= q <=> own + n <= i) /\ q - p = i - (own + n)
    BY <1>1, <1>2
  <2> HIDE DEF p, q
  <2>2. /\ Real(lens, p) /\ ContextPosition(lens, p) = DocTokens(lens) + p - DocRegion(lens)
        /\ ContextPosition(lens, q) = DocTokens(lens) + q - DocRegion(lens)
    BY <1>1, <2>1, BehindDocuments
  <2>3. D[n] = ContextPosition(lens, q) - ContextPosition(lens, p)
    <3>1. ContextPosition(lens, q) - ContextPosition(lens, p) = q - p
      BY <1>1, <2>1, <2>2
    <3>2. D[n] = i - (own + n)
      BY <1>4
    <3> QED BY <2>1, <3>1, <3>2
  <2>4. Attends(i, p) <=> own + n <= i /\ (window = 0 \/ i - (own + n) < window)
    <3>1. Attends(i, p) <=> p <= q /\ Real(lens, p) /\ (window = 0 \/ q - p < window)
      BY <1>1, <2>1 DEF Attends, q
    <3> QED BY <2>1, <2>2, <3>1
  <2>5. W[n] = SCORED <=> own + n <= i /\ (window = 0 \/ i - (own + n) < window)
    BY <1>4
  <2>6. W[n] = SCORED <=> p < ctx + own + TileN /\ Attends(i, p)
    BY <2>1, <2>4, <2>5
  <2> QED BY <2>3, <2>6 DEF p, q
<1> QED BY <1>3, <1>4, <1>5, <1>6 DEF Describes

(* A block as the decode kernel sees it, for the one token of the row.         *)
LEMMA DecodeBlockDescribed ==
    ASSUME RowOK, Running, chunk = 1, j \in Nat, j < NumBlocks, NEW r, NEW mask,
           r = ForwardRotation(j + 1), mask = MaskAt(j + 1)
    PROVE  Describes(BlockKeys(BlockAt[j + 1], r, mask), 0, j * BlockSize, BlockSize, (j + 1) * BlockSize)
<1> DEFINE p(n) == j * BlockSize + n
           keys == {<<p(n), ctx + 0 - (KeyAngle(lens, p(n)) + ForwardRotation(j + 1)),
                      Weight(p(n) >= seqLen \/ p(n) >= (j + 1) * BlockSize - MaskAt(j + 1),
                             ctx + 0 - p(n))>> : n \in 0..BlockSize-1}
<1>1. /\ lens \in Seq(Nat) /\ ctx \in Nat /\ seqLen \in Nat /\ ctx = seqLen - 1
      /\ NumBlocks \in 0..Len(BlockAt) /\ Len(BlockAt) \in Nat /\ j * BlockSize < seqLen
  BY RowFacts
<1>2. /\ BlockSize \in Nat /\ BlockSize >= 1 /\ j * BlockSize \in Nat /\ (j + 1) * BlockSize \in Nat
      /\ (j + 1) * BlockSize = j * BlockSize + BlockSize
  BY AttentionAssumption
<1>3. j + 1 \in 1..Len(BlockAt) /\ (j + 1) - 1 = j
  BY <1>1
<1>4. \A n \in 0..BlockSize-1 : PositionOf(BlockAt[j + 1], n) = p(n) /\ p(n) \in Nat /\ n \in Nat
  BY <1>2, <1>3, PositionInTable
<1>5. r \in Nat /\ mask \in 0..BlockSize-1
  <2>1. j + 1 \in Nat /\ j + 1 >= 1
    OBVIOUS
  <2> QED BY <1>1, <2>1, RotationOfBlock
<1>6. \A n \in 0..BlockSize-1 : p(n) < seqLen <=> p(n) < (j + 1) * BlockSize /\ p(n) <= ctx + 0
  BY <1>1, <1>2, <1>4
<1>7. Describes(keys, 0, j * BlockSize, BlockSize, (j + 1) * BlockSize)
  <2>1. 0 \in 0..chunk-1
    OBVIOUS
  <2> QED BY <1>1, <1>2, <1>6, <2>1, BlockDescribed
<1>8. BlockKeys(BlockAt[j + 1], r, mask) = keys
  <2>1. \A n \in 0..BlockSize-1 :
           (p(n) >= seqLen \/ n >= BlockSize - mask)
              <=> (p(n) >= seqLen \/ p(n) >= (j + 1) * BlockSize - MaskAt(j + 1))
    <3> TAKE n \in 0..BlockSize-1
    <3>1. PICK a \in Nat : a = j * BlockSize
      BY <1>2
    <3>2. \A m \in 0..BlockSize-1 : n >= BlockSize - m <=> a + n >= (a + BlockSize) - m
      BY <1>2
    <3> QED BY <1>2, <1>5, <3>1, <3>2
  <2>2. \A n \in 0..BlockSize-1 : seqLen - 1 - p(n) = ctx + 0 - p(n)
    BY <1>1, <1>4
  <2>3. \A n \in 0..BlockSize-1 :
           Weight(p(n) >= seqLen \/ n >= BlockSize - mask, seqLen - 1 - p(n))
              = Weight(p(n) >= seqLen \/ p(n) >= (j + 1) * BlockSize - MaskAt(j + 1), ctx + 0 - p(n))
    BY <2>1, <2>2 DEF Weight
  <2>4. \A n \in 0..BlockSize-1 :
           seqLen - 1 - r - KeyAngle(lens, p(n))
              = ctx + 0 - (KeyAngle(lens, p(n)) + ForwardRotation(j + 1))
    <3> TAKE n \in 0..BlockSize-1
    <3>1. KeyAngle(lens, p(n)) \in Int
      BY <1>1, <1>4, AngleType
    <3> QED BY <1>1, <1>5, <3>1
  <2>5. BlockKeys(BlockAt[j + 1], r, mask) =
           {<<p(n), seqLen - 1 - r - KeyAngle(lens, p(n)),
              Weight(p(n) >= seqLen \/ n >= BlockSize - mask, seqLen - 1 - p(n))>> : n \in 0..BlockSize-1}
    BY <1>4 DEF BlockKeys
  <2> HIDE DEF p
  <2> QED BY <2>3, <2>4, <2>5
<1> QED BY <1>7, <1>8

-----------------------------------------------------------------------------
(* What the steps do to the keys that are kept.                                *)
LEMMA SeenKept ==
    ASSUME UNCHANGED <<lens, window, seqLen, chunk>>
    PROVE  \A i, n : Seen(i, n)' = Seen(i, n) /\ WithDistance(i, Seen(i, n))' = WithDistance(i, Seen(i, n))
<1>1. \A i, p : Attends(i, p)' <=> Attends(i, p)
  BY DEF Attends, ctx
<1>2. \A i, n : Seen(i, n)' = Seen(i, n)
  BY <1>1 DEF Seen
<1>3. \A i, n : WithDistance(i, Seen(i, n))' = WithDistance(i, Seen(i, n))
  BY <1>2 DEF WithDistance, ctx
<1> QED BY <1>2, <1>3

(* Another set of keys meets the running maximum of each token.                *)
LEMMA AccumulateStep ==
    ASSUME KeysOK, phase \in {"prefill", "decode"}, j \in Nat, own \in Nat,
           NEW K, NEW len \in Nat, len >= 1, NEW m \in Nat,
           Visited \in Nat, Visited <= m, m <= Visited + len,
           level' = [i \in DOMAIN level |-> Top(i, K[i])],
           attended' = [i \in DOMAIN level |-> Kept(i, K[i])],
           \A i \in DOMAIN level : Describes(K[i], i, Visited, len, m),
           UNCHANGED <<rowVars, phase, out>>
    PROVE  /\ KeysOK'
           /\ NonEmpty(lens) /\ SoftmaxOK /\ Visited' = m => SoftmaxOK'
<1>1. DOMAIN level' = DOMAIN level /\ DOMAIN attended' = DOMAIN level
  OBVIOUS
<1>2. ASSUME NEW i \in DOMAIN level
      PROVE  /\ level'[i] = Top(i, K[i]) /\ attended'[i] = Kept(i, K[i])
             /\ level'[i] \in MASKED..SCORED /\ attended'[i] \subseteq Nat \X Int
             /\ level'[i] # MASKED
  <2>1. level'[i] = Top(i, K[i]) /\ attended'[i] = Kept(i, K[i])
    OBVIOUS
  <2>2. level[i] \in MASKED..SCORED /\ attended[i] \subseteq Nat \X Int
    BY DEF KeysOK
  <2>3. /\ Top(i, K[i]) \in MASKED..SCORED
        /\ Kept(i, K[i]) \subseteq Nat \X Int
        /\ own = 0 \/ level[i] # MASKED => Top(i, K[i]) # MASKED
    BY <2>2, KeysMeet
  <2>4. own = 0 \/ level[i] # MASKED
    <3>1. own # 0 => j + own > 0
      OBVIOUS
    <3> QED BY <3>1 DEF KeysOK
  <2> QED BY <2>1, <2>3, <2>4
<1>3. \A i \in DOMAIN out' : out'[i] \in Seq(SUBSET (Nat \X Int))
  BY DEF KeysOK
<1>4. KeysOK'
  <2>1. \A i \in DOMAIN level' : level'[i] \in MASKED..SCORED /\ attended'[i] \subseteq Nat \X Int
    BY <1>1, <1>2
  <2>2. \A i \in DOMAIN level' : level'[i] # MASKED
    BY <1>1, <1>2
  <2> QED BY <1>1, <1>3, <2>1, <2>2 DEF KeysOK
<1>5. ASSUME NonEmpty(lens), SoftmaxOK, Visited' = m PROVE SoftmaxOK'
  <2>1. UNCHANGED <<lens, window, seqLen, chunk>>
    BY DEF rowVars
  <2>2. ASSUME NEW i \in DOMAIN level' PROVE Summary(i, m)'
    <3>1. i \in DOMAIN level /\ level[i] \in MASKED..SCORED /\ Summary(i, Visited)
      BY <1>1, <1>5, <2>2 DEF KeysOK, SoftmaxOK
    <3>2. /\ Top(i, K[i]) = SCORED <=> Seen(i, m) # {}
          /\ Top(i, K[i]) = SCORED => Kept(i, K[i]) = WithDistance(i, Seen(i, m))
      BY <1>5, <3>1, SummaryStep
    <3>3. Seen(i, m)' = Seen(i, m) /\ WithDistance(i, Seen(i, m))' = WithDistance(i, Seen(i, m))
      BY <2>1, SeenKept
    <3> QED BY <1>2, <3>1, <3>2, <3>3 DEF Summary
  <2> QED BY <1>5, <2>2 DEF SoftmaxOK
<1> QED BY <1>4, <1>5

(* A program starts with nothing.                                              *)
LEMMA FreshStep ==
    ASSUME NEW tokens, Fresh(tokens), ctx' \in Nat,
           \A i \in DOMAIN out' : out'[i] \in Seq(SUBSET (Nat \X Int))
    PROVE  KeysOK' /\ SoftmaxOK'
<1>1. /\ level' = [i \in tokens |-> MASKED] /\ attended' = [i \in tokens |-> {}]
      /\ j' = 0 /\ own' = 0
  BY DEF Fresh
<1>2. /\ \A i \in DOMAIN level' : level'[i] = MASKED /\ attended'[i] = {}
      /\ DOMAIN attended' = DOMAIN level'
  BY <1>1
<1>3. MASKED \in MASKED..SCORED /\ MASKED # SCORED
  BY DEF MASKED, SCORED
<1>6. KeysOK'
  BY <1>1, <1>2, <1>3 DEF KeysOK
<1>7. Visited' = 0
  <2>1. j' * BlockSize = 0
    BY <1>1, AttentionAssumption
  <2>2. (phase' = "prefill" /\ j' * BlockSize >= ctx') => ctx' + own' = 0
    <3>1. \A c \in Nat : 0 >= c => c + 0 = 0
      OBVIOUS
    <3> QED BY <1>1, <2>1, <3>1
  <2> QED BY <2>1, <2>2 DEF Visited
<1>8. \A i : Seen(i, 0)' = {}
  BY DEF Seen
<1>9. SoftmaxOK'
  BY <1>2, <1>3, <1>7, <1>8 DEF SoftmaxOK, Summary
<1> QED BY <1>6, <1>9

-----------------------------------------------------------------------------
(* The row and its packed table.                                               *)
LEMMA EntryFields ==
    ASSUME lens \in Seq(Nat), ~(MaxRotationOffset(lens) > MAX_PACKED_Q_OFFSET),
           NEW k \in 1..Len(BlockAt)
    PROVE  /\ PackedEntry(k) \in Nat /\ BlockField(PackedEntry(k)) = BlockAt[k]
           /\ OffsetField(PackedEntry(k)) = OffsetAt(k) /\ MaskField(PackedEntry(k)) = MaskAt(k)
           /\ OffsetAt(k) \in 0..MAX_PACKED_Q_OFFSET
<1>1. k \in Nat /\ k >= 1 /\ BlockAt[k] \in Nat /\ MetadataLen(lens) \in Nat
  BY AttentionAssumption, MetadataBlocks
<1>2. 0 \in 0..MAX_PACKED_Q_OFFSET
  BY AttentionAssumption DEF MAX_PACKED_Q_OFFSET
<1>3. k <= MetadataLen(lens) =>
         QOffset(lens, k) \in 1..MAX_PACKED_Q_OFFSET /\ QMask(lens, k) \in 0..MAX_PACKED_Q_OFFSET
  BY <1>1, AdmissionBounds
<1>4. OffsetAt(k) \in 0..MAX_PACKED_Q_OFFSET /\ MaskAt(k) \in 0..MAX_PACKED_Q_OFFSET
  <2>1. MAX_PACKED_Q_OFFSET \in Int
    BY AttentionAssumption DEF MAX_PACKED_Q_OFFSET
  <2> QED BY <1>2, <1>3, <2>1 DEF OffsetAt, MaskAt
<1> QED BY <1>1, <1>4, Fields DEF PackedEntry

LEMMA EntryKept ==
    ASSUME lens' = lens
    PROVE  \A k : PackedEntry(k)' = PackedEntry(k)
BY DEF PackedEntry, OffsetAt, MaskAt, Lazy

LEMMA RowKept ==
    ASSUME RowOK, PackedOK, UNCHANGED <<rowVars, launchVars>>,
           phase' = phase \/ (Running /\ phase' \in {"prefill", "decode", "done", "ready"})
    PROVE  RowOK' /\ PackedOK'
<1>1. UNCHANGED <<lens, window, seqLen, chunk, packed, maxQuery, lazyOnly>>
  BY DEF rowVars, launchVars
<1>2. ctx' = ctx /\ Lazy' = Lazy /\ NumBlocks' = NumBlocks
  BY <1>1 DEF ctx, Lazy, NumBlocks
<1>3. Running' => Running \/ phase' = phase
  BY DEF Running
<1>4. Running' => Running
  BY <1>3 DEF Running
<1>5. phase' = "new" <=> phase = "new"
  BY DEF Running
<1>6. Admitted' <=> Admitted
  BY DEF Running, Admitted
<1>7. phase' \in {"new", "refused", "ready", "prefill", "decode", "done"}
  BY DEF RowOK
<1>8. RowOK'
  BY <1>1, <1>2, <1>4, <1>5, <1>6, <1>7 DEF RowOK
<1>9. PackedOK'
  <2>1. [k \in 1..Len(packed') |-> PackedEntry(k)'] = [k \in 1..Len(packed) |-> PackedEntry(k)]
    BY <1>1, EntryKept
  <2>2. phase' \in {"new", "refused"} => phase \in {"new", "refused"}
    BY <1>6, <1>7 DEF Admitted
  <2> QED BY <1>1, <1>2, <1>4, <2>1, <2>2 DEF PackedOK
<1> QED BY <1>8, <1>9

LEMMA RowArrives ==
    ASSUME RowOK, PackedOK, Arrive
    PROVE  RowOK' /\ PackedOK'
<1>1. /\ phase = "new" /\ lens' \in DocumentSets /\ window' \in Windows /\ seqLen' = DocRegion(lens')
      /\ phase' = IF MaxRotationOffset(lens') > MAX_PACKED_Q_OFFSET THEN "refused" ELSE "ready"
      /\ UNCHANGED <<chunk, packed, maxQuery, lazyOnly>>
  BY DEF Arrive, launchVars
<1>2. lens' \in Seq(Nat) /\ window' \in Nat /\ MaxNew \in Nat
  BY <1>1, AttentionAssumption
<1>3. DocRegion(lens') \in Nat
  BY <1>2, LayoutSums
<1>4. phase' \in {"refused", "ready"} /\ phase' # "new"
  BY <1>1
<1>5. ~Running' /\ (Admitted' => ~(MaxRotationOffset(lens') > MAX_PACKED_Q_OFFSET))
  BY <1>1, <1>4 DEF Running, Admitted
<1>6. RowOK'
  BY <1>1, <1>2, <1>3, <1>4, <1>5 DEF RowOK
<1>7. packed = <<>> /\ packed' = <<>>
  BY <1>1 DEF PackedOK
<1>8. <<>> \in Seq(Nat) /\ <<>> = [k \in 1..Len(<<>>) |-> PackedEntry(k)']
  OBVIOUS
<1>9. PackedOK'
  BY <1>5, <1>7, <1>8 DEF PackedOK
<1> QED BY <1>6, <1>9

LEMMA RowPrepared ==
    ASSUME RowOK, PackedOK, PrepareInputs
    PROVE  RowOK' /\ PackedOK'
<1>1. /\ phase = "ready" /\ chunk' \in 1..MaxNew /\ seqLen' = seqLen + chunk'
      /\ seqLen' <= DocRegion(lens) + MaxNew
      /\ maxQuery' \in {chunk', MaxNew} /\ lazyOnly' \in DecodeKernels
      /\ packed' = IF Len(packed) # NumBlocks'
                   THEN [k \in 1..NumBlocks' |-> PackedEntry(k)] ELSE packed
      /\ phase' \in {"prefill", "decode"} /\ lens' = lens /\ window' = window
  BY DEF PrepareInputs
<1>2. /\ lens \in Seq(Nat) /\ lens \in DocumentSets /\ window \in Nat /\ seqLen \in Nat
      /\ DocRegion(lens) <= seqLen /\ ~(MaxRotationOffset(lens) > MAX_PACKED_Q_OFFSET)
  BY <1>1 DEF RowOK, Admitted
<1>3. DocRegion(lens) \in Nat /\ MaxNew \in Nat
  BY <1>2, LayoutSums, AttentionAssumption
<1>a. /\ chunk' \in 1..MaxNew /\ seqLen' = seqLen + chunk' /\ maxQuery' \in {chunk', MaxNew}
      /\ seqLen \in Nat /\ MaxNew \in Nat
  BY <1>1, <1>2, <1>3
<1>b. \A n, c \in Nat : n + c \in Nat /\ (n + c) - c = n
  OBVIOUS
<1>c. chunk' \in 0..MaxNew /\ chunk' \in Nat /\ chunk' >= 1 /\ maxQuery' \in 0..MaxNew
  <2>1. chunk' \in 1..MaxNew /\ MaxNew \in Nat /\ maxQuery' \in {chunk', MaxNew}
    BY <1>a
  <2> QED BY <2>1
<1>d. seqLen' \in Nat /\ seqLen' - chunk' = seqLen
  BY <1>a, <1>b, <1>c, Zenon
<1>4. chunk' \in 0..MaxNew /\ seqLen' \in Nat /\ chunk' >= 1 /\ maxQuery' \in 0..MaxNew
  BY <1>c, <1>d
<1>5. ctx' = seqLen
  BY <1>d DEF ctx
<1>6. lazyOnly' \in BOOLEAN /\ (lazyOnly' => Lazy')
  BY <1>1 DEF DecodeKernels, Lazy
<1>7. RowOK'
  <2>1. DocRegion(lens') <= seqLen' /\ seqLen' <= DocRegion(lens') + MaxNew
    BY <1>1, <1>2, <1>3
  <2>2. ctx' >= DocRegion(lens')
    BY <1>1, <1>2, <1>3, <1>5
  <2> QED BY <1>1, <1>2, <1>4, <1>6, <2>1, <2>2 DEF RowOK
<1>8. Len(BlockAt) \in Nat /\ NumBlocks' \in 0..Len(BlockAt)
  BY <1>1, <1>2, <1>4, TableSuffices DEF NumBlocks
<1>9. packed' = [k \in 1..NumBlocks' |-> PackedEntry(k)]
  BY <1>1 DEF PackedOK
<1>10. \A k \in 1..NumBlocks' : PackedEntry(k) \in Nat
  BY <1>2, <1>8, EntryFields
<1>11. packed' \in Seq(Nat) /\ Len(packed') = NumBlocks'
  BY <1>8, <1>9, <1>10
<1>12. packed' = [k \in 1..Len(packed') |-> PackedEntry(k)']
  BY <1>1, <1>9, <1>11, EntryKept
<1>13. phase' \notin {"new", "refused"}
  BY <1>1
<1> QED BY <1>7, <1>11, <1>12, <1>13 DEF PackedOK

(* Any other step leaves the row alone and goes from one kernel to the next.   *)
Onward == phase' = phase \/ (Running /\ phase' \in {"prefill", "decode", "done", "ready"})

LEMMA OtherSteps ==
    ASSUME [Next]_vars
    PROVE  Arrive \/ PrepareInputs \/ (UNCHANGED <<rowVars, launchVars>> /\ Onward)
<1>1. ASSUME PrefillSkips \/ LazyStoreTile \/ PlainStoreTile
      PROVE  UNCHANGED <<rowVars, launchVars>> /\ Onward
  BY <1>1 DEF PrefillSkips, LazyStoreTile, PlainStoreTile, EndProgram, Onward, Running
<1>2. ASSUME LazyContextBlock \/ PlainContextBlock \/ LazyOwnTile \/ PlainOwnTile
      PROVE  UNCHANGED <<rowVars, launchVars>> /\ Onward
  BY <1>2 DEF LazyContextBlock, PlainContextBlock, LazyOwnTile, PlainOwnTile, Onward
<1>3. ASSUME VisitBlock \/ LazyOnlyVisitBlock \/ PlainVisitBlock
      PROVE  UNCHANGED <<rowVars, launchVars>> /\ Onward
  BY <1>3 DEF VisitBlock, LazyOnlyVisitBlock, VisitLazyBlock, PlainVisitBlock, Onward
<1>4. ASSUME DecodeSkips \/ StoreToken \/ NextStep
      PROVE  UNCHANGED <<rowVars, launchVars>> /\ Onward
  BY <1>4 DEF DecodeSkips, StoreToken, NextStep, Onward, Running
<1>5. ASSUME UNCHANGED vars PROVE UNCHANGED <<rowVars, launchVars>> /\ Onward
  BY <1>5 DEF vars, Onward
<1> QED BY <1>1, <1>2, <1>3, <1>4, <1>5 DEF Next

LEMMA RowStep ==
    ASSUME RowOK, PackedOK, [Next]_vars
    PROVE  RowOK' /\ PackedOK'
BY OtherSteps, RowArrives, RowPrepared, RowKept DEF Onward

-----------------------------------------------------------------------------
(* How far the query is turned when the decode kernel has visited a block.     *)
LEMMA VisitTurns ==
    ASSUME RowOK, PackedOK, TurnOK, phase = "decode", j < NumBlocks, Lazy, VisitLazyBlock
    PROVE  /\ prev' = OffsetAt(j + 1) /\ rot' = ForwardRotation(j + 1)
           /\ prev' \in 0..MAX_PACKED_Q_OFFSET /\ rot' \in 0..MAX_PACKED_Q_OFFSET
           /\ BlockField(packed[j + 1]) = BlockAt[j + 1] /\ MaskField(packed[j + 1]) = MaskAt(j + 1)
<1>0. Running /\ Admitted
  BY DEF Running, Admitted
<1>1. /\ lens \in Seq(Nat) /\ NumBlocks \in 0..Len(BlockAt) /\ Len(BlockAt) \in Nat /\ j \in Nat
      /\ ~(MaxRotationOffset(lens) > MAX_PACKED_Q_OFFSET)
  BY <1>0, RowFacts DEF RowOK, TurnOK
<1>2. j + 1 \in 1..Len(BlockAt) /\ j + 1 \in 1..NumBlocks /\ j + 1 \in Nat /\ j + 1 >= 1
  BY <1>1
<1>3. packed[j + 1] = PackedEntry(j + 1)
  BY <1>0, <1>2 DEF PackedOK
<1> DEFINE o == OffsetAt(j + 1)
<1>4. /\ BlockField(packed[j + 1]) = BlockAt[j + 1] /\ MaskField(packed[j + 1]) = MaskAt(j + 1)
      /\ OffsetField(packed[j + 1]) = o /\ o \in 0..MAX_PACKED_Q_OFFSET
  BY <1>1, <1>2, <1>3, EntryFields
<1>5. prev' = o /\ rot' = IF o \in {0, prev} THEN rot ELSE o - 1
  BY <1>4 DEF VisitLazyBlock, RotationAfter
<1>6. IF j = 0 THEN prev = -1 /\ rot = 0 ELSE prev = OffsetAt(j) /\ rot = ForwardRotation(j)
  BY DEF TurnOK
<1>7. ForwardRotation(j + 1) = IF o # 0 THEN o - 1 ELSE 0
  BY DEF ForwardRotation
<1>8. CASE o = 0
  <2>1. MetadataLen(lens) \in Nat /\ MetadataLen(lens) >= 1
    BY <1>1, MetadataBlocks
  <2>2. j + 1 > MetadataLen(lens)
    <3>1. SUFFICES ASSUME j + 1 <= MetadataLen(lens) PROVE FALSE
      BY <1>2, <2>1
    <3>2. o = QOffset(lens, j + 1) /\ j + 1 \in 1..MetadataLen(lens)
      BY <1>2, <2>1, <3>1 DEF OffsetAt
    <3> QED BY <1>1, <1>8, <3>2, OffsetBounds
  <2>3. j >= 1 /\ j >= MetadataLen(lens)
    BY <1>1, <2>1, <2>2
  <2>4. ForwardRotation(j) = IF j <= MetadataLen(lens) THEN QOffset(lens, j) - 1 ELSE 0
    BY <1>1, <2>3, RotationOfBlock
  <2>5. j <= MetadataLen(lens) => QOffset(lens, j) = 1
    BY <1>1, <2>1, <2>3 DEF QOffset
  <2>6. rot = 0
    BY <1>1, <1>6, <2>3, <2>4, <2>5
  <2> QED BY <1>4, <1>5, <1>7, <1>8, <2>6
<1>9. CASE o # 0 /\ o = prev
  <2>1. j # 0
    BY <1>4, <1>6, <1>9
  <2>2. rot = ForwardRotation(j) /\ OffsetAt(j) = o
    BY <1>6, <1>9, <2>1
  <2>3. rot = o - 1
    BY <1>9, <2>2 DEF ForwardRotation
  <2>4. o - 1 \in 0..MAX_PACKED_Q_OFFSET
    BY <1>4, <1>9, AttentionAssumption DEF MAX_PACKED_Q_OFFSET
  <2> QED BY <1>4, <1>5, <1>7, <1>9, <2>3, <2>4
<1>10. CASE o # 0 /\ o # prev
  <2>1. o - 1 \in 0..MAX_PACKED_Q_OFFSET
    BY <1>4, <1>10, AttentionAssumption DEF MAX_PACKED_Q_OFFSET
  <2> QED BY <1>4, <1>5, <1>7, <1>10, <2>1
<1> QED BY <1>8, <1>9, <1>10

LEMMA NumBlocksType ==
    ASSUME seqLen' \in Nat
    PROVE  NumBlocks' \in Nat
BY Ceil DEF NumBlocks

LEMMA FreshTurns ==
    ASSUME RowOK', NEW tokens, Fresh(tokens), tile' \in Nat, phase' \in {"prefill", "decode"}
    PROVE  TurnOK'
<1>1. NumBlocks' \in Nat
  BY NumBlocksType DEF RowOK
<1>2. MAX_PACKED_Q_OFFSET \in Nat
  BY AttentionAssumption DEF MAX_PACKED_Q_OFFSET
<1>3. j' = 0 /\ own' = 0 /\ prev' = -1 /\ rot' = 0
  BY DEF Fresh
<1>4. j' \in 0..NumBlocks' /\ prev' \in -1..MAX_PACKED_Q_OFFSET /\ rot' \in 0..MAX_PACKED_Q_OFFSET
  BY <1>1, <1>2, <1>3
<1> QED BY <1>3, <1>4 DEF TurnOK

(* How far the loops are.                                                      *)
LEMMA BlocksAhead ==
    ASSUME RowOK, TurnOK, phase = "prefill", j * BlockSize < ctx
    PROVE  j \in Nat /\ own = 0 /\ j + 1 \in 0..NumBlocks
<1>1. Running
  BY DEF Running
<1>2. NumBlocks \in Nat /\ j \in Nat /\ own = 0
  BY <1>1, RowFacts DEF TurnOK
<1>3. j * BlockSize < seqLen
  <2>1. j * BlockSize \in Nat /\ ctx \in Nat /\ seqLen \in Nat /\ ctx < seqLen
    BY <1>1, <1>2, RowFacts, AttentionAssumption
  <2> QED BY <2>1
<1>4. j < NumBlocks
  BY <1>1, <1>2, <1>3, RowFacts
<1> QED BY <1>2, <1>4

LEMMA ProgramsTurn ==
    ASSUME TilesOK, TurnOK, RowOK', EndProgram, phase = "prefill"
    PROVE  TurnOK'
<1>1. tile \in Nat /\ tile + 1 \in Nat
  BY DEF TilesOK
<1>2. CASE (tile + 1) * TileM < maxQuery
  <2>1. tile' = tile + 1 /\ phase' = phase /\ Fresh(TileTokens(tile + 1))
    BY <1>2 DEF EndProgram
  <2> QED BY <1>1, <2>1, FreshTurns
<1>3. CASE ~((tile + 1) * TileM < maxQuery)
  <2>1. tile' = tile /\ phase' = "decode" /\ Fresh({0})
    BY <1>3 DEF EndProgram
  <2> QED BY <1>1, <2>1, FreshTurns
<1> QED BY <1>2, <1>3

LEMMA TurnStep ==
    ASSUME TilesOK, RowOK, PackedOK, TurnOK, [Next]_vars
    PROVE  TurnOK'
<1>0. RowOK'
  BY RowStep
<1>1. CASE Arrive
  <2>1. /\ phase = "new" /\ phase' \in {"refused", "ready"}
        /\ UNCHANGED <<tile, j, own, prev, rot, out>>
    BY <1>1 DEF Arrive
  <2>2. NumBlocks' \in Nat
    BY <1>0, NumBlocksType DEF RowOK
  <2>3. j' \in 0..NumBlocks'
    BY <2>1, <2>2 DEF TurnOK
  <2> QED BY <2>1, <2>3 DEF TurnOK
<1>2. CASE PrepareInputs
  <2>1. /\ tile' = 0 /\ phase' \in {"prefill", "decode"}
        /\ Fresh(IF LaunchPrefill(maxQuery') THEN TileTokens(0)' ELSE {0})
    BY <1>2 DEF PrepareInputs
  <2> QED BY <1>0, <2>1, FreshTurns
<1>3. CASE PrefillSkips \/ LazyStoreTile \/ PlainStoreTile
  <2>1. EndProgram /\ phase = "prefill"
    BY <1>3 DEF PrefillSkips, LazyStoreTile, PlainStoreTile
  <2> QED BY <1>0, <2>1, ProgramsTurn
<1>4. CASE LazyContextBlock \/ PlainContextBlock
  <2>1. /\ phase = "prefill" /\ j * BlockSize < ctx /\ j' = j + 1
        /\ UNCHANGED <<rowVars, phase, tile, own, prev, rot>>
    BY <1>4 DEF LazyContextBlock, PlainContextBlock
  <2>2. j' \in 0..NumBlocks' /\ own' = 0
    <3>1. own = 0 /\ j + 1 \in 0..NumBlocks
      BY <2>1, BlocksAhead
    <3>2. NumBlocks' = NumBlocks
      BY <2>1 DEF rowVars, NumBlocks
    <3> QED BY <2>1, <3>1, <3>2
  <2> QED BY <2>1, <2>2 DEF TurnOK
<1>5. CASE LazyOwnTile \/ PlainOwnTile
  <2>1. /\ phase = "prefill" /\ j * BlockSize >= ctx /\ own' = own + TileN
        /\ UNCHANGED <<rowVars, phase, tile, j, prev, rot>>
    BY <1>5 DEF LazyOwnTile, PlainOwnTile
  <2>2. own' \in Nat
    BY <2>1, AttentionAssumption DEF TurnOK
  <2>3. NumBlocks' = NumBlocks /\ ctx' = ctx
    BY <2>1 DEF rowVars, NumBlocks, ctx
  <2>4. ~(j' * BlockSize < ctx')
    <3>1. ctx \in Nat /\ j * BlockSize \in Nat
      BY <2>1, RowFacts, AttentionAssumption DEF TurnOK, Running
    <3> QED BY <2>1, <2>3, <3>1
  <2> QED BY <2>1, <2>2, <2>3, <2>4 DEF TurnOK
<1>6. CASE VisitBlock \/ LazyOnlyVisitBlock
  <2>1. /\ phase = "decode" /\ chunk = 1 /\ j < NumBlocks /\ VisitLazyBlock
        /\ (lazyOnly \/ Lazy)
    BY <1>6 DEF VisitBlock, LazyOnlyVisitBlock
  <2>2. Lazy
    BY <2>1 DEF RowOK, Running
  <2>3. j' = j + 1 /\ UNCHANGED <<rowVars, phase, tile, own, out>>
    BY <2>1 DEF VisitLazyBlock
  <2>4. /\ prev' = OffsetAt(j + 1) /\ rot' = ForwardRotation(j + 1)
        /\ prev' \in 0..MAX_PACKED_Q_OFFSET /\ rot' \in 0..MAX_PACKED_Q_OFFSET
    BY <2>1, <2>2, VisitTurns
  <2>5. j' \in 0..NumBlocks' /\ j' # 0
    <3>1. NumBlocks \in Nat /\ j \in Nat
      BY <2>1, RowFacts DEF TurnOK, Running
    <3>2. NumBlocks' = NumBlocks
      BY <2>3 DEF rowVars, NumBlocks
    <3> QED BY <2>1, <2>3, <3>1, <3>2
  <2>6. prev' = OffsetAt(j)' /\ rot' = ForwardRotation(j)'
    BY <2>3, <2>4 DEF rowVars, OffsetAt, ForwardRotation, Lazy
  <2>7. prev' \in -1..MAX_PACKED_Q_OFFSET
    BY <2>4
  <2> QED BY <2>1, <2>3, <2>4, <2>5, <2>6, <2>7 DEF TurnOK
<1>7. CASE PlainVisitBlock
  <2>1. /\ phase = "decode" /\ chunk = 1 /\ j < NumBlocks /\ ~Lazy /\ j' = j + 1
        /\ UNCHANGED <<rowVars, phase, tile, own, prev, rot, out>>
    BY <1>7 DEF PlainVisitBlock
  <2>2. j' \in 0..NumBlocks' /\ ~Lazy'
    <3>1. NumBlocks \in Nat /\ j \in Nat
      BY <2>1, RowFacts DEF TurnOK, Running
    <3>2. NumBlocks' = NumBlocks /\ Lazy' = Lazy
      BY <2>1 DEF rowVars, NumBlocks, Lazy
    <3> QED BY <2>1, <3>1, <3>2
  <2> QED BY <2>1, <2>2 DEF TurnOK
<1>8. CASE DecodeSkips \/ StoreToken \/ NextStep
  <2>1. /\ phase' \in {"done", "ready"} /\ UNCHANGED <<rowVars, tile, j, own, prev, rot>>
    BY <1>8 DEF DecodeSkips, StoreToken, NextStep
  <2>2. NumBlocks' = NumBlocks
    BY <2>1 DEF rowVars, NumBlocks
  <2> QED BY <2>1, <2>2 DEF TurnOK
<1>9. CASE UNCHANGED vars
  <2>1. UNCHANGED <<lens, seqLen, chunk, phase, tile, j, own, prev, rot, out>>
    BY <1>9 DEF vars, rowVars
  <2>2. /\ NumBlocks' = NumBlocks /\ ctx' = ctx /\ Lazy' = Lazy /\ OffsetAt(j)' = OffsetAt(j)
        /\ ForwardRotation(j)' = ForwardRotation(j)
    BY <2>1 DEF NumBlocks, ctx, Lazy, OffsetAt, ForwardRotation
  <2> QED BY <2>1, <2>2 DEF TurnOK
<1> QED BY <1>1, <1>2, <1>3, <1>4, <1>5, <1>6, <1>7, <1>8, <1>9 DEF Next

-----------------------------------------------------------------------------
(* The classes and the keys, step by step.                                     *)
LEMMA NextContext ==
    ASSUME RowOK', Running'
    PROVE  ctx' \in Nat
<1>1. lens' \in Seq(Nat) /\ ctx' >= DocRegion(lens') /\ seqLen' \in Nat /\ chunk' \in 0..MaxNew
  BY DEF RowOK
<1>2. DocRegion(lens') \in Nat
  BY <1>1, LayoutSums
<1>3. \A n \in Nat, c \in 0..MaxNew : n - c \in Int
  BY AttentionAssumption
<1>4. seqLen' - chunk' \in Int
  BY <1>1, <1>3, Zenon
<1>5. \A c \in Int, r \in Nat : c >= r => c \in Nat
  OBVIOUS
<1>6. ctx' \in Int
  BY <1>4 DEF ctx
<1> QED BY <1>1, <1>2, <1>5, <1>6, Zenon

LEMMA StoredTypes ==
    ASSUME KeysOK, StoreTokens
    PROVE  \A i \in DOMAIN out' : out'[i] \in Seq(SUBSET (Nat \X Int))
<1>1. out' = [i \in DOMAIN out |-> IF i \in DOMAIN level THEN Append(out[i], attended[i]) ELSE out[i]]
  BY DEF StoreTokens
<1>2. ASSUME NEW i \in DOMAIN out PROVE out'[i] \in Seq(SUBSET (Nat \X Int))
  <2>1. out[i] \in Seq(SUBSET (Nat \X Int))
    BY <1>2 DEF KeysOK
  <2>2. i \in DOMAIN level => attended[i] \in SUBSET (Nat \X Int)
    BY DEF KeysOK
  <2>3. i \in DOMAIN level => Append(out[i], attended[i]) \in Seq(SUBSET (Nat \X Int))
    BY <2>1, <2>2
  <2> QED BY <1>1, <2>1, <2>3
<1> QED BY <1>1, <1>2

LEMMA ProgramsKeep ==
    ASSUME KeysOK, RowOK', EndProgram, phase = "prefill", out' = out \/ StoreTokens
    PROVE  KeysOK' /\ SoftmaxOK'
<1>1. phase' \in {"prefill", "decode"}
  BY DEF EndProgram
<1>2. ctx' \in Nat
  BY <1>1, NextContext DEF Running
<1>3. \A i \in DOMAIN out' : out'[i] \in Seq(SUBSET (Nat \X Int))
  BY StoredTypes DEF KeysOK
<1>4. Fresh(TileTokens(tile + 1)) \/ Fresh({0})
  BY DEF EndProgram
<1> QED BY <1>2, <1>3, <1>4, FreshStep

LEMMA ContextBlocksKeep ==
    ASSUME TilesOK, RowOK, TurnOK, KeysOK, LazyContextBlock \/ PlainContextBlock
    PROVE  KeysOK' /\ (NonEmpty(lens) /\ SoftmaxOK => SoftmaxOK')
<1>1. /\ phase = "prefill" /\ j * BlockSize < ctx /\ j' = j + 1
      /\ UNCHANGED <<rowVars, phase, own, out>>
  BY DEF LazyContextBlock, PlainContextBlock
<1>2. Running /\ j \in Nat /\ own = 0
  BY <1>1, BlocksAhead DEF Running
<1>3. DOMAIN level \subseteq 0..chunk-1
  <2>1. tile \in Nat /\ chunk \in Nat /\ DOMAIN level = TileTokens(tile)
    BY <1>1 DEF TilesOK
  <2>2. tile * TileM \in Nat
    BY <2>1, TileArithmetic
  <2> QED BY <2>1, <2>2 DEF TileTokens
<1>4. /\ BlockSize \in Nat /\ BlockSize >= 1 /\ j * BlockSize \in Nat /\ ctx \in Nat
      /\ (j + 1) * BlockSize \in Nat
  BY <1>2, RowFacts, AttentionAssumption
<1>5. Visited = j * BlockSize
  BY <1>1, <1>4 DEF Visited
<1>6. Visited' = ContextUpTo
  <2>1. ctx' = ctx /\ j' * BlockSize = (j + 1) * BlockSize /\ own' = 0 /\ phase' = "prefill"
    BY <1>1, <1>2 DEF rowVars, ctx
  <2>2. Visited' = IF (j + 1) * BlockSize >= ctx THEN ctx + 0 ELSE (j + 1) * BlockSize
    BY <2>1 DEF Visited
  <2> QED BY <1>4, <2>2 DEF ContextUpTo
<1>7. /\ ContextUpTo \in Nat /\ Visited <= ContextUpTo /\ ContextUpTo <= Visited + BlockSize
      /\ \A i \in 0..chunk-1 : Describes(LazyContextKeys(i), i, Visited, BlockSize, ContextUpTo)
      /\ ~Lazy => \A i \in 0..chunk-1 : Describes(PlainContextKeys(i), i, Visited, BlockSize, ContextUpTo)
  <2>1. 0 \in 0..chunk-1
    BY <1>2, RowFacts
  <2> QED BY <1>1, <1>2, <1>5, <2>1, ContextBlockDescribed
<1>8. CASE LazyContextBlock
  <2> DEFINE K == [i \in DOMAIN level |-> LazyContextKeys(i)]
  <2>1. /\ level' = [i \in DOMAIN level |-> Top(i, LazyContextKeys(i))]
        /\ attended' = [i \in DOMAIN level |-> Kept(i, LazyContextKeys(i))]
    BY <1>8 DEF LazyContextBlock, Accumulate
  <2>2. /\ level' = [i \in DOMAIN level |-> Top(i, K[i])]
        /\ attended' = [i \in DOMAIN level |-> Kept(i, K[i])]
    BY <2>1
  <2>3. \A i \in DOMAIN level : Describes(K[i], i, Visited, BlockSize, ContextUpTo)
    BY <1>3, <1>7
  <2> HIDE DEF K
  <2> QED BY <1>1, <1>2, <1>4, <1>5, <1>6, <1>7, <2>2, <2>3, AccumulateStep
<1>9. CASE PlainContextBlock
  <2> DEFINE K == [i \in DOMAIN level |-> PlainContextKeys(i)]
  <2>1. /\ level' = [i \in DOMAIN level |-> Top(i, PlainContextKeys(i))]
        /\ attended' = [i \in DOMAIN level |-> Kept(i, PlainContextKeys(i))]
        /\ ~Lazy
    BY <1>9 DEF PlainContextBlock, Accumulate
  <2>2. /\ level' = [i \in DOMAIN level |-> Top(i, K[i])]
        /\ attended' = [i \in DOMAIN level |-> Kept(i, K[i])]
    BY <2>1
  <2>3. \A i \in DOMAIN level : Describes(K[i], i, Visited, BlockSize, ContextUpTo)
    BY <1>3, <1>7, <2>1
  <2> HIDE DEF K
  <2> QED BY <1>1, <1>2, <1>4, <1>5, <1>6, <1>7, <2>2, <2>3, AccumulateStep
<1> QED BY <1>8, <1>9

LEMMA OwnTilesKeep ==
    ASSUME TilesOK, RowOK, TurnOK, KeysOK, LazyOwnTile \/ PlainOwnTile
    PROVE  KeysOK' /\ (NonEmpty(lens) /\ SoftmaxOK => SoftmaxOK')
<1>1. /\ phase = "prefill" /\ j * BlockSize >= ctx /\ own' = own + TileN
      /\ UNCHANGED <<rowVars, phase, j, out>>
      /\ level' = [i \in DOMAIN level |-> Top(i, OwnKeys(i))]
      /\ attended' = [i \in DOMAIN level |-> Kept(i, OwnKeys(i))]
  BY DEF LazyOwnTile, PlainOwnTile, Accumulate
<1>2. Running /\ j \in Nat /\ own \in Nat /\ ctx \in Nat /\ TileN \in Nat /\ TileN >= 1
  BY <1>1, RowFacts, AttentionAssumption DEF Running, TurnOK
<1>3. DOMAIN level \subseteq 0..chunk-1
  <2>1. tile \in Nat /\ chunk \in Nat /\ DOMAIN level = TileTokens(tile)
    BY <1>1 DEF TilesOK
  <2>2. tile * TileM \in Nat
    BY <2>1, TileArithmetic
  <2> QED BY <2>1, <2>2 DEF TileTokens
<1>4. Visited = ctx + own
  BY <1>1 DEF Visited
<1>5. Visited' = ctx + (own + TileN)
  <2>1. ctx' = ctx /\ j' * BlockSize = j * BlockSize /\ phase' = "prefill"
    BY <1>1 DEF rowVars, ctx
  <2> QED BY <1>1, <2>1 DEF Visited
<1>6. Visited' = ctx + own + TileN /\ Visited \in Nat /\ ctx + own + TileN \in Nat
      /\ Visited <= ctx + own + TileN /\ ctx + own + TileN <= Visited + TileN
  <2>1. ctx + own + TileN = ctx + (own + TileN)
    BY <1>2
  <2>2. Visited' = ctx + own + TileN
    BY <1>5, <2>1
  <2> QED BY <1>2, <1>4, <2>2
<1> DEFINE K == [i \in DOMAIN level |-> OwnKeys(i)]
<1>7. /\ level' = [i \in DOMAIN level |-> Top(i, K[i])]
      /\ attended' = [i \in DOMAIN level |-> Kept(i, K[i])]
  BY <1>1
<1>8. \A i \in DOMAIN level : Describes(K[i], i, Visited, TileN, ctx + own + TileN)
  BY <1>2, <1>3, <1>4, OwnTileDescribed
<1> HIDE DEF K
<1> QED BY <1>1, <1>2, <1>6, <1>7, <1>8, AccumulateStep

LEMMA VisitsKeep ==
    ASSUME TilesOK, RowOK, PackedOK, TurnOK, KeysOK, VisitBlock \/ LazyOnlyVisitBlock \/ PlainVisitBlock
    PROVE  KeysOK' /\ (NonEmpty(lens) /\ SoftmaxOK => SoftmaxOK')
<1>1. /\ phase = "decode" /\ chunk = 1 /\ j < NumBlocks /\ j' = j + 1
      /\ UNCHANGED <<rowVars, phase, own, out>>
  BY DEF VisitBlock, LazyOnlyVisitBlock, VisitLazyBlock, PlainVisitBlock
<1>2. /\ Running /\ j \in Nat /\ own \in Nat /\ lens \in Seq(Nat)
      /\ DOMAIN level = {0} /\ NumBlocks \in 0..Len(BlockAt) /\ Len(BlockAt) \in Nat
  BY <1>1, RowFacts DEF Running, TurnOK, TilesOK
<1>3. /\ BlockSize \in Nat /\ BlockSize >= 1 /\ j * BlockSize \in Nat /\ (j + 1) * BlockSize \in Nat
      /\ (j + 1) * BlockSize = j * BlockSize + BlockSize
  BY <1>2, AttentionAssumption
<1>4. /\ Visited = j * BlockSize /\ Visited' = (j + 1) * BlockSize /\ Visited \in Nat
      /\ Visited <= (j + 1) * BlockSize /\ (j + 1) * BlockSize <= Visited + BlockSize
  <2>1. phase' = "decode" /\ phase # "prefill" /\ phase' # "prefill"
    BY <1>1
  <2>2. Visited = j * BlockSize /\ Visited' = (j + 1) * BlockSize
    BY <1>1, <2>1 DEF Visited
  <2> QED BY <1>3, <2>2
<1>5. ASSUME NEW keys,
             Describes(keys, 0, j * BlockSize, BlockSize, (j + 1) * BlockSize),
             level' = [i \in DOMAIN level |-> Top(i, keys)],
             attended' = [i \in DOMAIN level |-> Kept(i, keys)]
      PROVE  KeysOK' /\ (NonEmpty(lens) /\ SoftmaxOK => SoftmaxOK')
  <2> DEFINE K == [i \in DOMAIN level |-> keys]
  <2>1. /\ level' = [i \in DOMAIN level |-> Top(i, K[i])]
        /\ attended' = [i \in DOMAIN level |-> Kept(i, K[i])]
    BY <1>5
  <2>2. \A i \in DOMAIN level : Describes(K[i], i, Visited, BlockSize, (j + 1) * BlockSize)
    BY <1>2, <1>4, <1>5
  <2> HIDE DEF K
  <2>3. phase \in {"prefill", "decode"}
    BY <1>1
  <2> QED BY <1>1, <1>2, <1>3, <1>4, <2>1, <2>2, <2>3, AccumulateStep
<1>6. CASE VisitBlock \/ LazyOnlyVisitBlock
  <2>1. VisitLazyBlock /\ (lazyOnly \/ Lazy)
    BY <1>6 DEF VisitBlock, LazyOnlyVisitBlock
  <2>2. Lazy
    BY <1>2, <2>1 DEF RowOK
  <2> DEFINE keys == BlockKeys(BlockField(packed[j + 1]), rot', MaskField(packed[j + 1]))
  <2>3. /\ level' = [i \in DOMAIN level |-> Top(i, keys)]
        /\ attended' = [i \in DOMAIN level |-> Kept(i, keys)]
    BY <2>1 DEF VisitLazyBlock, Accumulate
  <2>4. /\ rot' = ForwardRotation(j + 1) /\ MaskField(packed[j + 1]) = MaskAt(j + 1)
        /\ BlockField(packed[j + 1]) = BlockAt[j + 1]
    BY <1>1, <2>1, <2>2, VisitTurns
  <2>5. Describes(keys, 0, j * BlockSize, BlockSize, (j + 1) * BlockSize)
    BY <1>1, <1>2, <2>4, DecodeBlockDescribed
  <2> HIDE DEF keys
  <2> QED BY <1>5, <2>3, <2>5
<1>7. CASE PlainVisitBlock
  <2>1. ~Lazy
    BY <1>7 DEF PlainVisitBlock
  <2> DEFINE keys == BlockKeys(BlockField(packed[j + 1]), 0, 0)
  <2>2. /\ level' = [i \in DOMAIN level |-> Top(i, keys)]
        /\ attended' = [i \in DOMAIN level |-> Kept(i, keys)]
    BY <1>7 DEF PlainVisitBlock, Accumulate
  <2>3. j + 1 \in 1..Len(BlockAt) /\ j + 1 \in 1..NumBlocks /\ j + 1 \in Nat /\ j + 1 >= 1
    BY <1>1, <1>2
  <2>4. ForwardRotation(j + 1) = 0 /\ MaskAt(j + 1) = 0
    BY <1>2, <2>1, <2>3, RotationOfBlock DEF MaskAt
  <2>5. BlockField(packed[j + 1]) = BlockAt[j + 1]
    <3>1. packed[j + 1] = PackedEntry(j + 1)
      BY <1>2, <2>3 DEF PackedOK
    <3>2. ~(MaxRotationOffset(lens) > MAX_PACKED_Q_OFFSET)
      BY <1>1 DEF RowOK, Admitted
    <3> QED BY <1>2, <2>3, <3>1, <3>2, EntryFields
  <2>6. Describes(keys, 0, j * BlockSize, BlockSize, (j + 1) * BlockSize)
    BY <1>1, <1>2, <2>4, <2>5, DecodeBlockDescribed
  <2> HIDE DEF keys
  <2> QED BY <1>5, <2>2, <2>6
<1> QED BY <1>6, <1>7

LEMMA KeysStep ==
    ASSUME TilesOK, RowOK, PackedOK, TurnOK, KeysOK, [Next]_vars
    PROVE  KeysOK' /\ (NonEmpty(lens) /\ SoftmaxOK => SoftmaxOK')
<1>0. RowOK'
  BY RowStep
<1>1. CASE Arrive \/ DecodeSkips \/ NextStep
  <2>1. /\ phase' \in {"refused", "ready", "done"} /\ UNCHANGED <<level, attended, out>>
    BY <1>1 DEF Arrive, DecodeSkips, NextStep
  <2> QED BY <2>1 DEF KeysOK, SoftmaxOK
<1>2. CASE PrepareInputs
  <2>1. /\ phase' \in {"prefill", "decode"} /\ out' = [i \in 0..chunk'-1 |-> <<>>]
        /\ Fresh(IF LaunchPrefill(maxQuery') THEN TileTokens(0)' ELSE {0})
    BY <1>2 DEF PrepareInputs
  <2>2. ctx' \in Nat
    BY <1>0, <2>1, NextContext DEF Running
  <2>3. \A i \in DOMAIN out' : out'[i] \in Seq(SUBSET (Nat \X Int))
    <3>1. <<>> \in Seq(SUBSET (Nat \X Int))
      OBVIOUS
    <3> QED BY <2>1, <3>1
  <2> QED BY <2>1, <2>2, <2>3, FreshStep
<1>3. CASE PrefillSkips \/ LazyStoreTile \/ PlainStoreTile
  <2>1. EndProgram /\ phase = "prefill" /\ (out' = out \/ StoreTokens)
    BY <1>3 DEF PrefillSkips, LazyStoreTile, PlainStoreTile
  <2> QED BY <1>0, <2>1, ProgramsKeep
<1>4. CASE LazyContextBlock \/ PlainContextBlock
  BY <1>4, ContextBlocksKeep
<1>5. CASE LazyOwnTile \/ PlainOwnTile
  BY <1>5, OwnTilesKeep
<1>6. CASE VisitBlock \/ LazyOnlyVisitBlock \/ PlainVisitBlock
  BY <1>6, VisitsKeep
<1>7. CASE StoreToken
  <2>1. StoreTokens /\ phase' = "done" /\ UNCHANGED <<level, attended>>
    BY <1>7 DEF StoreToken
  <2>2. \A i \in DOMAIN out' : out'[i] \in Seq(SUBSET (Nat \X Int))
    BY <2>1, StoredTypes
  <2> QED BY <2>1, <2>2 DEF KeysOK, SoftmaxOK
<1>8. CASE UNCHANGED vars
  <2>1. UNCHANGED <<rowVars, phase, j, own, level, attended, out>>
    BY <1>8 DEF vars
  <2>2. Visited' = Visited /\ UNCHANGED <<lens, window, seqLen, chunk>>
    BY <2>1 DEF rowVars, Visited, ctx
  <2>3. \A i, n : Summary(i, n)' <=> Summary(i, n)
    BY <2>1, <2>2, SeenKept DEF Summary
  <2>4. SoftmaxOK => SoftmaxOK'
    BY <2>1, <2>2, <2>3 DEF SoftmaxOK
  <2> QED BY <2>1, <2>4 DEF KeysOK
<1> QED BY <1>1, <1>2, <1>3, <1>4, <1>5, <1>6, <1>7, <1>8 DEF Next

-----------------------------------------------------------------------------
(* What is stored.                                                             *)
Context(i) == {o \in 0..ctx+i : Real(lens, o) /\ (window = 0 \/ (ctx + i) - o < window)}

LEMMA ExactForm ==
    AttentionExact <=> (Running => \A i \in DOMAIN out : \A n \in DOMAIN out[i] :
                                      out[i][n] = WithDistance(i, Context(i)))
BY DEF AttentionExact, Running, WithDistance, Context

(* A kernel that has seen every key up to the token holds its output.          *)
LEMMA CompleteSummary ==
    ASSUME RowOK, Running, NEW i \in 0..chunk-1, NEW n \in Nat, n > ctx + i, Summary(i, n)
    PROVE  attended[i] = WithDistance(i, Context(i))
<1>1. /\ ctx \in Nat /\ lens \in Seq(Nat) /\ window \in Nat /\ DocRegion(lens) \in Nat
      /\ ctx >= DocRegion(lens) /\ chunk \in Nat /\ i \in Nat
  BY RowFacts
<1>2. Seen(i, n) = Context(i)
  <2>1. \A p : p \in 0..n-1 /\ p <= ctx + i <=> p \in 0..ctx+i
    BY <1>1
  <2>2. \A p \in 0..ctx+i : ctx + i - p = (ctx + i) - p
    BY <1>1
  <2>3. \A p : p \in Seen(i, n) <=> p \in 0..n-1 /\ p <= ctx + i /\ Real(lens, p)
                                      /\ (window = 0 \/ ctx + i - p < window)
    BY DEF Seen, Attends
  <2>4. \A p : p \in Context(i) <=> p \in 0..ctx+i /\ Real(lens, p)
                                      /\ (window = 0 \/ (ctx + i) - p < window)
    BY DEF Context
  <2>5. \A p : p \in Seen(i, n) <=> p \in Context(i)
    BY <2>1, <2>2, <2>3, <2>4
  <2>6. Seen(i, n) \subseteq 0..n-1 /\ Context(i) \subseteq 0..ctx+i
    BY DEF Seen, Context
  <2> QED BY <2>5, <2>6
<1>3. ctx + i \in Context(i)
  <2>1. ctx + i \in Nat /\ ctx + i >= DocRegion(lens) /\ (ctx + i) - (ctx + i) = 0 /\ ctx + i \in 0..ctx+i
    BY <1>1
  <2>2. Real(lens, ctx + i)
    BY <2>1 DEF Real
  <2>3. window = 0 \/ (ctx + i) - (ctx + i) < window
    BY <1>1, <2>1
  <2> QED BY <2>1, <2>2, <2>3 DEF Context
<1> QED BY <1>2, <1>3 DEF Summary

LEMMA StoreExact ==
    ASSUME KeysOK, AttentionExact, Running, UNCHANGED rowVars, StoreTokens,
           \A i \in DOMAIN level : i \in DOMAIN out => attended[i] = WithDistance(i, Context(i))
    PROVE  AttentionExact'
<1>1. UNCHANGED <<lens, window, seqLen, chunk>>
  BY DEF rowVars
<1>2. \A i : WithDistance(i, Context(i))' = WithDistance(i, Context(i))
  BY <1>1 DEF WithDistance, Context, ctx
<1>3. out' = [i \in DOMAIN out |-> IF i \in DOMAIN level THEN Append(out[i], attended[i]) ELSE out[i]]
  BY DEF StoreTokens
<1>4. ASSUME NEW i \in DOMAIN out, NEW n \in DOMAIN out'[i] PROVE out'[i][n] = WithDistance(i, Context(i))
  <2>1. out[i] \in Seq(SUBSET (Nat \X Int))
    BY DEF KeysOK
  <2>2. \A k \in DOMAIN out[i] : out[i][k] = WithDistance(i, Context(i))
    BY ExactForm
  <2>3. CASE i \notin DOMAIN level
    <3>1. out'[i] = out[i]
      BY <1>3, <2>3
    <3> QED BY <1>4, <2>2, <3>1
  <2>4. CASE i \in DOMAIN level
    <3>1. out'[i] = Append(out[i], attended[i]) /\ attended[i] = WithDistance(i, Context(i))
      BY <1>3, <2>4
    <3>2. attended[i] \in SUBSET (Nat \X Int)
      BY <2>4 DEF KeysOK
    <3>3. n \in 1..Len(out[i])+1 /\ DOMAIN out[i] = 1..Len(out[i]) /\ Len(out[i]) \in Nat
      BY <1>4, <2>1, <3>1, <3>2
    <3>4. CASE n = Len(out[i]) + 1
      BY <2>1, <3>1, <3>2, <3>4
    <3>5. CASE n \in 1..Len(out[i])
      <4>1. Append(out[i], attended[i])[n] = out[i][n]
        BY <2>1, <3>2, <3>5
      <4> QED BY <2>2, <3>1, <3>3, <3>5, <4>1
    <3> QED BY <3>3, <3>4, <3>5
  <2> QED BY <2>3, <2>4
<1>5. DOMAIN out' = DOMAIN out
  BY <1>3
<1>6. \A i \in DOMAIN out' : \A n \in DOMAIN out'[i] : out'[i][n] = WithDistance(i, Context(i))'
  BY <1>2, <1>4, <1>5
<1> QED BY <1>6 DEF AttentionExact, WithDistance, Context

LEMMA TilesExact ==
    ASSUME TilesOK, RowOK, TurnOK, KeysOK, SoftmaxOK, AttentionExact, LazyStoreTile \/ PlainStoreTile
    PROVE  AttentionExact'
<1>1. /\ phase = "prefill" /\ j * BlockSize >= ctx /\ own >= OwnEnd
      /\ StoreTokens /\ UNCHANGED rowVars
  BY DEF LazyStoreTile, PlainStoreTile
<1>2. /\ Running /\ tile \in Nat /\ chunk \in Nat /\ own \in Nat /\ ctx \in Nat
      /\ DOMAIN level = TileTokens(tile)
  BY <1>1, RowFacts DEF Running, TilesOK, TurnOK
<1>3. /\ tile * TileM \in Nat /\ (tile + 1) * TileM \in Nat
      /\ Visited = ctx + own /\ Visited \in Nat
  <2>1. tile * TileM \in Nat /\ (tile + 1) * TileM = tile * TileM + TileM /\ TileM \in Nat
    BY <1>2, TileArithmetic, AttentionAssumption
  <2>2. Visited = ctx + own
    BY <1>1 DEF Visited
  <2> QED BY <1>2, <2>1, <2>2
<1>4. ASSUME NEW i \in DOMAIN level PROVE attended[i] = WithDistance(i, Context(i))
  <2>1. i \in 0..chunk-1 /\ tile * TileM <= i /\ i < (tile + 1) * TileM
    BY <1>2, <1>3 DEF TileTokens
  <2>2. OwnEnd = (tile + 1) * TileM
    BY <1>2, <1>3, <2>1 DEF OwnEnd
  <2>3. Visited > ctx + i
    BY <1>1, <1>2, <1>3, <2>1, <2>2
  <2>4. Summary(i, Visited)
    BY <1>1 DEF SoftmaxOK
  <2> QED BY <1>2, <1>3, <2>1, <2>3, <2>4, CompleteSummary
<1> QED BY <1>1, <1>2, <1>4, StoreExact

LEMMA TokenExact ==
    ASSUME TilesOK, RowOK, TurnOK, KeysOK, SoftmaxOK, AttentionExact, StoreToken
    PROVE  AttentionExact'
<1>1. /\ phase = "decode" /\ chunk = 1 /\ j = NumBlocks /\ StoreTokens /\ UNCHANGED rowVars
  BY DEF StoreToken
<1>2. /\ Running /\ ctx \in Nat /\ seqLen \in Nat /\ ctx = seqLen - 1 /\ NumBlocks \in Nat
      /\ DOMAIN level = {0}
  BY <1>1, RowFacts DEF Running, TilesOK
<1>3. Visited = NumBlocks * BlockSize /\ Visited \in Nat /\ seqLen <= Visited
  <2>1. Visited = NumBlocks * BlockSize
    BY <1>1 DEF Visited
  <2>2. seqLen <= NumBlocks * BlockSize
    BY <1>2, Ceil DEF NumBlocks
  <2>3. NumBlocks * BlockSize \in Nat
    BY <1>2, AttentionAssumption
  <2> QED BY <2>1, <2>2, <2>3
<1>4. attended[0] = WithDistance(0, Context(0))
  <2>1. Summary(0, Visited) /\ 0 \in 0..chunk-1 /\ Visited > ctx + 0
    BY <1>1, <1>2, <1>3 DEF SoftmaxOK
  <2> QED BY <1>2, <1>3, <2>1, CompleteSummary
<1> QED BY <1>1, <1>2, <1>4, StoreExact

LEMMA ExactStep ==
    ASSUME TilesOK, RowOK, PackedOK, TurnOK, KeysOK, SoftmaxOK, AttentionExact, [Next]_vars
    PROVE  AttentionExact'
<1>1. CASE Arrive \/ NextStep
  <2>1. phase' \notin {"prefill", "decode", "done"}
    BY <1>1 DEF Arrive, NextStep
  <2> QED BY <2>1 DEF AttentionExact
<1>2. CASE PrepareInputs
  <2>1. out' = [i \in 0..chunk'-1 |-> <<>>]
    BY <1>2 DEF PrepareInputs
  <2>2. DOMAIN <<>> = {}
    OBVIOUS
  <2>3. \A i \in DOMAIN out' : DOMAIN out'[i] = {}
    BY <2>1, <2>2
  <2> QED BY <2>3 DEF AttentionExact
<1>3. CASE LazyStoreTile \/ PlainStoreTile
  BY <1>3, TilesExact
<1>4. CASE StoreToken
  BY <1>4, TokenExact
<1>5. ASSUME UNCHANGED <<rowVars, out>>, phase \in {"prefill", "decode", "done"} \/ phase' = phase
      PROVE  AttentionExact'
  <2>1. UNCHANGED <<lens, window, seqLen, chunk, out>> /\ ctx' = ctx
    BY <1>5 DEF rowVars, ctx
  <2> QED BY <1>5, <2>1 DEF AttentionExact
<1>6. CASE PrefillSkips \/ LazyContextBlock \/ PlainContextBlock \/ LazyOwnTile \/ PlainOwnTile
           \/ DecodeSkips \/ VisitBlock \/ LazyOnlyVisitBlock \/ PlainVisitBlock
  <2>1. UNCHANGED <<rowVars, out>> /\ phase \in {"prefill", "decode"}
    BY <1>6 DEF PrefillSkips, LazyContextBlock, PlainContextBlock, LazyOwnTile, PlainOwnTile,
                DecodeSkips, VisitBlock, LazyOnlyVisitBlock, VisitLazyBlock, PlainVisitBlock
  <2> QED BY <1>5, <2>1
<1>7. CASE UNCHANGED vars
  BY <1>5, <1>7 DEF vars
<1> QED BY <1>1, <1>2, <1>3, <1>4, <1>6, <1>7 DEF Next

(* An exact output has no padding in it.                                       *)
LEMMA ExactIsReal == AttentionExact /\ Running => PaddingNeverAttended
<1> SUFFICES ASSUME AttentionExact, Running, NEW i \in DOMAIN out, NEW n \in DOMAIN out[i],
                    NEW key \in out[i][n]
             PROVE  Real(lens, key[1])
  BY DEF PaddingNeverAttended
<1>1. out[i][n] = WithDistance(i, Context(i))
  BY ExactForm
<1>2. PICK p \in Context(i) : key = <<p, ContextPosition(lens, ctx + i) - ContextPosition(lens, p)>>
  BY <1>1 DEF WithDistance
<1> QED BY <1>2 DEF Context

LEMMA PaddingStep ==
    ASSUME TurnOK, AttentionExact', PaddingNeverAttended, [Next]_vars
    PROVE  PaddingNeverAttended'
<1>1. CASE Arrive
  <2>1. out = <<>> /\ out' = out
    BY <1>1 DEF Arrive, TurnOK
  <2> QED BY <2>1 DEF PaddingNeverAttended
<1>2. CASE Running'
  BY <1>2, ExactIsReal, PTL
<1>3. CASE ~Running' /\ ~Arrive
  <2>1. UNCHANGED <<lens, out>>
    <3>1. ~PrepareInputs
      BY <1>3 DEF PrepareInputs, Running
    <3>2. ~StoreToken /\ ~LazyStoreTile /\ ~PlainStoreTile
      BY <1>3 DEF StoreToken, LazyStoreTile, PlainStoreTile, EndProgram, Running
    <3>3. CASE PrefillSkips \/ LazyContextBlock \/ PlainContextBlock \/ LazyOwnTile \/ PlainOwnTile
      BY <3>3 DEF PrefillSkips, LazyContextBlock, PlainContextBlock, LazyOwnTile, PlainOwnTile, rowVars
    <3>4. CASE DecodeSkips \/ VisitBlock \/ LazyOnlyVisitBlock \/ PlainVisitBlock \/ NextStep
      BY <3>4 DEF DecodeSkips, VisitBlock, LazyOnlyVisitBlock, VisitLazyBlock, PlainVisitBlock,
                  NextStep, rowVars
    <3>5. CASE UNCHANGED vars
      BY <3>5 DEF vars, rowVars
    <3> QED BY <1>3, <3>1, <3>2, <3>3, <3>4, <3>5 DEF Next
  <2> QED BY <2>1 DEF PaddingNeverAttended
<1> QED BY <1>1, <1>2, <1>3

-----------------------------------------------------------------------------
(* The inductive invariant, and what it has when no document is empty.         *)
Base == TilesOK /\ RowOK /\ PackedOK /\ TurnOK /\ KeysOK
Exact == SoftmaxOK /\ AttentionExact /\ PaddingNeverAttended

LEMMA BaseInit == Init => Base /\ Exact
<1> SUFFICES ASSUME Init PROVE Base /\ Exact
  OBVIOUS
<1> USE DEF Init
<1>1. TilesOK
  BY DEF TilesOK, Running
<1>2. RowOK
  <2>1. DocRegion(<<>>) = 0 /\ MaxNew \in Nat
    BY PlainLayout, AttentionAssumption DEF Lazy
  <2>2. lens = <<>> /\ seqLen = 0 /\ phase = "new" /\ chunk = 0 /\ maxQuery = 0 /\ window = 0
    OBVIOUS
  <2>3. ~Running /\ ~Admitted
    BY DEF Running, Admitted
  <2>4. DocRegion(lens) <= seqLen /\ seqLen <= DocRegion(lens) + MaxNew /\ 0 \in 0..MaxNew
    BY <2>1, <2>2
  <2>5. <<>> \in Seq(Nat)
    OBVIOUS
  <2>6. lazyOnly \in BOOLEAN
    <3>1. lazyOnly = FALSE
      OBVIOUS
    <3> QED BY <3>1
  <2> QED BY <2>2, <2>3, <2>4, <2>5, <2>6 DEF RowOK
<1>3. PackedOK
  <2>1. packed = <<>> /\ phase = "new" /\ ~Running
    BY DEF Running
  <2>2. <<>> \in Seq(Nat) /\ <<>> = [k \in 1..Len(<<>>) |-> PackedEntry(k)]
    OBVIOUS
  <2> QED BY <2>1, <2>2 DEF PackedOK
<1>4. TurnOK
  <2>1. NumBlocks \in Nat /\ MAX_PACKED_Q_OFFSET \in Nat
    BY Ceil, AttentionAssumption DEF NumBlocks, MAX_PACKED_Q_OFFSET
  <2> QED BY <2>1 DEF TurnOK
<1>5. KeysOK /\ Exact
  BY DEF KeysOK, Exact, SoftmaxOK, AttentionExact, PaddingNeverAttended
<1> QED BY <1>1, <1>2, <1>3, <1>4, <1>5 DEF Base

LEMMA BaseStep == Base /\ [Next]_vars => Base'
BY TilesInductive, RowStep, TurnStep, KeysStep DEF Base

LEMMA BaseAlways == Spec => []Base
<1>1. Init => Base
  BY BaseInit
<1> QED BY <1>1, BaseStep, PTL DEF Spec

LEMMA ExactStepped ==
    ASSUME NonEmptyDocuments
    PROVE  Base /\ Exact /\ [Next]_vars => Exact'
<1> SUFFICES ASSUME Base, Exact, [Next]_vars PROVE Exact'
  OBVIOUS
<1>1. NonEmpty(lens)
  <2>1. DOMAIN <<>> = {}
    OBVIOUS
  <2> QED BY <2>1 DEF Base, RowOK, NonEmptyDocuments, NonEmpty
<1>2. SoftmaxOK'
  BY <1>1, KeysStep DEF Base, Exact
<1>3. AttentionExact'
  BY ExactStep DEF Base, Exact
<1>4. PaddingNeverAttended'
  BY <1>3, PaddingStep DEF Base, Exact
<1> QED BY <1>2, <1>3, <1>4 DEF Exact

-----------------------------------------------------------------------------
(* The variables of the kernels stay in their types: no block is looked up      *)
(* behind the row's table, and the offsets fit their field.                    *)
THEOREM LazyAttentionTypes == Spec => []TypeOK
<1>1. Base => TypeOK
  BY DEF Base, TilesOK, RowOK, PackedOK, TurnOK, KeysOK, TypeOK
<1> QED BY <1>1, BaseAlways, PTL

(* The bound by which LazyProcessor admits a request is enough for each offset  *)
(* and mask of its metadata, for any documents: the model runner never has to   *)
(* raise, and no field carries into the next.                                 *)
THEOREM AdmissionIsEnough == Spec => []AdmittedFits
<1>1. Base => AdmittedFits
  <2> SUFFICES ASSUME Base, phase \notin {"new", "refused"}, NEW k \in 1..MetadataLen(lens)
               PROVE  /\ QOffset(lens, k) \in 1..MAX_PACKED_Q_OFFSET
                      /\ QMask(lens, k) \in 0..MAX_PACKED_Q_OFFSET
    BY DEF AdmittedFits
  <2>1. lens \in Seq(Nat) /\ ~(MaxRotationOffset(lens) > MAX_PACKED_Q_OFFSET)
    BY DEF Base, RowOK, Admitted
  <2> QED BY <2>1, AdmissionBounds
<1> QED BY <1>1, BaseAlways, PTL

(* As soon as a program of either kernel has looked at a key, no row of its     *)
(* tile is masked altogether, so the exponentials of the online softmax are     *)
(* taken of finite differences.                                               *)
THEOREM MaximaFinite == Spec => []MaximumFinite
<1>1. Base => MaximumFinite
  BY DEF Base, KeysOK, MaximumFinite
<1> QED BY <1>1, BaseAlways, PTL

(* When no document is empty, every output that either kernel stores is         *)
(* attention over the real keys up to its token, each at its distance in the    *)
(* context without padding, for any blocks, tiles, windows and chunks.  The     *)
(* hypothesis is needed: a document without blocks overwrites the mask of the   *)
(* one before it.                                                             *)
THEOREM OutputsExact == NonEmptyDocuments => (Spec => []AttentionExact)
<1> SUFFICES ASSUME NonEmptyDocuments PROVE Spec => []AttentionExact
  OBVIOUS
<1>1. Init => Exact
  BY BaseInit
<1>2. Base /\ Exact /\ [Next]_vars => Exact'
  BY ExactStepped
<1>3. Exact => AttentionExact
  BY DEF Exact
<1> QED BY <1>1, <1>2, <1>3, BaseAlways, PTL DEF Spec

(* Under the same hypothesis no padding token ever contributes to an output.    *)
THEOREM PaddingLeftOut == NonEmptyDocuments => (Spec => []PaddingNeverAttended)
<1> SUFFICES ASSUME NonEmptyDocuments PROVE Spec => []PaddingNeverAttended
  OBVIOUS
<1>1. Init => Exact
  BY BaseInit
<1>2. Base /\ Exact /\ [Next]_vars => Exact'
  BY ExactStepped
<1>3. Exact => PaddingNeverAttended
  BY DEF Exact
<1> QED BY <1>1, <1>2, <1>3, BaseAlways, PTL DEF Spec
=============================================================================
