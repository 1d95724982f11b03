------------------------- MODULE SchedulerLemmas ----------------------------
(* What the operators of LazyScheduler return, for any requests, documents and  *)
(* pool: sequences and sums, the prefix cache lookups, the queues and the free  *)
(* queue.                                                                      *)
EXTENDS LazyScheduler, SequenceTheorems, FiniteSetTheorems, WellFoundedInduction, TLAPS

-----------------------------------------------------------------------------
(* Induction over the naturals, as the least element of a set.                 *)
LEMMA LeastElement ==
    ASSUME NEW S \in SUBSET Nat, S # {}
    PROVE  \E n \in S : \A m \in S : n <= m
<1>1. IsWellFoundedOn(OpToRel(<, Nat), Nat)
  BY NatLessThanWellFounded
<1>2. PICK n \in S : \A m \in S : ~(<<m, n>> \in OpToRel(<, Nat))
  BY <1>1, WFMin
<1>3. \A m \in S : ~(m < n)
  BY <1>2 DEF OpToRel
<1> QED BY <1>3

(* What holds at a and is passed on holds up to n.                             *)
LEMMA BoundedInduction ==
    ASSUME NEW a \in Nat, NEW n \in Nat, NEW T, a \in T,
           \A i \in a..n-1 : i \in T => i + 1 \in T
    PROVE  \A i \in a..n : i \in T
<1> DEFINE S == {i \in a..n : i \notin T}
<1>1. SUFFICES ASSUME S # {} PROVE FALSE
  OBVIOUS
<1>a. S \in SUBSET Nat
  OBVIOUS
<1> HIDE DEF S
<1>2. PICK i \in S : \A m \in S : i <= m
  BY <1>1, <1>a, LeastElement
<1> USE DEF S
<1>3. i - 1 \in a..n-1 /\ i - 1 \notin S
  BY <1>2
<1> QED BY <1>2, <1>3

(* A recursive function: F gives the value at i from i and the value before.   *)
Recursion(f, a, n, x0, F) ==
    f = [i \in a..n |-> IF i = a THEN x0 ELSE F[<<i, f[i - 1]>>]]

LEMMA RecursionExists ==
    ASSUME NEW a \in Nat, NEW n \in Nat, a <= n, NEW X, NEW x0 \in X,
           NEW F \in [((a+1)..n) \X X -> X]
    PROVE  \E f \in [a..n -> X] : Recursion(f, a, n, x0, F)
<1> DEFINE Upto(f, m) == /\ f \in [a..m -> X] /\ f[a] = x0
                         /\ \A i \in (a+1)..m : f[i] = F[<<i, f[i - 1]>>]
           T == {m \in a..n : \E f : Upto(f, m)}
<1>1. a \in T
  <2>1. Upto([i \in a..a |-> x0], a)
    OBVIOUS
  <2>2. a \in a..n
    OBVIOUS
  <2> QED BY <2>1, <2>2
<1>2. ASSUME NEW m \in a..n-1, m \in T PROVE m + 1 \in T
  <2>1. PICK f : Upto(f, m)
    BY <1>2
  <2> DEFINE y == F[<<m + 1, f[m]>>]
             g == [i \in a..m+1 |-> IF i = m + 1 THEN y ELSE f[i]]
  <2>2. y \in X
    <3>1. f[m] \in X /\ m + 1 \in (a+1)..n
      BY <2>1
    <3>2. <<m + 1, f[m]>> \in ((a+1)..n) \X X
      BY <3>1
    <3> QED BY <3>2
  <2>3. g \in [a..m+1 -> X] /\ g[a] = x0
    BY <2>1, <2>2
  <2>4. ASSUME NEW i \in (a+1)..m+1 PROVE g[i] = F[<<i, g[i - 1]>>]
    <3>1. CASE i = m + 1
      <4>1. g[i] = y /\ g[i - 1] = f[m]
        BY <3>1
      <4> QED BY <4>1, <3>1
    <3>2. CASE i # m + 1
      <4>1. i \in (a+1)..m /\ i - 1 \in a..m+1 /\ i - 1 # m + 1
        BY <3>2
      <4>2. g[i] = f[i] /\ g[i - 1] = f[i - 1]
        BY <4>1, <3>2
      <4> QED BY <4>1, <4>2, <2>1
    <3> QED BY <3>1, <3>2
  <2>5. m + 1 \in a..n
    OBVIOUS
  <2> HIDE DEF g
  <2> QED BY <2>3, <2>4, <2>5
<1>3. \A m \in a..n-1 : m \in T => m + 1 \in T
  BY <1>2
<1>4. \A m \in a..n : m \in T
  <2> HIDE DEF T
  <2> QED BY <1>1, <1>3, BoundedInduction
<1>5. PICK f : Upto(f, n)
  <2>1. n \in a..n
    OBVIOUS
  <2> QED BY <1>4, <2>1
<1>6. f = [i \in a..n |-> IF i = a THEN x0 ELSE F[<<i, f[i - 1]>>]]
  <2>1. \A i \in a..n : f[i] = IF i = a THEN x0 ELSE F[<<i, f[i - 1]>>]
    <3> TAKE i \in a..n
    <3>1. i = a \/ i \in (a+1)..n
      OBVIOUS
    <3> QED BY <3>1, <1>5
  <2>2. f = [i \in a..n |-> f[i]]
    BY <1>5
  <2> QED BY <2>1, <2>2
<1> QED BY <1>5, <1>6 DEF Recursion

-----------------------------------------------------------------------------
(* Only: f says where the entries of r, those of the first n of s that are in  *)
(* S, come from.                                                              *)
Picks(f, r, s, S, n) ==
    /\ f \in [1..Len(r) -> 1..n]
    /\ \A k \in 1..Len(r) : r[k] = s[f[k]] /\ s[f[k]] \in S
    /\ \A k, l \in 1..Len(r) : k < l => f[k] < f[l]
    /\ \A i \in 1..n : s[i] \in S => \E k \in 1..Len(r) : f[k] = i

LEMMA PicksOneMore ==
    ASSUME NEW T, NEW s \in Seq(T), NEW S, NEW n \in Nat, n < Len(s),
           NEW r \in Seq(T), NEW f, Picks(f, r, s, S, n)
    PROVE  LET q == IF s[n + 1] \in S THEN Append(r, s[n + 1]) ELSE r
           IN  q \in Seq(T) /\ \E g : Picks(g, q, s, S, n + 1)
<1>0. n + 1 \in 1..Len(s) /\ s[n + 1] \in T /\ Len(r) \in Nat
  OBVIOUS
<1>1. CASE s[n + 1] \notin S
  <2>1. Picks(f, r, s, S, n + 1)
    <3>1. f \in [1..Len(r) -> 1..n+1]
      BY DEF Picks
    <3>2. \A i \in 1..n+1 : s[i] \in S => \E k \in 1..Len(r) : f[k] = i
      BY <1>1 DEF Picks
    <3> QED BY <3>1, <3>2 DEF Picks
  <2> QED BY <1>1, <2>1
<1>2. CASE s[n + 1] \in S
  <2> DEFINE q == Append(r, s[n + 1])
             g == [k \in 1..Len(r)+1 |-> IF k = Len(r) + 1 THEN n + 1 ELSE f[k]]
  <2>1. /\ q \in Seq(T) /\ Len(q) = Len(r) + 1 /\ q[Len(r) + 1] = s[n + 1]
        /\ \A k \in 1..Len(r) : q[k] = r[k]
    BY <1>0
  <2>2. /\ g[Len(r) + 1] = n + 1
        /\ \A k \in 1..Len(r) : g[k] = f[k] /\ f[k] \in 1..n
    BY <1>0 DEF Picks
  <2>3. \A k \in 1..Len(q) : k \in 1..Len(r) \/ k = Len(r) + 1
    BY <1>0, <2>1
  <2>4. g \in [1..Len(q) -> 1..n+1]
    <3>1. \A k \in 1..Len(q) : g[k] \in 1..n+1
      <4> HIDE DEF q, g
      <4> QED BY <2>1, <2>2, <2>3
    <3>2. g = [k \in 1..Len(q) |-> IF k = Len(r) + 1 THEN n + 1 ELSE f[k]]
      BY <2>1
    <3> HIDE DEF q
    <3> QED BY <3>1, <3>2
  <2> HIDE DEF q, g
  <2>5. \A k \in 1..Len(q) : q[k] = s[g[k]] /\ s[g[k]] \in S
    BY <1>2, <2>1, <2>2, <2>3 DEF Picks
  <2>6. \A k, l \in 1..Len(q) : k < l => g[k] < g[l]
    <3> SUFFICES ASSUME NEW k \in 1..Len(q), NEW l \in 1..Len(q), k < l PROVE g[k] < g[l]
      OBVIOUS
    <3>1. k \in 1..Len(r)
      BY <1>0, <2>1, <2>3
    <3>2. CASE l \in 1..Len(r)
      BY <2>2, <3>1, <3>2 DEF Picks
    <3>3. CASE l = Len(r) + 1
      BY <2>2, <3>1, <3>3
    <3> QED BY <2>3, <3>2, <3>3
  <2>7. ASSUME NEW i \in 1..n+1, s[i] \in S PROVE \E k \in 1..Len(q) : g[k] = i
    <3>1. CASE i = n + 1
      BY <1>0, <2>1, <2>2, <3>1
    <3>2. CASE i # n + 1
      <4>1. i \in 1..n
        BY <3>2
      <4>2. PICK k \in 1..Len(r) : f[k] = i
        BY <2>7, <4>1 DEF Picks
      <4> QED BY <1>0, <2>1, <2>2, <4>2
    <3> QED BY <3>1, <3>2
  <2>8. Picks(g, q, s, S, n + 1)
    BY <2>4, <2>5, <2>6, <2>7 DEF Picks
  <2> QED BY <1>2, <2>1, <2>8 DEF q
<1> QED BY <1>1, <1>2

LEMMA OnlyPicks ==
    ASSUME NEW T, NEW s \in Seq(T), NEW S
    PROVE  Only(s, S) \in Seq(T) /\ \E f : Picks(f, Only(s, S), s, S, Len(s))
<1> DEFINE D(h) == [n \in 0..Len(s) |->
                      IF n = 0 THEN <<>>
                      ELSE IF s[n] \in S THEN Append(h[n - 1], s[n]) ELSE h[n - 1]]
           F == [p \in (1..Len(s)) \X Seq(T) |->
                      IF s[p[1]] \in S THEN Append(p[2], s[p[1]]) ELSE p[2]]
           kept == CHOOSE h : h = D(h)
<1>0. Len(s) \in Nat /\ \A n \in 1..Len(s) : s[n] \in T
  OBVIOUS
<1>1. \E h : h = D(h)
  <2>1. F \in [(1..Len(s)) \X Seq(T) -> Seq(T)]
    BY <1>0
  <2>2. <<>> \in Seq(T) /\ 0 \in Nat /\ 0 <= Len(s) /\ (0+1)..Len(s) = 1..Len(s)
    BY <1>0
  <2>3. \A i \in 1..Len(s), h \in [0..Len(s) -> Seq(T)] :
           F[<<i, h[i - 1]>>] = IF s[i] \in S THEN Append(h[i - 1], s[i]) ELSE h[i - 1]
    <3> TAKE i \in 1..Len(s), h \in [0..Len(s) -> Seq(T)]
    <3>1. <<i, h[i - 1]>> \in (1..Len(s)) \X Seq(T)
      <4>1. i - 1 \in 0..Len(s)
        BY <1>0
      <4>2. h[i - 1] \in Seq(T)
        BY <4>1
      <4> QED BY <4>2
    <3> QED BY <3>1
  <2> HIDE DEF F
  <2>4. PICK h \in [0..Len(s) -> Seq(T)] : Recursion(h, 0, Len(s), <<>>, F)
    <3> HIDE <2>3
    <3> QED BY <1>0, <2>1, <2>2, RecursionExists
  <2>5. \A n \in 0..Len(s) : h[n] = D(h)[n]
    <3> TAKE n \in 0..Len(s)
    <3>1. h[n] = IF n = 0 THEN <<>> ELSE F[<<n, h[n - 1]>>]
      BY <2>4 DEF Recursion
    <3>2. n = 0 \/ n \in 1..Len(s)
      OBVIOUS
    <3> QED BY <3>1, <3>2, <2>3
  <2>6. h = D(h)
    BY <2>4, <2>5
  <2> QED BY <2>6
<1>2. kept = D(kept)
  BY <1>1
<1>3. Only(s, S) = kept[Len(s)]
  BY DEF Only
<1> HIDE DEF kept
<1>4. /\ kept[0] = <<>>
      /\ \A n \in 0..Len(s)-1 :
            kept[n + 1] = IF s[n + 1] \in S THEN Append(kept[n], s[n + 1]) ELSE kept[n]
  <2>1. 0 \in 0..Len(s)
    BY <1>0
  <2>2. \A n \in 0..Len(s)-1 : n + 1 \in 0..Len(s) /\ n + 1 # 0 /\ (n + 1) - 1 = n
    BY <1>0
  <2> QED BY <1>2, <2>1, <2>2
<1> DEFINE P == {n \in 0..Len(s) : kept[n] \in Seq(T) /\ \E f : Picks(f, kept[n], s, S, n)}
<1>5. 0 \in P
  <2>1. Picks(<<>>, <<>>, s, S, 0)
    BY DEF Picks
  <2>2. 0 \in 0..Len(s) /\ <<>> \in Seq(T)
    BY <1>0
  <2>3. kept[0] \in Seq(T) /\ \E f : Picks(f, kept[0], s, S, 0)
    BY <1>4, <2>1, <2>2
  <2> QED BY <2>2, <2>3
<1>6. ASSUME NEW n \in 0..Len(s)-1, n \in P PROVE n + 1 \in P
  <2>1. PICK f : kept[n] \in Seq(T) /\ Picks(f, kept[n], s, S, n)
    BY <1>6
  <2>2. n \in Nat /\ n < Len(s) /\ n + 1 \in 0..Len(s)
    BY <1>0
  <2>3. kept[n + 1] \in Seq(T) /\ \E g : Picks(g, kept[n + 1], s, S, n + 1)
    <3>1. kept[n + 1] = IF s[n + 1] \in S THEN Append(kept[n], s[n + 1]) ELSE kept[n]
      BY <1>4
    <3> HIDE DEF P
    <3> QED BY <2>1, <2>2, <3>1, PicksOneMore
  <2> QED BY <2>2, <2>3
<1> HIDE DEF P
<1>7. \A n \in 0..Len(s) : n \in P
  BY <1>0, <1>5, <1>6, BoundedInduction
<1>8. Len(s) \in P
  BY <1>0, <1>7
<1> QED BY <1>3, <1>8 DEF P

(* What a filter keeps: the entries, whether they are distinct, their order.   *)
Distinct(s) == \A i, j \in 1..Len(s) : s[i] = s[j] => i = j

LEMMA OnlyKeeps ==
    ASSUME NEW T, NEW s \in Seq(T), NEW S
    PROVE  /\ Only(s, S) \in Seq(T)
           /\ Range(Only(s, S)) = Range(s) \cap S
           /\ Distinct(s) => Distinct(Only(s, S))
<1>1. PICK f : Only(s, S) \in Seq(T) /\ Picks(f, Only(s, S), s, S, Len(s))
  BY OnlyPicks
<1>2. PICK r : r = Only(s, S)
  OBVIOUS
<1>3. /\ r \in Seq(T) /\ Len(r) \in Nat /\ DOMAIN r = 1..Len(r)
      /\ Len(s) \in Nat /\ DOMAIN s = 1..Len(s)
      /\ f \in [1..Len(r) -> 1..Len(s)]
      /\ \A k \in 1..Len(r) : r[k] = s[f[k]] /\ s[f[k]] \in S
      /\ \A k, l \in 1..Len(r) : k < l => f[k] < f[l]
      /\ \A i \in 1..Len(s) : s[i] \in S => \E k \in 1..Len(r) : f[k] = i
  BY <1>1, <1>2 DEF Picks
<1>4. Range(r) = Range(s) \cap S
  <2>1. ASSUME NEW x \in Range(r) PROVE x \in Range(s) \cap S
    <3>1. PICK k \in 1..Len(r) : x = r[k]
      BY <1>3 DEF Range
    <3> QED BY <1>3, <3>1 DEF Range
  <2>2. ASSUME NEW x \in Range(s) \cap S PROVE x \in Range(r)
    <3>1. PICK i \in 1..Len(s) : x = s[i]
      BY <1>3 DEF Range
    <3>2. PICK k \in 1..Len(r) : f[k] = i
      BY <1>3, <3>1
    <3>3. r[k] = x
      BY <1>3, <3>1, <3>2
    <3> QED BY <1>3, <3>3 DEF Range
  <2> QED BY <2>1, <2>2
<1>5. ASSUME Distinct(s),
             NEW i \in 1..Len(r), NEW j \in 1..Len(r), r[i] = r[j]
      PROVE  i = j
  <2>1. f[i] = f[j] /\ f[i] \in Nat /\ f[j] \in Nat
    BY <1>3, <1>5 DEF Distinct
  <2>2. ~(i < j) /\ ~(j < i)
    BY <1>3, <2>1
  <2> QED BY <2>2
<1> QED BY <1>2, <1>3, <1>4, <1>5 DEF Distinct

LEMMA PrefixOf ==
    ASSUME NEW T, NEW s \in Seq(T), NEW n \in 0..Len(s)
    PROVE  /\ SubSeq(s, 1, n) \in Seq(T) /\ Len(SubSeq(s, 1, n)) = n
           /\ \A i \in 1..n : SubSeq(s, 1, n)[i] = s[i]
OBVIOUS

-----------------------------------------------------------------------------
(* FlattenSeq: the prefixes of s, one after the other.                         *)
Flattens(f, s) == f[1] = s[1] /\ \A i \in 2..Len(s) : f[i] = f[i - 1] \o s[i]

LEMMA FlattenIs ==
    ASSUME NEW T, NEW s \in Seq(Seq(T)), s # <<>>
    PROVE  \E f : /\ Flattens(f, s) /\ FlattenSeq(s) = f[Len(s)]
                  /\ \A i \in 1..Len(s) : f[i] \in Seq(T)
<1> DEFINE D(h) == [i \in 1..Len(s) |-> IF i = 1 THEN s[i] ELSE h[i - 1] \o s[i]]
           F == [p \in (2..Len(s)) \X Seq(T) |-> p[2] \o s[p[1]]]
           flat == CHOOSE h : h = D(h)
<1>0. Len(s) \in Nat /\ 1 <= Len(s) /\ \A n \in 1..Len(s) : s[n] \in Seq(T)
  OBVIOUS
<1>1. \E h : h = D(h)
  <2>1. F \in [((1+1)..Len(s)) \X Seq(T) -> Seq(T)]
    BY <1>0
  <2>2. s[1] \in Seq(T) /\ 1 \in Nat
    BY <1>0
  <2>3. \A i \in 2..Len(s), h \in [1..Len(s) -> Seq(T)] :
           F[<<i, h[i - 1]>>] = h[i - 1] \o s[i]
    <3> TAKE i \in 2..Len(s), h \in [1..Len(s) -> Seq(T)]
    <3>1. i - 1 \in 1..Len(s)
      BY <1>0
    <3>2. <<i, h[i - 1]>> \in (2..Len(s)) \X Seq(T)
      BY <3>1
    <3> QED BY <3>2
  <2> HIDE DEF F
  <2>4. PICK h \in [1..Len(s) -> Seq(T)] : Recursion(h, 1, Len(s), s[1], F)
    <3> HIDE <2>3
    <3> QED BY <1>0, <2>1, <2>2, RecursionExists
  <2>5. \A n \in 1..Len(s) : h[n] = D(h)[n]
    <3> TAKE n \in 1..Len(s)
    <3>1. h[n] = IF n = 1 THEN s[1] ELSE F[<<n, h[n - 1]>>]
      BY <2>4 DEF Recursion
    <3>2. n = 1 \/ n \in 2..Len(s)
      OBVIOUS
    <3> QED BY <3>1, <3>2, <2>3
  <2>6. h = D(h)
    BY <2>4, <2>5
  <2> QED BY <2>6
<1>2. flat = D(flat)
  BY <1>1
<1>3. FlattenSeq(s) = flat[Len(s)]
  BY <1>0 DEF FlattenSeq
<1> HIDE DEF flat
<1>4. Flattens(flat, s)
  <2>1. flat[1] = s[1]
    BY <1>0, <1>2
  <2>2. \A i \in 2..Len(s) : i \in 1..Len(s) /\ i # 1
    OBVIOUS
  <2>3. \A i \in 2..Len(s) : flat[i] = flat[i - 1] \o s[i]
    BY <1>2, <2>2
  <2> QED BY <2>1, <2>3 DEF Flattens
<1> DEFINE P == {i \in 1..Len(s) : flat[i] \in Seq(T)}
<1>5. 1 \in P
  BY <1>0, <1>4 DEF Flattens
<1>6. ASSUME NEW i \in 1..Len(s)-1, i \in P PROVE i + 1 \in P
  <2>1. i + 1 \in 2..Len(s) /\ i + 1 \in 1..Len(s) /\ (i + 1) - 1 = i
    BY <1>0
  <2>2. flat[i + 1] = flat[i] \o s[i + 1]
    BY <1>4, <2>1 DEF Flattens
  <2>3. flat[i] \in Seq(T) /\ s[i + 1] \in Seq(T)
    BY <1>0, <1>6, <2>1
  <2>4. flat[i] \o s[i + 1] \in Seq(T)
    BY <2>3
  <2> QED BY <2>1, <2>2, <2>4
<1> HIDE DEF P
<1>7. \A i \in 1..Len(s) : i \in P
  BY <1>0, <1>5, <1>6, BoundedInduction
<1> QED BY <1>3, <1>4, <1>7 DEF P

(* Flattening as much of s is what the flattening of s has up to there.        *)
LEMMA FlattenUnique ==
    ASSUME NEW T, NEW s \in Seq(Seq(T)), NEW n \in 1..Len(s), NEW f, Flattens(f, s),
           NEW g, Flattens(g, SubSeq(s, 1, n))
    PROVE  \A i \in 1..n : f[i] = g[i]
<1>1. /\ n \in Nat /\ 1 <= n /\ n <= Len(s) /\ Len(SubSeq(s, 1, n)) = n
      /\ \A i \in 1..n : SubSeq(s, 1, n)[i] = s[i]
  OBVIOUS
<1> DEFINE P == {i \in 1..n : f[i] = g[i]}
<1>2. 1 \in P
  BY <1>1 DEF Flattens
<1>3. ASSUME NEW i \in 1..n-1, i \in P PROVE i + 1 \in P
  <2>1. i + 1 \in 1..n /\ i + 1 \in 2..n /\ i + 1 \in 2..Len(s) /\ (i + 1) - 1 = i
    BY <1>1
  <2>2. f[i + 1] = f[i] \o s[i + 1] /\ g[i + 1] = g[i] \o s[i + 1]
    BY <1>1, <2>1 DEF Flattens
  <2> QED BY <1>3, <2>1, <2>2
<1> HIDE DEF P
<1>4. \A i \in 1..n : i \in P
  BY <1>1, <1>2, <1>3, BoundedInduction
<1> QED BY <1>4 DEF P

LEMMA FlattenStep ==
    ASSUME NEW T, NEW s \in Seq(Seq(T))
    PROVE  /\ FlattenSeq(s) \in Seq(T)
           /\ FlattenSeq(<<>>) = <<>>
           /\ \A n \in 1..Len(s) :
                 FlattenSeq(SubSeq(s, 1, n)) = FlattenSeq(SubSeq(s, 1, n - 1)) \o s[n]
<1>1. FlattenSeq(<<>>) = <<>>
  BY DEF FlattenSeq
<1>2. FlattenSeq(s) \in Seq(T)
  <2>1. CASE s = <<>>
    <3>1. <<>> \in Seq(T)
      OBVIOUS
    <3> QED BY <1>1, <2>1, <3>1
  <2>2. CASE s # <<>>
    <3>1. Len(s) \in 1..Len(s)
      BY <2>2
    <3> QED BY <2>2, <3>1, FlattenIs
  <2> QED BY <2>1, <2>2
<1>3. ASSUME NEW n \in 1..Len(s)
      PROVE  FlattenSeq(SubSeq(s, 1, n)) = FlattenSeq(SubSeq(s, 1, n - 1)) \o s[n]
  <2>1. PICK t : t = SubSeq(s, 1, n)
    OBVIOUS
  <2>2. /\ t \in Seq(Seq(T)) /\ Len(t) = n /\ t # <<>> /\ n \in Nat /\ 1 <= n
        /\ \A i \in 1..n : t[i] = s[i]
    <3>1. n \in 0..Len(s) /\ n \in Nat /\ 1 <= n
      OBVIOUS
    <3>2. t \in Seq(Seq(T)) /\ Len(t) = n /\ \A i \in 1..n : t[i] = s[i]
      BY <2>1, <3>1, PrefixOf
    <3> QED BY <3>1, <3>2
  <2>3. PICK f : /\ Flattens(f, t) /\ FlattenSeq(t) = f[n]
                 /\ \A i \in 1..n : f[i] \in Seq(T)
    BY <2>2, FlattenIs
  <2>4. CASE n = 1
    <3>1. SubSeq(s, 1, n - 1) = <<>>
      BY <2>4
    <3>2. s[1] \in Seq(T)
      BY <2>2
    <3>3. FlattenSeq(t) = s[1]
      BY <2>2, <2>3, <2>4 DEF Flattens
    <3>4. <<>> \o s[1] = s[1]
      BY <3>2
    <3> QED BY <1>1, <2>1, <2>4, <3>1, <3>3, <3>4
  <2>5. CASE n # 1
    <3>1. PICK u : u = SubSeq(t, 1, n - 1)
      OBVIOUS
    <3>2. u \in Seq(Seq(T)) /\ Len(u) = n - 1 /\ u # <<>> /\ n - 1 \in 1..Len(t) /\ n \in 2..Len(t)
      <4>1. n - 1 \in 0..Len(t) /\ n - 1 \in 1..Len(t) /\ n \in 2..Len(t)
        BY <2>2, <2>5
      <4>2. u \in Seq(Seq(T)) /\ Len(u) = n - 1
        BY <2>2, <3>1, <4>1, PrefixOf
      <4> QED BY <4>1, <4>2
    <3>3. PICK g : Flattens(g, u) /\ FlattenSeq(u) = g[n - 1]
      BY <3>2, FlattenIs
    <3>4. f[n - 1] = g[n - 1]
      <4>1. \A i \in 1..n-1 : f[i] = g[i]
        <5>1. PICK m : m = n - 1
          OBVIOUS
        <5>2. t \in Seq(Seq(T)) /\ m \in 1..Len(t) /\ Flattens(f, t)
              /\ Flattens(g, SubSeq(t, 1, m))
          BY <2>2, <2>3, <3>1, <3>2, <3>3, <5>1
        <5>3. \A i \in 1..m : f[i] = g[i]
          BY <5>2, FlattenUnique, SMTT(30)
        <5> QED BY <5>1, <5>3
      <4> QED BY <3>2, <4>1
    <3>5. FlattenSeq(t) = FlattenSeq(u) \o s[n]
      <4>1. f[n] = f[n - 1] \o t[n]
        BY <2>3, <3>2 DEF Flattens
      <4>2. n \in 1..n
        BY <2>2
      <4> QED BY <2>2, <2>3, <3>3, <3>4, <4>1, <4>2
    <3>6. u = SubSeq(s, 1, n - 1)
      BY <2>1, <2>2, <3>1
    <3> QED BY <2>1, <3>5, <3>6
  <2> QED BY <2>4, <2>5
<1> QED BY <1>1, <1>2, <1>3

-----------------------------------------------------------------------------
(* Minima and maxima.                                                          *)
LEMMA MinOfNaturals ==
    ASSUME NEW S \in SUBSET Nat, S # {}
    PROVE  Min(S) \in S /\ \A x \in S : Min(S) <= x
<1>1. PICK n \in S : \A m \in S : n <= m
  BY LeastElement
<1> QED BY <1>1 DEF Min

LEMMA MinOfTwo ==
    ASSUME NEW a \in Int, NEW b \in Int
    PROVE  Min({a, b}) = IF a <= b THEN a ELSE b
<1>1. PICK m : m = IF a <= b THEN a ELSE b
  OBVIOUS
<1>2. m \in {a, b} /\ \A y \in {a, b} : m <= y
  BY <1>1
<1>3. Min({a, b}) \in {a, b} /\ \A y \in {a, b} : Min({a, b}) <= y
  BY <1>2 DEF Min
<1> QED BY <1>1, <1>2, <1>3

LEMMA MinOfThree ==
    ASSUME NEW a \in Int, NEW b \in Int, NEW c \in Int
    PROVE  /\ Min({a, b, c}) \in {a, b, c}
           /\ Min({a, b, c}) <= a /\ Min({a, b, c}) <= b /\ Min({a, b, c}) <= c
<1>1. \E m \in {a, b, c} : \A y \in {a, b, c} : m <= y
  <2>1. CASE a <= b /\ a <= c
    BY <2>1
  <2>2. CASE b <= a /\ b <= c
    BY <2>2
  <2>3. CASE c <= a /\ c <= b
    BY <2>3
  <2> QED BY <2>1, <2>2, <2>3
<1>2. Min({a, b, c}) \in {a, b, c} /\ \A y \in {a, b, c} : Min({a, b, c}) <= y
  BY <1>1 DEF Min
<1> QED BY <1>2

LEMMA MaxOfTwo ==
    ASSUME NEW a \in Int, NEW b \in Int
    PROVE  Max({a, b}) = IF a >= b THEN a ELSE b
<1>1. PICK m : m = IF a >= b THEN a ELSE b
  OBVIOUS
<1>2. m \in {a, b} /\ \A y \in {a, b} : m >= y
  BY <1>1
<1>3. Max({a, b}) \in {a, b} /\ \A y \in {a, b} : Max({a, b}) >= y
  BY <1>2 DEF Max
<1> QED BY <1>1, <1>2, <1>3

-----------------------------------------------------------------------------
(* Numbers of blocks.                                                          *)
LEMMA Division ==
    ASSUME NEW a \in Int
    PROVE  /\ a \div BlockSize \in Int
           /\ (a \div BlockSize) * BlockSize <= a
           /\ a < (a \div BlockSize) * BlockSize + BlockSize
           /\ a >= 0 => a \div BlockSize \in Nat
           /\ a % BlockSize \in 0..BlockSize-1
           /\ a % BlockSize = 0 <=> a = (a \div BlockSize) * BlockSize
<1>1. BlockSize \in Nat /\ BlockSize >= 1
  BY SchedulerAssumption
<1> QED BY <1>1, Z3

LEMMA DivisionUnique ==
    ASSUME NEW a \in Int, NEW k \in Int, k * BlockSize <= a, a < k * BlockSize + BlockSize
    PROVE  a \div BlockSize = k
<1>1. BlockSize \in Nat /\ BlockSize >= 1
  BY SchedulerAssumption
<1> QED BY <1>1, Z3

LEMMA Products ==
    ASSUME NEW i \in Int, NEW k \in Int
    PROVE  /\ i * BlockSize \in Int /\ (i + 1) * BlockSize = i * BlockSize + BlockSize
           /\ (i + k) * BlockSize = i * BlockSize + k * BlockSize
           /\ i <= k <=> i * BlockSize <= k * BlockSize
           /\ i < k => i * BlockSize + BlockSize <= k * BlockSize
           /\ i >= 0 => i * BlockSize \in Nat
BY SchedulerAssumption

(* CeilDiv(a, BlockSize) blocks hold a tokens, and no fewer do.                *)
LEMMA Ceil ==
    ASSUME NEW a \in Nat
    PROVE  /\ CeilDiv(a, BlockSize) \in Nat
           /\ a <= CeilDiv(a, BlockSize) * BlockSize
           /\ CeilDiv(a, BlockSize) * BlockSize < a + BlockSize
           /\ CeilDiv(a, BlockSize) \in {a \div BlockSize, a \div BlockSize + 1}
           /\ CeilDiv(a, BlockSize) = a \div BlockSize <=> a % BlockSize = 0
<1>1. BlockSize \in Nat /\ BlockSize >= 1 /\ BlockSize \in Int
  BY SchedulerAssumption
<1>2. PICK k : k = (a + BlockSize - 1) \div BlockSize
  OBVIOUS
<1>3. PICK l : l = a \div BlockSize
  OBVIOUS
<1>4. k \in Nat /\ k * BlockSize <= a + BlockSize - 1 /\ a + BlockSize - 1 < k * BlockSize + BlockSize
  BY <1>1, <1>2, Division
<1>5. /\ l \in Nat /\ l * BlockSize <= a /\ a < l * BlockSize + BlockSize
      /\ (a % BlockSize = 0) = (a = l * BlockSize)
  BY <1>3, Division
<1>6. k * BlockSize \in Int /\ l * BlockSize \in Int /\ (l + 1) * BlockSize = l * BlockSize + BlockSize
  BY <1>4, <1>5, Products
<1>7. k = l \/ k = l + 1
  <2>1. ~(k < l)
    <3> SUFFICES ASSUME k < l PROVE FALSE
      OBVIOUS
    <3>1. k * BlockSize + BlockSize <= l * BlockSize
      BY <1>4, <1>5, Products
    <3> QED BY <1>1, <1>4, <1>5, <1>6, <3>1
  <2>2. ~(l + 1 < k)
    <3> SUFFICES ASSUME l + 1 < k PROVE FALSE
      OBVIOUS
    <3>1. (l + 1) * BlockSize + BlockSize <= k * BlockSize
      BY <1>4, <1>5, Products
    <3> QED BY <1>1, <1>4, <1>5, <1>6, <3>1
  <2> QED BY <1>4, <1>5, <2>1, <2>2
<1>8. k = l <=> a = l * BlockSize
  <2>1. CASE k = l
    BY <1>1, <1>4, <1>5, <1>6, <2>1
  <2>2. CASE k = l + 1
    BY <1>1, <1>4, <1>5, <1>6, <2>2
  <2> QED BY <1>7, <2>1, <2>2
<1>9. CeilDiv(a, BlockSize) = k
  BY <1>2 DEF CeilDiv
<1> QED BY <1>1, <1>3, <1>4, <1>5, <1>6, <1>7, <1>8, <1>9

-----------------------------------------------------------------------------
(* Cache lookups.                                                              *)
LEMMA HitPrefix ==
    ASSUME NEW T, NEW hs \in Seq(T), NEW max \in Int, max >= 0
    PROVE  \E n \in 0..Len(hs) :
              /\ LongestHit(hs, max) = SubSeq(hs, 1, n)
              /\ LongestHit(hs, max) \in Seq(T) /\ Len(LongestHit(hs, max)) = n
              /\ n * BlockSize <= max
              /\ \A i \in 1..n : Cached(hs[i]) /\ LongestHit(hs, max)[i] = hs[i]
              /\ (\A i \in 1..Len(hs) : i * BlockSize <= max => Cached(hs[i])) =>
                    n = Len(hs) \/ n = max \div BlockSize
<1>0. PICK m : m = max \div BlockSize
  OBVIOUS
<1>1. /\ m \in Nat /\ m * BlockSize <= max /\ max < m * BlockSize + BlockSize
      /\ Len(hs) \in Nat
  BY <1>0, Division
<1>2. PICK l : l = Min({Len(hs), m})
  OBVIOUS
<1>3. l \in 0..Len(hs) /\ l <= m /\ l \in Nat /\ (l = Len(hs) \/ l = m)
  BY <1>1, <1>2, MinOfTwo
<1>4. PICK miss : miss = {i \in 1..l : ~Cached(hs[i])}
  OBVIOUS
<1>5. PICK n : n = IF miss = {} THEN l ELSE Min(miss) - 1
  OBVIOUS
<1>6. n \in 0..l /\ \A i \in 1..n : i \notin miss
  <2>1. CASE miss = {}
    BY <1>3, <1>5, <2>1
  <2>2. CASE miss # {}
    <3>1. miss \in SUBSET Nat /\ miss \subseteq 1..l
      BY <1>3, <1>4
    <3>2. Min(miss) \in miss /\ \A x \in miss : Min(miss) <= x
      BY <2>2, <3>1, MinOfNaturals
    <3>3. n \in 0..l
      <4>1. PICK x : x = Min(miss)
        OBVIOUS
      <4>2. x \in 1..l /\ n = x - 1
        BY <1>5, <2>2, <3>1, <3>2, <4>1
      <4> QED BY <1>3, <4>2
    <3>4. ASSUME NEW i \in 1..n, i \in miss PROVE FALSE
      <4>1. PICK x : x = Min(miss)
        OBVIOUS
      <4>2. x \in 1..l /\ n = x - 1 /\ x <= i
        BY <1>5, <2>2, <3>1, <3>2, <3>4, <4>1
      <4>3. i \in 1..l /\ i \in 1..x-1
        BY <3>1, <3>4, <4>2
      <4> QED BY <1>3, <4>2, <4>3
    <3> QED BY <3>3, <3>4
  <2> QED BY <2>1, <2>2
<1>7. LongestHit(hs, max) = SubSeq(hs, 1, n)
  BY <1>0, <1>2, <1>4, <1>5 DEF LongestHit
<1>8. n \in 0..Len(hs) /\ n <= m /\ n \in Nat
  BY <1>1, <1>3, <1>6
<1>9. /\ SubSeq(hs, 1, n) \in Seq(T) /\ Len(SubSeq(hs, 1, n)) = n
      /\ \A i \in 1..n : SubSeq(hs, 1, n)[i] = hs[i]
  BY <1>8, PrefixOf
<1>10. n * BlockSize <= max
  <2>1. n * BlockSize <= m * BlockSize /\ n * BlockSize \in Int /\ m * BlockSize \in Int
    BY <1>1, <1>8, Products
  <2> QED BY <1>1, <2>1
<1>11. \A i \in 1..n : Cached(hs[i])
  BY <1>3, <1>4, <1>6
<1>12. ASSUME \A i \in 1..Len(hs) : i * BlockSize <= max => Cached(hs[i])
       PROVE  n = Len(hs) \/ n = m
  <2>1. ASSUME NEW i \in 1..l PROVE Cached(hs[i])
    <3>1. i \in 1..Len(hs) /\ i <= m /\ i \in Int
      BY <1>1, <1>3
    <3>2. i * BlockSize <= m * BlockSize /\ i * BlockSize \in Int /\ m * BlockSize \in Int
      BY <1>1, <3>1, Products
    <3>3. i * BlockSize <= max
      BY <1>1, <3>2
    <3> QED BY <1>12, <3>1, <3>3
  <2>2. miss = {}
    BY <1>4, <2>1
  <2> QED BY <1>3, <1>5, <2>2
<1> QED BY <1>0, <1>7, <1>8, <1>9, <1>10, <1>11, <1>12
-----------------------------------------------------------------------------
(* Requests.                                                                   *)
LEMMA UserFacts ==
    ASSUME NEW r \in Request
    PROVE  /\ User(r) \in Id /\ ~IsDoc(User(r)) /\ User(r)[1] = r
           /\ \A d \in DOMAIN Docs[r] : /\ DocId(User(r), d) \in Id /\ IsDoc(DocId(User(r), d))
                                        /\ DocId(User(r), d) # User(r)
<1>1. User(r) \in Id /\ ~IsDoc(User(r)) /\ User(r)[1] = r
  BY DEF Id, Users, User, IsDoc
<1>2. ASSUME NEW d \in DOMAIN Docs[r]
      PROVE  /\ DocId(User(r), d) \in Id /\ IsDoc(DocId(User(r), d))
             /\ DocId(User(r), d) # User(r)
  <2>1. d \in Nat /\ d > 0
    BY SchedulerAssumption
  <2>2. DocId(User(r), d) = <<r, d>>
    BY DEF DocId, User
  <2>3. DocId(User(r), d) \in Id
    BY DEF Id
  <2> QED BY <2>1, <2>2, <2>3 DEF IsDoc, User
<1> QED BY <1>1, <1>2

LEMMA IdFacts ==
    ASSUME NEW id \in Id
    PROVE  /\ id[1] \in Request
           /\ IsDoc(id) => /\ id[2] \in DOMAIN Docs[id[1]]
                           /\ id = DocId(User(id[1]), id[2])
           /\ ~IsDoc(id) => id = User(id[1])
           /\ IsDoc(id) \in BOOLEAN
<1>1. CASE id \in Users
  <2>1. PICK r \in Request : id = <<r, 0>>
    BY <1>1 DEF Users, User
  <2> QED BY <2>1 DEF IsDoc, User
<1>2. CASE id \notin Users
  <2>1. PICK r \in Request : id \in {DocId(User(r), d) : d \in DOMAIN Docs[r]}
    BY <1>2 DEF Id
  <2>2. PICK d \in DOMAIN Docs[r] : id = <<r, d>>
    BY <2>1 DEF DocId, User
  <2>3. d \in Nat /\ d > 0
    BY SchedulerAssumption
  <2> QED BY <2>2, <2>3 DEF IsDoc, DocId, User
<1> QED BY <1>1, <1>2

LEMMA DocsFacts ==
    ASSUME NEW id \in Id
    PROVE  /\ DocsOf(id) \in Seq(Seq(Int)) /\ PromptOf(id) \in Seq(Int)
           /\ IsDoc(id) => DocsOf(id) = <<>>
           /\ \A d \in DOMAIN DocsOf(id) :
                 /\ DocsOf(id)[d] \in Seq(Int) /\ Len(DocsOf(id)[d]) % BlockSize = 0
                 /\ DocId(id, d) \in Id /\ IsDoc(DocId(id, d))
                 /\ DocId(id, d)[1] = id[1] /\ id = User(id[1])
                 /\ PromptOf(DocId(id, d)) = DocsOf(id)[d]
<1>1. <<>> \in Seq(Seq(Int)) /\ DOMAIN <<>> = {}
  OBVIOUS
<1>2. CASE IsDoc(id)
  <2>1. id[1] \in Request /\ id[2] \in DOMAIN Docs[id[1]]
    BY <1>2, IdFacts
  <2>2. Docs[id[1]] \in Seq(Seq(Int))
    BY <2>1, SchedulerAssumption
  <2>3. Docs[id[1]][id[2]] \in Seq(Int)
    BY <2>1, <2>2
  <2> QED BY <1>1, <1>2, <2>3 DEF DocsOf, PromptOf
<1>3. CASE ~IsDoc(id)
  <2>1. PICK r \in Request : r = id[1] /\ id = User(r)
    BY <1>3, IdFacts
  <2>2. DocsOf(id) = Docs[r] /\ PromptOf(id) = Prompt[r]
    BY <1>3, <2>1 DEF DocsOf, PromptOf
  <2>3. Docs[r] \in Seq(Seq(Int)) /\ Prompt[r] \in Seq(Int)
    BY SchedulerAssumption
  <2>4. ASSUME NEW d \in DOMAIN Docs[r]
        PROVE  /\ Docs[r][d] \in Seq(Int) /\ Len(Docs[r][d]) % BlockSize = 0
               /\ DocId(id, d) \in Id /\ IsDoc(DocId(id, d))
               /\ DocId(id, d)[1] = id[1] /\ id = User(id[1])
               /\ PromptOf(DocId(id, d)) = Docs[r][d]
    <3>1. DocId(id, d) \in Id /\ IsDoc(DocId(id, d))
      BY <2>1, UserFacts
    <3>2. DocId(id, d)[1] = id[1] /\ DocId(id, d)[2] = d
      BY DEF DocId
    <3>3. Docs[r][d] \in Seq(Int) /\ Len(Docs[r][d]) % BlockSize = 0
      BY <2>3, SchedulerAssumption
    <3> QED BY <2>1, <3>1, <3>2, <3>3 DEF PromptOf
  <2> QED BY <1>3, <2>2, <2>3, <2>4
<1> QED BY <1>2, <1>3

LEMMA TokensFacts ==
    ASSUME NEW id \in Id, NEW m \in BOOLEAN, out[id] \in Nat
    PROVE  /\ FlattenSeq(DocsOf(id)) \in Seq(Int)
           /\ DocLen(id, m) \in Nat /\ (~m => DocLen(id, m) = 0)
           /\ Tokens(id, m) \in Seq(Int)
           /\ Len(Tokens(id, m)) = DocLen(id, m) + Len(PromptOf(id)) + out[id]
           /\ Len(PromptOf(id)) \in Nat
<1>1. FlattenSeq(DocsOf(id)) \in Seq(Int) /\ PromptOf(id) \in Seq(Int)
  BY DocsFacts, FlattenStep
<1>2. PICK o : o = [i \in 1..out[id] |-> GenToken]
  OBVIOUS
<1>3. o \in Seq(Int) /\ Len(o) = out[id]
  BY <1>2, SchedulerAssumption
<1>4. PICK p : p = IF m THEN FlattenSeq(DocsOf(id)) ELSE <<>>
  OBVIOUS
<1>5. p \in Seq(Int) /\ Len(p) = DocLen(id, m)
  <2>1. <<>> \in Seq(Int) /\ Len(<<>>) = 0
    OBVIOUS
  <2> QED BY <1>1, <1>4, <2>1 DEF DocLen
<1>6. Tokens(id, m) = p \o PromptOf(id) \o o
  BY <1>2, <1>4 DEF Tokens
<1>7. (p \o PromptOf(id)) \in Seq(Int) /\ Len(p \o PromptOf(id)) = Len(p) + Len(PromptOf(id))
  BY <1>1, <1>5, ConcatProperties
<1>8. /\ (p \o PromptOf(id)) \o o \in Seq(Int)
      /\ Len((p \o PromptOf(id)) \o o) = Len(p \o PromptOf(id)) + Len(o)
  BY <1>3, <1>7, ConcatProperties
<1>9. Len(p) \in Nat /\ Len(PromptOf(id)) \in Nat
  BY <1>1, <1>5
<1> QED BY <1>1, <1>3, <1>5, <1>6, <1>7, <1>8, <1>9 DEF DocLen

-----------------------------------------------------------------------------
(* Hashes and hits.                                                            *)
LEMMA ChainFacts ==
    ASSUME NEW seed \in Seq(Seq(Int)), NEW toks \in Seq(Int)
    PROVE  /\ HashChain(seed, toks) \in Seq(Key)
           /\ Len(HashChain(seed, toks)) = Len(toks) \div BlockSize
           /\ \A i \in 1..(Len(toks) \div BlockSize) :
                 HashChain(seed, toks)[i] = [docs |-> seed, toks |-> SubSeq(toks, 1, i * BlockSize)]
<1>1. PICK n : n = Len(toks) \div BlockSize
  OBVIOUS
<1>2. n \in Nat /\ n * BlockSize <= Len(toks)
  BY <1>1, Division
<1>3. ASSUME NEW i \in 1..n PROVE SubSeq(toks, 1, i * BlockSize) \in Seq(Int)
  <2>1. i * BlockSize <= n * BlockSize /\ i * BlockSize \in Nat /\ n * BlockSize \in Nat
    <3>1. i \in Int /\ n \in Int /\ i <= n /\ i >= 0 /\ n >= 0
      BY <1>2
    <3> QED BY <3>1, Products
  <2>2. i * BlockSize \in 0..Len(toks)
    BY <1>2, <2>1
  <2> QED BY <2>2, PrefixOf
<1>4. PICK h : h = HashChain(seed, toks)
  OBVIOUS
<1>5. h = [i \in 1..n |-> [docs |-> seed, toks |-> SubSeq(toks, 1, i * BlockSize)]]
  BY <1>1, <1>4 DEF HashChain
<1>6. \A i \in 1..n : [docs |-> seed, toks |-> SubSeq(toks, 1, i * BlockSize)] \in Key
  BY <1>3 DEF Key
<1>7. h \in Seq(Key) /\ Len(h) = n
  BY <1>2, <1>5, <1>6
<1> QED BY <1>1, <1>4, <1>5, <1>7

LEMMA DocHashesFacts ==
    ASSUME NEW id \in Id
    PROVE  /\ DocHashes(id) \in Seq(Seq(Key))
           /\ Len(DocHashes(id)) = Len(DocsOf(id))
           /\ \A d \in DOMAIN DocsOf(id) : DocHashes(id)[d] = HashChain(<<>>, DocsOf(id)[d])
<1>1. PICK n \in Nat : n = Len(DocsOf(id)) /\ DOMAIN DocsOf(id) = 1..n
  BY DocsFacts
<1>2. PICK h : h = DocHashes(id)
  OBVIOUS
<1>3. h = [d \in 1..n |-> HashChain(<<>>, DocsOf(id)[d])]
  BY <1>1, <1>2 DEF DocHashes
<1>4. \A d \in 1..n : HashChain(<<>>, DocsOf(id)[d]) \in Seq(Key)
  <2> TAKE d \in 1..n
  <2>1. <<>> \in Seq(Seq(Int)) /\ DocsOf(id)[d] \in Seq(Int)
    BY <1>1, DocsFacts
  <2> QED BY <2>1, ChainFacts
<1>5. h \in Seq(Seq(Key)) /\ Len(h) = n
  BY <1>3, <1>4
<1> QED BY <1>1, <1>2, <1>3, <1>5

LEMMA HashesOfType ==
    ASSUME NEW id \in Id, NEW X, Key \subseteq X, hashes \in [Id -> Seq(X)],
           out[id] \in Nat, merged[id] \in BOOLEAN
    PROVE  HashesOf(id) \in Seq(X)
<1>1. HashChain(DocsOf(id), Tokens(id, merged[id])) \in Seq(Key)
  BY TokensFacts, DocsFacts, ChainFacts
<1>2. HashChain(DocsOf(id), Tokens(id, merged[id])) \in Seq(X)
  BY <1>1, SeqMonotonic
<1> QED BY <1>2 DEF HashesOf

LEMMA OwnHitType ==
    ASSUME NEW id \in Id, NEW X, HashesOf(id) \in Seq(X), NumTokens(id) \in Nat
    PROVE  OwnHit(id) \in Seq(X)
<1>1. PICK max : max = IF IsDoc(id) THEN NumTokens(id) ELSE NumTokens(id) - 1
  OBVIOUS
<1>2. OwnHit(id) = LongestHit(HashesOf(id), max)
  BY <1>1 DEF OwnHit
<1>3. CASE max >= 0
  <2>1. max \in Int
    BY <1>1
  <2> QED BY <1>2, <1>3, <2>1, HitPrefix
<1>4. CASE ~(max >= 0)
  <2>1. max = -1
    BY <1>1, <1>4
  <2>2. PICK m : m = max \div BlockSize
    OBVIOUS
  <2>3. m = -1
    <3>1. BlockSize \in Nat /\ BlockSize >= 1
      BY SchedulerAssumption
    <3>2. (-1) * BlockSize <= max /\ max < (-1) * BlockSize + BlockSize /\ -1 \in Int /\ max \in Int
      BY <2>1, <3>1
    <3> QED BY <2>2, <3>2, DivisionUnique
  <2>4. Len(HashesOf(id)) \in Nat
    OBVIOUS
  <2>5. PICK l : l = Min({Len(HashesOf(id)), m})
    OBVIOUS
  <2>6. l = -1
    BY <2>3, <2>4, <2>5, MinOfTwo
  <2>7. {i \in 1..l : ~Cached(HashesOf(id)[i])} = {}
    BY <2>6
  <2>8. LongestHit(HashesOf(id), max) = SubSeq(HashesOf(id), 1, l)
    BY <2>2, <2>5, <2>7 DEF LongestHit
  <2>9. SubSeq(HashesOf(id), 1, l) = <<>>
    BY <2>6
  <2>10. <<>> \in Seq(X)
    OBVIOUS
  <2> QED BY <1>2, <2>8, <2>9, <2>10
<1> QED BY <1>3, <1>4

LEMMA DocHit ==
    ASSUME NEW id \in Id, NEW d \in DOMAIN DocsOf(id)
    PROVE  /\ LongestHit(DocHashes(id)[d], Len(DocsOf(id)[d])) \in Seq(Key)
           /\ DocHashes(id)[d] \in Seq(Key)
           /\ Len(DocHashes(id)[d]) * BlockSize = Len(DocsOf(id)[d])
<1>1. /\ DocsOf(id)[d] \in Seq(Int) /\ Len(DocsOf(id)[d]) % BlockSize = 0
      /\ DocHashes(id)[d] = HashChain(<<>>, DocsOf(id)[d])
  BY DocsFacts, DocHashesFacts
<1>2. PICK n \in Nat : n = Len(DocsOf(id)[d])
  BY <1>1
<1>3. <<>> \in Seq(Seq(Int))
  OBVIOUS
<1>4. DocHashes(id)[d] \in Seq(Key) /\ Len(DocHashes(id)[d]) = n \div BlockSize
  <2>1. PICK seed \in Seq(Seq(Int)) : seed = <<>>
    BY <1>3
  <2>2. PICK t \in Seq(Int) : t = DocsOf(id)[d]
    BY <1>1
  <2>3. HashChain(seed, t) \in Seq(Key) /\ Len(HashChain(seed, t)) = Len(t) \div BlockSize
    BY ChainFacts
  <2> QED BY <1>1, <1>2, <2>1, <2>2, <2>3
<1>5. (n \div BlockSize) * BlockSize = n
  BY <1>1, <1>2, Division
<1>6. LongestHit(DocHashes(id)[d], n) \in Seq(Key)
  <2>1. n \in Int /\ n >= 0
    BY <1>2
  <2> QED BY <1>4, <2>1, HitPrefix
<1> QED BY <1>2, <1>4, <1>5, <1>6

LEMMA DocsHitType ==
    ASSUME NEW id \in Id
    PROVE  DocsHit(id) \in Seq(Key) /\ FlattenSeq(DocHashes(id)) \in Seq(Key)
<1> DEFINE Hit(d) == LongestHit(DocHashes(id)[d], Len(DocsOf(id)[d]))
<1>1. PICK n \in Nat : n = Len(DocsOf(id)) /\ DOMAIN DocsOf(id) = 1..n
  BY DocsFacts
<1>2. PICK h : h = [d \in DOMAIN DocsOf(id) |->
                       IF DropFirst /\ Hit(d) # <<>> THEN Tail(Hit(d)) ELSE Hit(d)]
  OBVIOUS
<1>3. \A d \in 1..n : (IF DropFirst /\ Hit(d) # <<>> THEN Tail(Hit(d)) ELSE Hit(d)) \in Seq(Key)
  <2> TAKE d \in 1..n
  <2>1. Hit(d) \in Seq(Key)
    BY <1>1, DocHit
  <2> HIDE DEF Hit
  <2> QED BY <2>1
<1> HIDE DEF Hit
<1>4. h \in Seq(Seq(Key))
  BY <1>1, <1>2, <1>3
<1>5. DocsHit(id) = FlattenSeq(h)
  BY <1>2 DEF DocsHit, Hit
<1> QED BY <1>4, <1>5, DocHashesFacts, FlattenStep

LEMMA AttemptTypes ==
    ASSUME NEW id \in Id, NEW X, Key \subseteq X, hashes \in [Id -> Seq(X)],
           out[id] \in Nat, merged[id] \in BOOLEAN
    PROVE  /\ HashesOf(id) \in Seq(X) /\ OwnHit(id) \in Seq(X)
           /\ AttemptHashes(id) \in Seq(X) /\ AttemptHit(id) \in Seq(X)
           /\ NumTokens(id) \in Nat
<1>1. HashesOf(id) \in Seq(X)
  BY HashesOfType
<1>2. NumTokens(id) \in Nat
  BY TokensFacts DEF NumTokens
<1>3. OwnHit(id) \in Seq(X)
  BY <1>1, <1>2, OwnHitType
<1>4. DocsHit(id) \in Seq(X) /\ FlattenSeq(DocHashes(id)) \in Seq(X)
  BY DocsHitType, SeqMonotonic
<1> QED BY <1>1, <1>2, <1>3, <1>4 DEF AttemptHashes, AttemptHit

(* The blocks chosen for a list of hashes are registered under them.           *)
LEMMA BlocksWithFacts ==
    ASSUME NEW X, NEW keys \in Seq(X), NEW hits \in BlocksWith(keys)
    PROVE  /\ hits \in Seq(Block) /\ Len(hits) = Len(keys)
           /\ \A i \in 1..Len(keys) : blockHash[hits[i]] = keys[i]
<1> DEFINE C(S, n) == {Append(s, b) : s \in S, b \in {c \in Block : blockHash[c] = keys[n]}}
           D(h) == [n \in 0..Len(keys) |-> IF n = 0 THEN {<<>>} ELSE C(h[n - 1], n)]
           F == [p \in (1..Len(keys)) \X (SUBSET Seq(Block)) |-> C(p[2], p[1])]
           choices == CHOOSE h : h = D(h)
<1>0. Len(keys) \in Nat
  OBVIOUS
<1>1. \A n \in 1..Len(keys), S \in SUBSET Seq(Block) : C(S, n) \in SUBSET Seq(Block)
  OBVIOUS
<1> HIDE DEF C
<1>2. \E h : h = D(h)
  <2>1. F \in [((0+1)..Len(keys)) \X (SUBSET Seq(Block)) -> SUBSET Seq(Block)]
    <3>1. \A p \in (1..Len(keys)) \X (SUBSET Seq(Block)) : C(p[2], p[1]) \in SUBSET Seq(Block)
      BY <1>1
    <3>2. 0 + 1 = 1
      OBVIOUS
    <3> QED BY <3>1, <3>2
  <2>2. {<<>>} \in SUBSET Seq(Block) /\ 0 \in Nat /\ 0 <= Len(keys)
    BY <1>0
  <2>3. \A i \in 1..Len(keys), h \in [0..Len(keys) -> SUBSET Seq(Block)] :
           F[<<i, h[i - 1]>>] = C(h[i - 1], i)
    <3> TAKE i \in 1..Len(keys), h \in [0..Len(keys) -> SUBSET Seq(Block)]
    <3>1. i - 1 \in 0..Len(keys)
      BY <1>0
    <3>2. <<i, h[i - 1]>> \in (1..Len(keys)) \X (SUBSET Seq(Block))
      BY <3>1
    <3> QED BY <3>2
  <2> HIDE DEF F
  <2>4. PICK h \in [0..Len(keys) -> SUBSET Seq(Block)] : Recursion(h, 0, Len(keys), {<<>>}, F)
    <3> HIDE <2>3
    <3> QED BY <1>0, <2>1, <2>2, RecursionExists
  <2>5. \A n \in 0..Len(keys) : h[n] = D(h)[n]
    <3> TAKE n \in 0..Len(keys)
    <3>1. h[n] = IF n = 0 THEN {<<>>} ELSE F[<<n, h[n - 1]>>]
      BY <2>4 DEF Recursion
    <3>2. n = 0 \/ n \in 1..Len(keys)
      OBVIOUS
    <3> QED BY <3>1, <3>2, <2>3
  <2>6. h = D(h)
    BY <2>4, <2>5
  <2> QED BY <2>6
<1>3. choices = D(choices)
  BY <1>2
<1>4. BlocksWith(keys) = choices[Len(keys)]
  BY DEF BlocksWith, C
<1> HIDE DEF choices
<1>5. /\ choices[0] = {<<>>}
      /\ \A n \in 0..Len(keys)-1 : choices[n + 1] = C(choices[n], n + 1)
  <2>1. 0 \in 0..Len(keys)
    BY <1>0
  <2>2. \A n \in 0..Len(keys)-1 : n + 1 \in 0..Len(keys) /\ n + 1 # 0 /\ (n + 1) - 1 = n
    BY <1>0
  <2> QED BY <1>3, <2>1, <2>2
<1> DEFINE Good(s, n) == /\ s \in Seq(Block) /\ Len(s) = n
                         /\ \A i \in 1..n : blockHash[s[i]] = keys[i]
           P == {n \in 0..Len(keys) : \A s \in choices[n] : Good(s, n)}
<1>6. 0 \in P
  <2>1. Good(<<>>, 0) /\ 0 \in 0..Len(keys)
    BY <1>0
  <2> QED BY <1>5, <2>1
<1>7. ASSUME NEW n \in 0..Len(keys)-1, n \in P PROVE n + 1 \in P
  <2>1. n + 1 \in 0..Len(keys) /\ n \in Nat
    BY <1>0
  <2>2. ASSUME NEW t \in choices[n + 1] PROVE Good(t, n + 1)
    <3>1. PICK s \in choices[n], b \in Block : t = Append(s, b) /\ blockHash[b] = keys[n + 1]
      <4>1. choices[n + 1] = C(choices[n], n + 1)
        BY <1>5
      <4>2. t \in C(choices[n], n + 1)
        BY <2>2, <4>1
      <4> QED BY <4>2 DEF C
    <3>2. Good(s, n)
      BY <1>7, <3>1
    <3>3. t \in Seq(Block) /\ Len(t) = n + 1 /\ t[n + 1] = b /\ \A i \in 1..n : t[i] = s[i]
      BY <2>1, <3>1, <3>2
    <3>4. \A i \in 1..n+1 : i \in 1..n \/ i = n + 1
      BY <2>1
    <3> QED BY <3>1, <3>2, <3>3, <3>4
  <2> HIDE DEF Good
  <2> QED BY <2>1, <2>2
<1> HIDE DEF P
<1>8. \A n \in 0..Len(keys) : n \in P
  BY <1>0, <1>6, <1>7, BoundedInduction
<1>9. Len(keys) \in P
  BY <1>0, <1>8
<1> QED BY <1>4, <1>9 DEF P

-----------------------------------------------------------------------------
(* The free queue.                                                             *)
LEMMA DistinctCount ==
    ASSUME NEW T, NEW s \in Seq(T)
    PROVE  /\ IsFiniteSet(Range(s)) /\ Cardinality(Range(s)) \in Nat
           /\ Cardinality(Range(s)) = Len(s) <=> Distinct(s)
           /\ Range(s) = {s[i] : i \in 1..Len(s)} /\ Range(s) \subseteq T
<1>1. PICK n \in Nat : n = Len(s) /\ DOMAIN s = 1..n
  OBVIOUS
<1>2. Range(s) = {s[i] : i \in 1..n} /\ Range(s) \subseteq T
  BY <1>1 DEF Range
<1>3. s \in [1..n -> Range(s)] /\ \A x \in Range(s) : \E i \in 1..n : s[i] = x
  BY <1>1, <1>2
<1>4. s \in Surjection(1..n, Range(s))
  BY <1>3 DEF Surjection
<1>5. IsFiniteSet(1..n) /\ Cardinality(1..n) = n
  <2>1. 1 \in Int /\ n \in Int
    OBVIOUS
  <2>2. IsFiniteSet(1..n) /\ Cardinality(1..n) = IF 1 > n THEN 0 ELSE n - 1 + 1
    BY <2>1, FS_Interval
  <2> QED BY <2>2
<1>6. /\ IsFiniteSet(Range(s))
      /\ Cardinality(Range(s)) = n <=> s \in Injection(1..n, Range(s))
  BY <1>4, <1>5, FS_Surjection
<1>7. s \in Injection(1..n, Range(s)) <=> \A i, j \in 1..n : s[i] = s[j] => i = j
  BY <1>3 DEF Injection, IsInjective
<1>8. Cardinality(Range(s)) \in Nat
  BY <1>6, FS_CardinalityType
<1> QED BY <1>1, <1>2, <1>6, <1>7, <1>8 DEF Distinct

(* The hits that leave the free queue and the new blocks fit in it.            *)
LEMMA RestSuffices ==
    ASSUME NEW id, NEW upto, free \in Seq(Block), Distinct(free),
           NEW hits \in Seq(Block), NewBlocks(id, hits, upto) \in Nat,
           CanAllocate(id, hits, upto)
    PROVE  NewBlocks(id, hits, upto) <= Len(Only(free, Block \ Range(hits)))
<1>1. PICK rest : rest = Only(free, Block \ Range(hits))
  OBVIOUS
<1>2. rest \in Seq(Block) /\ Distinct(rest) /\ Range(rest) = Range(free) \cap (Block \ Range(hits))
  BY <1>1, OnlyKeeps
<1>3. /\ Range(free) \subseteq Block /\ IsFiniteSet(Range(free))
      /\ Cardinality(Range(free)) = Len(free) /\ Cardinality(Range(rest)) = Len(rest)
  BY <1>2, DistinctCount
<1>4. Range(rest) = Range(free) \ Range(hits)
  BY <1>2, <1>3
<1>5. Cardinality(Range(rest)) = Cardinality(Range(free)) - Cardinality(Range(free) \cap Range(hits))
  BY <1>3, <1>4, FS_Difference
<1>6. PICK H : H = {i \in DOMAIN hits : hits[i] \in Range(free)}
  OBVIOUS
<1>7. PICK C : C = Range(free) \cap Range(hits)
  OBVIOUS
<1>8. DOMAIN hits = 1..Len(hits) /\ Len(hits) \in Nat
  OBVIOUS
<1>9. IsFiniteSet(H)
  <2>1. IsFiniteSet(1..Len(hits))
    <3>1. 1 \in Int /\ Len(hits) \in Int
      BY <1>8
    <3> QED BY <3>1, FS_Interval
  <2>2. H \in SUBSET (1..Len(hits))
    BY <1>6, <1>8
  <2> QED BY <2>1, <2>2, FS_Subset
<1>10. [i \in H |-> hits[i]] \in Surjection(H, C)
  <2>1. \A i \in H : hits[i] \in C
    BY <1>6, <1>7 DEF Range
  <2>2. \A x \in C : \E i \in H : hits[i] = x
    BY <1>6, <1>7 DEF Range
  <2>3. [i \in H |-> hits[i]] \in [H -> C]
    BY <2>1
  <2> QED BY <2>2, <2>3 DEF Surjection
<1>11. Cardinality(C) <= Cardinality(H)
  BY <1>9, <1>10, FS_Surjection
<1>12. Cardinality(C) \in Nat /\ Cardinality(H) \in Nat /\ Len(free) \in Nat /\ Len(rest) \in Nat
  <2>1. C \in SUBSET Range(free)
    BY <1>7
  <2>2. IsFiniteSet(C)
    BY <1>3, <2>1, FS_Subset
  <2> QED BY <1>2, <1>9, <2>2, FS_CardinalityType
<1>13. NewBlocks(id, hits, upto) + Cardinality(H) <= Len(free)
  BY <1>6 DEF CanAllocate
<1> QED BY <1>1, <1>3, <1>5, <1>7, <1>11, <1>12, <1>13

(* What allocate_slots does, given the blocks it takes.                        *)
Allocated(id, m, hs, hits, from, upto, fresh) ==
    LET t == table[id] \o hits \o fresh
        full == upto \div BlockSize
        h == ExtendHashes(hs, Tokens(id, m), full)
        registered == (from \div BlockSize) + 1 .. full
        written == (from \div BlockSize) + 1 .. CeilDiv(upto, BlockSize)
        At(b, S) == CHOOSE i \in S : t[i] = b
        Among(b, S) == \E i \in S : t[i] = b
    IN  /\ table' = [table EXCEPT ![id] = t]
        /\ hashes' = [hashes EXCEPT ![id] = h]
        /\ blockHash' = [b \in Block |->
              IF Among(b, registered) THEN h[At(b, registered)]
              ELSE IF b \in Range(fresh) THEN NoKey ELSE blockHash[b]]
        /\ content' = [b \in Block |->
              IF Among(b, written)
              THEN ComputedState(id, m, t, from, upto, At(b, written))
              ELSE content[b]]

Taken(id, hits, upto, fresh) ==
    /\ fresh \in Seq(Block) /\ Len(fresh) = NewBlocks(id, hits, upto) /\ Distinct(fresh)
    /\ Range(fresh) \subseteq Range(free) \ Range(hits)
    /\ free' \in Seq(Block) /\ Distinct(free')
    /\ Range(free') = Range(free) \ (Range(hits) \cup Range(fresh))

LEMMA SplitDistinct ==
    ASSUME NEW T, NEW s \in Seq(T), Distinct(s), NEW n \in 0..Len(s)
    PROVE  /\ SubSeq(s, 1, n) \in Seq(T) /\ Len(SubSeq(s, 1, n)) = n /\ Distinct(SubSeq(s, 1, n))
           /\ SubSeq(s, n + 1, Len(s)) \in Seq(T) /\ Distinct(SubSeq(s, n + 1, Len(s)))
           /\ Range(SubSeq(s, 1, n)) \subseteq Range(s)
           /\ Range(SubSeq(s, n + 1, Len(s))) = Range(s) \ Range(SubSeq(s, 1, n))
<1>1. PICK a, b, l : a = SubSeq(s, 1, n) /\ b = SubSeq(s, n + 1, Len(s)) /\ l = Len(s)
  OBVIOUS
<1>2. l \in Nat /\ n \in Nat /\ n <= l
  BY <1>1
<1>3. a \in Seq(T) /\ Len(a) = n /\ \A i \in 1..n : a[i] = s[i]
  BY <1>1, PrefixOf
<1>4. b \in Seq(T) /\ Len(b) = l - n /\ \A i \in 1..l-n : b[i] = s[n + i]
  <2>1. \A i \in n+1..l : s[i] \in T
    BY <1>1, <1>2
  <2>2. n + 1 \in Int /\ l \in Int
    BY <1>2
  <2>3. /\ b \in Seq(T) /\ Len(b) = IF n + 1 <= l THEN l - (n + 1) + 1 ELSE 0
        /\ \A i \in 1 .. l - (n + 1) + 1 : b[i] = s[(n + 1) + i - 1]
    BY <1>1, <2>1, <2>2, SubSeqProperties
  <2> QED BY <1>2, <2>3
<1>5. \A i, j \in 1..l : s[i] = s[j] => i = j
  BY <1>1 DEF Distinct
<1>6. Distinct(a)
  <2>1. \A i \in 1..n : i \in 1..l
    BY <1>2
  <2> QED BY <1>3, <1>5, <2>1 DEF Distinct
<1>7. Distinct(b)
  <2> SUFFICES ASSUME NEW i \in 1..l-n, NEW j \in 1..l-n, b[i] = b[j] PROVE i = j
    BY <1>4 DEF Distinct
  <2>1. n + i \in 1..l /\ n + j \in 1..l
    BY <1>2
  <2>2. n + i = n + j
    BY <1>4, <1>5, <2>1
  <2> QED BY <1>2, <2>2
<1>8. /\ Range(a) = {a[i] : i \in 1..n} /\ Range(b) = {b[i] : i \in 1..l-n}
      /\ Range(s) = {s[i] : i \in 1..l}
  <2>1. Range(a) = {a[i] : i \in 1..Len(a)}
    BY <1>3, DistinctCount
  <2>2. Range(b) = {b[i] : i \in 1..Len(b)}
    BY <1>4, DistinctCount
  <2>3. Range(s) = {s[i] : i \in 1..Len(s)}
    BY DistinctCount
  <2> QED BY <1>1, <1>3, <1>4, <2>1, <2>2, <2>3
<1>9. ASSUME NEW i \in 1..n PROVE a[i] \in Range(s)
  <2>1. i \in 1..l
    BY <1>2
  <2> QED BY <1>3, <1>8, <2>1
<1>10. ASSUME NEW i \in 1..l-n PROVE b[i] \in Range(s) \ Range(a)
  <2>1. n + i \in 1..l
    BY <1>2
  <2>2. ASSUME NEW j \in 1..n PROVE a[j] # b[i]
    <3>1. j \in 1..l /\ j # n + i
      BY <1>2
    <3> QED BY <1>3, <1>4, <1>5, <2>1, <3>1
  <2> QED BY <1>4, <1>8, <2>1, <2>2
<1>11. ASSUME NEW i \in 1..l, s[i] \notin Range(a) PROVE s[i] \in Range(b)
  <2>1. ~(i <= n)
    BY <1>2, <1>3, <1>8, <1>11
  <2>2. i - n \in 1..l-n /\ n + (i - n) = i
    BY <1>2, <2>1
  <2> QED BY <1>4, <1>8, <2>2
<1>12. Range(a) \subseteq Range(s)
  BY <1>8, <1>9
<1>13. Range(b) = Range(s) \ Range(a)
  BY <1>8, <1>10, <1>11
<1> QED BY <1>1, <1>3, <1>4, <1>6, <1>7, <1>12, <1>13

LEMMA AllocateTakes ==
    ASSUME NEW id \in Id, NEW m, NEW hs, NEW hits \in Seq(Block), NEW from, NEW upto,
           free \in Seq(Block), Distinct(free), NewBlocks(id, hits, upto) \in Nat,
           CanAllocate(id, hits, upto), Allocate(id, m, hs, hits, from, upto)
    PROVE  \E fresh : /\ Taken(id, hits, upto, fresh)
                      /\ Allocated(id, m, hs, hits, from, upto, fresh)
<1>1. PICK n \in Nat : n = NewBlocks(id, hits, upto)
  OBVIOUS
<1>2. PICK rest : rest = Only(free, Block \ Range(hits))
  OBVIOUS
<1>3. rest \in Seq(Block) /\ Distinct(rest) /\ Range(rest) = Range(free) \cap (Block \ Range(hits))
  BY <1>2, OnlyKeeps
<1>4. n \in 0..Len(rest)
  <2>1. n <= Len(rest) /\ Len(rest) \in Nat
    BY <1>1, <1>2, <1>3, RestSuffices
  <2> QED BY <2>1
<1>5. PICK fresh : fresh = SubSeq(rest, 1, n)
  OBVIOUS
<1>6. free' = SubSeq(rest, n + 1, Len(rest))
  BY <1>1, <1>2 DEF Allocate
<1>7. /\ fresh \in Seq(Block) /\ Len(fresh) = n /\ Distinct(fresh)
      /\ free' \in Seq(Block) /\ Distinct(free')
      /\ Range(fresh) \subseteq Range(rest) /\ Range(free') = Range(rest) \ Range(fresh)
  <2>1. PICK q : q = SubSeq(rest, n + 1, Len(rest))
    OBVIOUS
  <2>2. /\ fresh \in Seq(Block) /\ Len(fresh) = n /\ Distinct(fresh)
        /\ q \in Seq(Block) /\ Distinct(q)
        /\ Range(fresh) \subseteq Range(rest) /\ Range(q) = Range(rest) \ Range(fresh)
    BY <1>3, <1>4, <1>5, <2>1, SplitDistinct
  <2> QED BY <1>6, <2>1, <2>2
<1>8. Range(free) \subseteq Block
  BY DistinctCount
<1>9. Taken(id, hits, upto, fresh)
  BY <1>1, <1>3, <1>7, <1>8 DEF Taken
<1>10. Allocated(id, m, hs, hits, from, upto, fresh)
  BY <1>1, <1>2, <1>5 DEF Allocate, Allocated
<1> QED BY <1>9, <1>10

LEMMA ReverseFacts ==
    ASSUME NEW T, NEW s \in Seq(T)
    PROVE  /\ Reverse(s) \in Seq(T) /\ Len(Reverse(s)) = Len(s)
           /\ \A i \in 1..Len(s) : Reverse(s)[i] = s[Len(s) - i + 1]
           /\ Range(Reverse(s)) = Range(s)
           /\ Distinct(s) => Distinct(Reverse(s))
<1>1. PICK n, r : n = Len(s) /\ r = Reverse(s)
  OBVIOUS
<1>2. n \in Nat /\ \A i \in 1..n : n - i + 1 \in 1..n /\ n - (n - i + 1) + 1 = i
  BY <1>1
<1>3. r = [i \in 1..n |-> s[n - i + 1]]
  BY <1>1 DEF Reverse
<1>4. r \in Seq(T) /\ Len(r) = n /\ \A i \in 1..n : r[i] = s[n - i + 1]
  <2>1. \A i \in 1..n : s[n - i + 1] \in T
    BY <1>1, <1>2
  <2> QED BY <1>2, <1>3, <2>1
<1>5. Range(r) = Range(s)
  <2>1. Range(r) = {r[i] : i \in 1..n}
    BY <1>4, DistinctCount
  <2>2. Range(s) = {s[i] : i \in 1..n}
    BY <1>1, DistinctCount
  <2>3. \A i \in 1..n : \E k \in 1..n : r[k] = s[i]
    <3> TAKE i \in 1..n
    <3>1. PICK k : k = n - i + 1
      OBVIOUS
    <3>2. k \in 1..n /\ n - k + 1 = i
      BY <1>2, <3>1
    <3> QED BY <1>4, <3>2
  <2>4. \A i \in 1..n : \E k \in 1..n : s[k] = r[i]
    BY <1>2, <1>4
  <2>5. ASSUME NEW x \in Range(s) PROVE x \in Range(r)
    <3>1. PICK i \in 1..n : x = s[i]
      BY <2>2
    <3> QED BY <2>1, <2>3, <3>1
  <2>6. ASSUME NEW x \in Range(r) PROVE x \in Range(s)
    <3>1. PICK i \in 1..n : x = r[i]
      BY <2>1
    <3> QED BY <2>2, <2>4, <3>1
  <2> QED BY <2>5, <2>6
<1>6. ASSUME Distinct(s) PROVE Distinct(r)
  <2> SUFFICES ASSUME NEW i \in 1..n, NEW j \in 1..n, r[i] = r[j] PROVE i = j
    BY <1>4 DEF Distinct
  <2>1. PICK x, y : x = n - i + 1 /\ y = n - j + 1
    OBVIOUS
  <2>2. x \in 1..n /\ y \in 1..n /\ r[i] = s[x] /\ r[j] = s[y]
    BY <1>2, <1>4, <2>1
  <2>3. x = y
    BY <1>1, <1>6, <2>2 DEF Distinct
  <2> QED BY <1>2, <2>1, <2>3
<1> QED BY <1>1, <1>4, <1>5, <1>6

LEMMA ConcatFacts ==
    ASSUME NEW T, NEW s \in Seq(T), NEW t \in Seq(T)
    PROVE  /\ s \o t \in Seq(T) /\ Len(s \o t) = Len(s) + Len(t)
           /\ Range(s \o t) = Range(s) \cup Range(t)
           /\ Distinct(s) /\ Distinct(t) /\ Range(s) \cap Range(t) = {} => Distinct(s \o t)
<1>1. PICK n, k, u : n = Len(s) /\ k = Len(t) /\ u = s \o t
  OBVIOUS
<1>2. /\ n \in Nat /\ k \in Nat /\ u \in Seq(T) /\ Len(u) = n + k
      /\ \A i \in 1..n+k : u[i] = IF i <= n THEN s[i] ELSE t[i - n]
  BY <1>1, ConcatProperties
<1>3. Range(u) = Range(s) \cup Range(t)
  BY <1>1, RangeConcatenation
<1>4. ASSUME Distinct(s), Distinct(t), Range(s) \cap Range(t) = {} PROVE Distinct(u)
  <2>1. Range(s) = {s[i] : i \in 1..n}
    BY <1>1, DistinctCount
  <2>2. Range(t) = {t[i] : i \in 1..k}
    BY <1>1, DistinctCount
  <2>3. \A i \in 1..n, j \in 1..k : s[i] # t[j]
    BY <1>4, <2>1, <2>2
  <2> SUFFICES ASSUME NEW i \in 1..n+k, NEW j \in 1..n+k, u[i] = u[j] PROVE i = j
    BY <1>2 DEF Distinct
  <2>4. \A x \in 1..n+k : x \in 1..n \/ (x \notin 1..n /\ ~(x <= n) /\ x - n \in 1..k)
    BY <1>2
  <2>5. CASE i \in 1..n /\ j \in 1..n
    BY <1>1, <1>2, <1>4, <2>5 DEF Distinct
  <2>6. CASE i \in 1..n /\ j \notin 1..n
    BY <1>2, <2>3, <2>4, <2>6
  <2>7. CASE i \notin 1..n /\ j \in 1..n
    BY <1>2, <2>3, <2>4, <2>7
  <2>8. CASE i \notin 1..n /\ j \notin 1..n
    <3>1. i - n \in 1..k /\ j - n \in 1..k /\ u[i] = t[i - n] /\ u[j] = t[j - n]
      BY <1>2, <2>4, <2>8
    <3>2. i - n = j - n
      BY <1>1, <1>4, <3>1 DEF Distinct
    <3> QED BY <1>2, <3>2
  <2> QED BY <2>5, <2>6, <2>7, <2>8
<1> QED BY <1>1, <1>2, <1>3, <1>4

(* Named, so that provers match a concatenation and do not compute with it.    *)
Joined(w, s, t) == w = s \o t

LEMMA RangeJoined ==
    ASSUME NEW T, NEW s \in Seq(T), NEW t \in Seq(T), NEW w, Joined(w, s, t)
    PROVE  Range(w) = Range(s) \cup Range(t)
BY ConcatFacts DEF Joined

-----------------------------------------------------------------------------
(* Who holds which block.                                                      *)
Held == UNION {Range(table[id]) : id \in Id}

FreeExact ==
    /\ table \in [Id -> Seq(Block)] /\ free \in Seq(Block)
    /\ Distinct(free) /\ Range(free) = Block \ Held

LEMMA HeldBlocks ==
    ASSUME table \in [Id -> Seq(Block)]
    PROVE  /\ Held \subseteq Block
           /\ \A id \in Id : Range(table[id]) \subseteq Held
           /\ \A id \in Id : Held = Range(table[id]) \cup OtherBlocks(id)
<1>1. \A id \in Id : Range(table[id]) \subseteq Block
  BY DistinctCount
<1> QED BY <1>1 DEF Held, OtherBlocks

LEMMA FreeBlocksFrees ==
    ASSUME NEW id \in Id, FreeExact, FreeBlocks(id)
    PROVE  FreeExact' /\ table' = [table EXCEPT ![id] = <<>>]
<1>1. PICK t \in Seq(Block) : t = table[id]
  BY DEF FreeExact
<1>2. PICK n \in Nat : n = Len(t) /\ DOMAIN t = 1..n
  OBVIOUS
<1>3. PICK O : O = OtherBlocks(id)
  OBVIOUS
<1>4. PICK S : S = {i \in 1..n : t[i] \notin O /\ \A j \in 1..i-1 : t[j] # t[i]}
  OBVIOUS
<1>5. PICK own : own = Only(Positions(t), S)
  OBVIOUS
<1>6. own \in Seq(Nat) /\ Range(own) = S /\ Distinct(own)
  <2>1. PICK q : q = Positions(t)
    OBVIOUS
  <2>2. q = [i \in 1..n |-> i]
    BY <1>2, <2>1 DEF Positions
  <2>3. q \in Seq(Nat) /\ Len(q) = n /\ \A i \in 1..n : q[i] = i
    BY <2>2
  <2>4. Range(q) = 1..n
    <3>1. Range(q) = {q[i] : i \in 1..n}
      BY <2>3, DistinctCount
    <3> QED BY <2>3, <3>1
  <2>5. Distinct(q)
    BY <2>3 DEF Distinct
  <2> QED BY <1>4, <1>5, <2>1, <2>3, <2>4, <2>5, OnlyKeeps, SMTT(30)
<1>7. PICK m \in Nat : m = Len(own)
  BY <1>6
<1>8. PICK w : w = [k \in 1..m |-> t[own[k]]]
  OBVIOUS
<1>9. \A k \in 1..m : own[k] \in S
  <2>1. Range(own) = {own[i] : i \in 1..m}
    BY <1>6, <1>7, DistinctCount
  <2> QED BY <1>6, <2>1
<1>10. w \in Seq(Block) /\ Len(w) = m
  BY <1>2, <1>4, <1>8, <1>9
<1>11. Range(w) = Range(t) \ O
  <2>1. Range(w) = {w[k] : k \in 1..m}
    BY <1>10, DistinctCount
  <2>2. Range(t) = {t[i] : i \in 1..n}
    BY <1>2, DistinctCount
  <2>3. ASSUME NEW k \in 1..m PROVE w[k] \in Range(t) \ O
    BY <1>4, <1>8, <1>9, <2>2
  <2>4. ASSUME NEW b \in Range(t) \ O PROVE b \in Range(w)
    <3>1. PICK B : B = {i \in 1..n : t[i] = b}
      OBVIOUS
    <3>2. B \in SUBSET Nat /\ B # {}
      BY <2>2, <2>4, <3>1
    <3>3. PICK i \in B : \A j \in B : i <= j
      BY <3>2, LeastElement
    <3>4. i \in 1..n /\ t[i] = b /\ \A j \in 1..i-1 : t[j] # b
      BY <3>1, <3>3
    <3>5. i \in Range(own)
      BY <1>4, <1>6, <2>4, <3>4
    <3>6. Range(own) = {own[k] : k \in 1..m}
      BY <1>6, <1>7, DistinctCount
    <3>7. PICK k \in 1..m : own[k] = i
      BY <3>5, <3>6
    <3> QED BY <1>8, <2>1, <3>4, <3>7
  <2> QED BY <2>1, <2>3, <2>4
<1>12. Distinct(w)
  <2> SUFFICES ASSUME NEW k \in 1..m, NEW l \in 1..m, w[k] = w[l] PROVE k = l
    BY <1>10 DEF Distinct
  <2>1. PICK x, y : x = own[k] /\ y = own[l]
    OBVIOUS
  <2>2. x \in S /\ y \in S /\ t[x] = t[y]
    BY <1>8, <1>9, <2>1
  <2>3. x \in 1..n /\ y \in 1..n /\ (\A j \in 1..x-1 : t[j] # t[x]) /\ (\A j \in 1..y-1 : t[j] # t[y])
    BY <1>4, <2>2
  <2>4. ~(x < y) /\ ~(y < x)
    BY <2>2, <2>3
  <2>5. x = y
    BY <2>3, <2>4
  <2> QED BY <1>6, <1>7, <2>1, <2>5 DEF Distinct
<1>13. free' = free \o Reverse(w) /\ table' = [table EXCEPT ![id] = <<>>]
  BY <1>1, <1>2, <1>3, <1>4, <1>5, <1>7, <1>8 DEF FreeBlocks
<1>14. PICK v \in Seq(Block) : v = Reverse(w) /\ Range(v) = Range(t) \ O /\ Distinct(v)
  BY <1>10, <1>11, <1>12, ReverseFacts
<1>15. Held = Range(t) \cup O /\ Held \subseteq Block /\ Range(t) \subseteq Block
  BY <1>1, <1>3, HeldBlocks DEF FreeExact
<1>16. Range(free) \cap Range(v) = {}
  BY <1>14, <1>15 DEF FreeExact
<1>17. PICK g \in Seq(Block) : g = free \o v /\ Range(g) = Range(free) \cup Range(v) /\ Distinct(g)
  BY <1>14, <1>16, ConcatFacts DEF FreeExact
<1>18. free' = g
  BY <1>13, <1>14, <1>17
<1>19. table' \in [Id -> Seq(Block)]
  BY <1>13 DEF FreeExact
<1>20. Held' = O
  <2>1. Range(<<>>) = {}
    BY DEF Range
  <2>2. \A j \in Id : table'[j] = IF j = id THEN <<>> ELSE table[j]
    BY <1>13 DEF FreeExact
  <2> QED BY <1>3, <2>1, <2>2 DEF Held, OtherBlocks
<1>21. Range(g) = Block \ O
  BY <1>14, <1>15, <1>17 DEF FreeExact
<1> QED BY <1>13, <1>17, <1>18, <1>19, <1>20, <1>21 DEF FreeExact

LEMMA AllocateKeepsExact ==
    ASSUME NEW id \in Id, NEW m, NEW hs, NEW hits \in Seq(Block), NEW from, NEW upto,
           FreeExact, NewBlocks(id, hits, upto) \in Nat,
           CanAllocate(id, hits, upto), Allocate(id, m, hs, hits, from, upto)
    PROVE  FreeExact'
<1>1. PICK fresh : /\ Taken(id, hits, upto, fresh)
                   /\ Allocated(id, m, hs, hits, from, upto, fresh)
  BY AllocateTakes DEF FreeExact
<1>2. PICK t : t = table[id] \o hits \o fresh
  OBVIOUS
<1>3. fresh \in Seq(Block) /\ Range(fresh) \subseteq Block
  BY <1>1, DistinctCount DEF Taken
<1>4. table[id] \in Seq(Block)
  BY DEF FreeExact
<1>5. t \in Seq(Block) /\ Range(t) = Range(table[id]) \cup Range(hits) \cup Range(fresh)
  <2>1. PICK u : u = table[id] \o hits
    OBVIOUS
  <2>2. u \in Seq(Block) /\ Range(u) = Range(table[id]) \cup Range(hits)
    BY <1>4, <2>1, ConcatFacts
  <2>3. t = u \o fresh
    BY <1>2, <2>1
  <2> QED BY <1>3, <2>2, <2>3, ConcatFacts
<1>6. table' = [table EXCEPT ![id] = t]
  BY <1>1, <1>2 DEF Allocated
<1>7. table' \in [Id -> Seq(Block)]
  BY <1>5, <1>6 DEF FreeExact
<1>8. Held' = Held \cup Range(hits) \cup Range(fresh)
  <2>1. \A j \in Id : table'[j] = IF j = id THEN t ELSE table[j]
    BY <1>6 DEF FreeExact
  <2> QED BY <1>5, <2>1 DEF Held
<1>9. Range(hits) \subseteq Block
  BY DistinctCount
<1> QED BY <1>1, <1>3, <1>7, <1>8, <1>9 DEF FreeExact, Taken
-----------------------------------------------------------------------------
(* What the operations on the queues leave in them.                            *)
LEMMA RangeHas ==
    ASSUME NEW T, NEW s \in Seq(T), NEW x
    PROVE  x \in Range(s) <=> \E i \in 1..Len(s) : s[i] = x
BY DistinctCount

(* s is p, then e, then q.                                                     *)
Around(s, p, e, q) ==
    /\ Len(s) = Len(p) + 1 + Len(q) /\ s[Len(p) + 1] = e
    /\ \A i \in 1..Len(p) : p[i] = s[i]
    /\ \A i \in 1..Len(q) : q[i] = s[Len(p) + 1 + i]

LEMMA RangeAround ==
    ASSUME NEW T, NEW s \in Seq(T), NEW p \in Seq(T), NEW e, NEW q \in Seq(T),
           Around(s, p, e, q)
    PROVE  Range(s) = Range(p) \cup {e} \cup Range(q)
<1> USE DEF Around
<1>1. PICK n \in Nat, k \in Nat, m \in Nat : n = Len(s) /\ k = Len(p) /\ m = Len(q) /\ n = k + 1 + m
  OBVIOUS
<1>2. ASSUME NEW x \in Range(s) PROVE x \in Range(p) \cup {e} \cup Range(q)
  <2>1. PICK i \in 1..n : s[i] = x
    BY <1>1, RangeHas
  <2>2. CASE i \in 1..k
    <3>1. p[i] = x
      BY <1>1, <2>1, <2>2
    <3> QED BY <1>1, <2>2, <3>1, RangeHas
  <2>3. CASE i = k + 1
    BY <1>1, <2>1, <2>3
  <2>4. CASE i > k + 1
    <3>1. PICK j \in 1..m : i = k + 1 + j
      <4>1. i - k - 1 \in 1..m
        BY <1>1, <2>4
      <4> QED BY <4>1
    <3>2. q[j] = x
      BY <1>1, <2>1, <3>1
    <3> QED BY <1>1, <3>2, RangeHas
  <2> QED BY <1>1, <2>2, <2>3, <2>4
<1>3. ASSUME NEW x \in Range(p) PROVE x \in Range(s)
  <2>1. PICK i \in 1..k : p[i] = x
    BY <1>1, RangeHas
  <2>2. i \in 1..n /\ s[i] = x
    BY <1>1, <2>1
  <2> QED BY <1>1, <2>2, RangeHas
<1>4. e \in Range(s)
  <2>1. k + 1 \in 1..n /\ s[k + 1] = e
    BY <1>1
  <2> QED BY <1>1, <2>1, RangeHas
<1>5. ASSUME NEW x \in Range(q) PROVE x \in Range(s)
  <2>1. PICK i \in 1..m : q[i] = x
    BY <1>1, RangeHas
  <2>2. k + 1 + i \in 1..n /\ s[k + 1 + i] = x
    BY <1>1, <2>1
  <2> QED BY <1>1, <2>2, RangeHas
<1> QED BY <1>2, <1>3, <1>4, <1>5

LEMMA RemovedParts ==
    ASSUME NEW T, NEW s \in Seq(T), NEW k \in 1..Len(s)
    PROVE  \E p \in Seq(T), q \in Seq(T) :
              RemoveAt(s, k) = p \o q /\ Len(p) = k - 1 /\ Around(s, p, s[k], q)
<1>1. PICK n \in Nat : n = Len(s) /\ k \in 1..n
  OBVIOUS
<1>2. PICK c \in 0..n : c = k - 1
  BY <1>1
<1>3. PICK p : p = SubSeq(s, 1, c)
  OBVIOUS
<1>4. p \in Seq(T) /\ Len(p) = c /\ \A i \in 1..c : p[i] = s[i]
  BY <1>1, <1>3, PrefixOf
<1>5. PICK q : q = SubSeq(s, k + 1, n)
  OBVIOUS
<1>6. PICK a \in 1..n+1 : a = k + 1
  BY <1>1
<1>7. q \in Seq(T) /\ Len(q) = n - k
  BY <1>1, <1>5, SubSeqProperties
<1>8. \A i \in 1..n-k : q[i] = s[k + i]
  BY <1>1, <1>5
<1>9. RemoveAt(s, k) = p \o q
  BY <1>1, <1>2, <1>3, <1>5 DEF RemoveAt
<1>10. n = c + 1 + (n - k) /\ c + 1 = k /\ \A i \in 1..n-k : q[i] = s[c + 1 + i]
  BY <1>1, <1>2, <1>8
<1>11. Around(s, p, s[k], q)
  BY <1>1, <1>2, <1>4, <1>7, <1>10 DEF Around
<1> QED BY <1>2, <1>4, <1>7, <1>9, <1>11

LEMMA AroundDistinct ==
    ASSUME NEW T, NEW s \in Seq(T), NEW p \in Seq(T), NEW e, NEW q \in Seq(T),
           Around(s, p, e, q), Distinct(s)
    PROVE  /\ Distinct(p) /\ Distinct(q) /\ e \notin Range(p) /\ e \notin Range(q)
           /\ Range(p) \cap Range(q) = {}
<1>1. PICK n \in Nat, k \in Nat, m \in Nat : n = Len(s) /\ k = Len(p) /\ m = Len(q) /\ n = k + 1 + m
  BY DEF Around
<1>2. /\ s[k + 1] = e /\ \A i \in 1..k : p[i] = s[i]
      /\ \A i \in 1..m : q[i] = s[k + 1 + i]
      /\ \A i, j \in 1..n : s[i] = s[j] => i = j
  BY <1>1 DEF Around, Distinct
<1>3. Distinct(p)
  BY <1>1, <1>2 DEF Distinct
<1>4. Distinct(q)
  <2> SUFFICES ASSUME NEW i \in 1..m, NEW j \in 1..m, q[i] = q[j] PROVE i = j
    BY <1>1 DEF Distinct
  <2>1. k + 1 + i \in 1..n /\ k + 1 + j \in 1..n
    BY <1>1
  <2>2. s[k + 1 + i] = s[k + 1 + j]
    BY <1>2
  <2>3. k + 1 + i = k + 1 + j
    BY <1>2, <2>1, <2>2
  <2> QED BY <2>3
<1>5. k + 1 \in 1..n
  BY <1>1
<1>6. ASSUME NEW i \in 1..k PROVE p[i] # e
  <2>1. i \in 1..n /\ i # k + 1
    BY <1>1
  <2> QED BY <1>2, <1>5, <2>1
<1>7. ASSUME NEW i \in 1..m PROVE q[i] # e
  <2>1. k + 1 + i \in 1..n /\ k + 1 + i # k + 1
    BY <1>1
  <2> QED BY <1>2, <1>5, <2>1
<1>8. ASSUME NEW i \in 1..k, NEW j \in 1..m PROVE p[i] # q[j]
  <2>1. i \in 1..n /\ k + 1 + j \in 1..n /\ i # k + 1 + j
    BY <1>1
  <2> QED BY <1>2, <2>1
<1>9. Range(p) \cap Range(q) = {}
  <2> SUFFICES ASSUME NEW x, x \in Range(p), x \in Range(q) PROVE FALSE
    OBVIOUS
  <2>1. PICK i \in 1..k : p[i] = x
    BY <1>1, RangeHas
  <2>2. PICK j \in 1..m : q[j] = x
    BY <1>1, RangeHas
  <2> QED BY <1>8, <2>1, <2>2
<1>10. e \notin Range(p)
  BY <1>1, <1>6, RangeHas
<1>11. e \notin Range(q)
  BY <1>1, <1>7, RangeHas
<1> QED BY <1>3, <1>4, <1>9, <1>10, <1>11

(* What is left when the first, the last or any other entry is taken away.      *)
LEMMA TailParts ==
    ASSUME NEW T, NEW s \in Seq(T), s # <<>>
    PROVE  /\ Tail(s) \in Seq(T) /\ Len(Tail(s)) = Len(s) - 1 /\ Head(s) = s[1]
           /\ \A i \in 1..Len(s)-1 : Tail(s)[i] = s[i + 1]
           /\ Range(s) = {Head(s)} \cup Range(Tail(s))
           /\ Distinct(s) => Distinct(Tail(s)) /\ Head(s) \notin Range(Tail(s))
<1>1. PICK n \in Nat : n = Len(s)
  OBVIOUS
<1>2. n >= 1
  BY <1>1
<1>3. PICK p \in Seq(T) : p = <<>> /\ Len(p) = 0 /\ Range(p) = {}
  <2>1. <<>> \in Seq(T) /\ Range(<<>>) = {}
    BY DEF Range
  <2> QED BY <2>1
<1>4. PICK q \in Seq(T) : q = Tail(s)
  <2>1. Tail(s) \in Seq(T)
    OBVIOUS
  <2> QED BY <2>1
<1>5. Len(q) = n - 1 /\ \A i \in 1..n-1 : q[i] = s[1 + i]
  BY <1>1, <1>2, <1>4
<1>6. Head(s) = s[1]
  OBVIOUS
<1>7. Len(s) = Len(p) + 1 + Len(q) /\ s[Len(p) + 1] = Head(s)
  BY <1>1, <1>2, <1>3, <1>5, <1>6
<1>8. \A i \in 1..Len(q) : q[i] = s[Len(p) + 1 + i]
  BY <1>3, <1>5
<1>9. \A i \in 1..Len(p) : p[i] = s[i]
  BY <1>3
<1>10. Around(s, p, Head(s), q)
  BY <1>7, <1>8, <1>9 DEF Around
<1>11. Range(s) = Range(p) \cup {Head(s)} \cup Range(q)
  BY <1>10, RangeAround
<1>12. Distinct(s) => Distinct(q) /\ Head(s) \notin Range(q)
  BY <1>10, AroundDistinct
<1>13. \A i \in 1..n-1 : q[i] = s[i + 1]
  BY <1>2, <1>5
<1> QED BY <1>1, <1>3, <1>4, <1>5, <1>6, <1>11, <1>12, <1>13

LEMMA FrontParts ==
    ASSUME NEW T, NEW s \in Seq(T), s # <<>>
    PROVE  /\ Front(s) \in Seq(T) /\ Len(Front(s)) = Len(s) - 1 /\ Last(s) = s[Len(s)]
           /\ \A i \in 1..Len(s)-1 : Front(s)[i] = s[i]
           /\ Range(s) = {Last(s)} \cup Range(Front(s))
           /\ Distinct(s) => Distinct(Front(s)) /\ Last(s) \notin Range(Front(s))
<1>1. PICK n \in Nat : n = Len(s)
  OBVIOUS
<1>2. n >= 1
  BY <1>1
<1>3. PICK q \in Seq(T) : q = <<>> /\ Len(q) = 0 /\ Range(q) = {}
  <2>1. <<>> \in Seq(T) /\ Range(<<>>) = {}
    BY DEF Range
  <2> QED BY <2>1
<1>4. PICK c \in 0..n : c = n - 1
  BY <1>2
<1>5. PICK p : p = SubSeq(s, 1, c)
  OBVIOUS
<1>6. p \in Seq(T) /\ Len(p) = c /\ (\A i \in 1..c : p[i] = s[i]) /\ p = Front(s)
  BY <1>1, <1>4, <1>5, PrefixOf DEF Front
<1>7. Len(s) = Len(p) + 1 + Len(q) /\ s[Len(p) + 1] = Last(s) /\ Last(s) = s[Len(s)]
  BY <1>1, <1>2, <1>3, <1>4, <1>6 DEF Last
<1>8. \A i \in 1..Len(q) : q[i] = s[Len(p) + 1 + i]
  BY <1>3
<1>9. \A i \in 1..Len(p) : p[i] = s[i]
  BY <1>6
<1>10. Around(s, p, Last(s), q)
  BY <1>7, <1>8, <1>9 DEF Around
<1>11. Range(s) = Range(p) \cup {Last(s)} \cup Range(q)
  BY <1>6, <1>10, RangeAround
<1>12. Distinct(s) => Distinct(p) /\ Last(s) \notin Range(p)
  BY <1>6, <1>10, AroundDistinct
<1> QED BY <1>1, <1>3, <1>4, <1>6, <1>7, <1>11, <1>12

LEMMA RemovedDistinct ==
    ASSUME NEW T, NEW s \in Seq(T), NEW k \in 1..Len(s), Distinct(s)
    PROVE  /\ Range(RemoveAt(s, k)) = Range(s) \ {s[k]} /\ Distinct(RemoveAt(s, k))
           /\ RemoveAt(s, k) \in Seq(T) /\ Len(RemoveAt(s, k)) = Len(s) - 1
           /\ \A i \in 1..Len(s)-1 : RemoveAt(s, k)[i] = IF i < k THEN s[i] ELSE s[i + 1]
<1>1. PICK p \in Seq(T), q \in Seq(T) :
              RemoveAt(s, k) = p \o q /\ Len(p) = k - 1 /\ Around(s, p, s[k], q)
  BY RemovedParts
<1>2. Range(s) = Range(p) \cup {s[k]} \cup Range(q)
  BY <1>1, RangeAround
<1>3. /\ Distinct(p) /\ Distinct(q) /\ s[k] \notin Range(p) /\ s[k] \notin Range(q)
      /\ Range(p) \cap Range(q) = {}
  BY <1>1, AroundDistinct
<1>4. PICK u : u = p \o q
  OBVIOUS
<1>5. u \in Seq(T) /\ Range(u) = Range(p) \cup Range(q) /\ Distinct(u) /\ Len(u) = Len(p) + Len(q)
  BY <1>3, <1>4, ConcatFacts
<1>6. Range(u) = Range(s) \ {s[k]}
  BY <1>2, <1>3, <1>5
<1>7. PICK n \in Nat : n = Len(s) /\ k \in 1..n
  OBVIOUS
<1>8. PICK m \in Nat : m = Len(q)
  OBVIOUS
<1>9. PICK c \in Nat : c = Len(p) /\ c = k - 1 /\ n = c + 1 + m
  <2>1. Len(p) = k - 1 /\ Len(s) = Len(p) + 1 + Len(q)
    BY <1>1 DEF Around
  <2>2. Len(p) \in Nat
    OBVIOUS
  <2> QED BY <1>7, <1>8, <2>1, <2>2
<1>12. \A i \in 1..c+m : u[i] = IF i <= c THEN p[i] ELSE q[i - c]
  <2>1. \A i \in 1..Len(p) + Len(q) : u[i] = IF i <= Len(p) THEN p[i] ELSE q[i - Len(p)]
    BY <1>4, ConcatProperties
  <2>2. Len(p) = c /\ Len(q) = m
    BY <1>8, <1>9
  <2> QED BY <2>1, <2>2
<1>10. ASSUME NEW i \in 1..n-1 PROVE u[i] = IF i < k THEN s[i] ELSE s[i + 1]
  <2>1. CASE i < k
    <3>1. i \in 1..c
      BY <1>9, <2>1
    <3>2. u[i] = p[i]
      BY <1>9, <1>12, <3>1
    <3> QED BY <1>1, <1>9, <2>1, <3>1, <3>2 DEF Around
  <2>2. CASE ~(i < k)
    <3>1. PICK j \in 1..m : i = c + j
      <4>1. i - c \in 1..m
        BY <1>7, <1>9, <2>2
      <4> QED BY <1>9, <4>1
    <3>2. u[c + j] = q[j]
      <4>1. c + j \in 1..c+m /\ ~(c + j <= c) /\ c + j - c = j
        BY <1>9
      <4> QED BY <1>12, <4>1
    <3>3. q[j] = s[c + 1 + j]
      BY <1>1, <1>8, <1>9 DEF Around
    <3>4. c + 1 + j = i + 1
      BY <1>9, <3>1
    <3> QED BY <2>2, <3>1, <3>2, <3>3, <3>4
  <2> QED BY <2>1, <2>2
<1>11. Len(u) = n - 1
  BY <1>5, <1>8, <1>9
<1> QED BY <1>1, <1>4, <1>5, <1>6, <1>7, <1>10, <1>11

LEMMA RangeParts ==
    ASSUME NEW T, NEW s \in Seq(T), s # <<>>
    PROVE  /\ Range(s) = {Head(s)} \cup Range(Tail(s))
           /\ Range(s) = {Last(s)} \cup Range(Front(s))
           /\ \A i \in 1..Len(s) : Range(s) = {s[i]} \cup Range(RemoveAt(s, i))
<1>1. ASSUME NEW k \in 1..Len(s) PROVE Range(s) = {s[k]} \cup Range(RemoveAt(s, k))
  <2>1. PICK p \in Seq(T), q \in Seq(T) :
              RemoveAt(s, k) = p \o q /\ Len(p) = k - 1 /\ Around(s, p, s[k], q)
    BY RemovedParts
  <2>3. Range(s) = Range(p) \cup {s[k]} \cup Range(q)
    BY <2>1, RangeAround
  <2>4. Range(p \o q) = Range(p) \cup Range(q)
    BY ConcatFacts
  <2> QED BY <2>1, <2>3, <2>4
<1> QED BY <1>1, TailParts, FrontParts

LEMMA Singleton ==
    ASSUME NEW T, NEW e \in T
    PROVE  \E u \in Seq(T) : u = <<e>> /\ Range(u) = {e}
<1>1. <<e>> \in Seq(T) /\ Range(<<e>>) = {e}
  BY DEF Range
<1> QED BY <1>1

LEMMA RangePrepend ==
    ASSUME NEW T, NEW s \in Seq(T), NEW e \in T, NEW w, w = <<e>> \o s
    PROVE  Range(w) = {e} \cup Range(s)
<1>1. PICK u \in Seq(T) : u = <<e>> /\ Range(u) = {e}
  BY Singleton
<1>2. Range(u \o s) = Range(u) \cup Range(s)
  BY ConcatFacts
<1> QED BY <1>1, <1>2

LEMMA Prepend ==
    ASSUME NEW T, NEW s \in Seq(T), NEW e \in T, NEW w, w = <<e>> \o s
    PROVE  /\ w \in Seq(T) /\ Len(w) = Len(s) + 1 /\ w[1] = e
           /\ \A i \in 1..Len(s) : w[i + 1] = s[i]
           /\ Range(w) = {e} \cup Range(s)
           /\ Distinct(s) /\ e \notin Range(s) => Distinct(w)
<1>1. PICK u \in Seq(T) : u = <<e>> /\ Range(u) = {e}
  BY Singleton
<1>2. Len(u) = 1 /\ u[1] = e /\ Distinct(u)
  BY <1>1 DEF Distinct
<1>c. /\ u \o s \in Seq(T) /\ Len(u \o s) = Len(u) + Len(s) /\ Range(u \o s) = Range(u) \cup Range(s)
      /\ Distinct(u) /\ Distinct(s) /\ Range(u) \cap Range(s) = {} => Distinct(u \o s)
  BY ConcatFacts
<1>3. /\ w \in Seq(T) /\ Len(w) = Len(u) + Len(s) /\ Range(w) = Range(u) \cup Range(s)
      /\ Distinct(u) /\ Distinct(s) /\ Range(u) \cap Range(s) = {} => Distinct(w)
  BY <1>1, <1>c
<1>4. w[1] = e /\ \A i \in 1..Len(s) : w[i + 1] = s[i]
  BY <1>1
<1>5. Len(w) = Len(s) + 1
  BY <1>2, <1>3
<1> QED BY <1>1, <1>2, <1>3, <1>4, <1>5

LEMMA PrependRange ==
    ASSUME NEW T, NEW s \in Seq(T), NEW e \in T, NEW w, w = <<e>> \o s
    PROVE  Range(w) = {e} \cup Range(s)
BY Prepend

LEMMA PrependDistinct ==
    ASSUME NEW T, NEW s \in Seq(T), NEW e \in T, NEW w, w = <<e>> \o s, Distinct(s), e \notin Range(s)
    PROVE  Distinct(w)
BY Prepend

LEMMA Appended ==
    ASSUME NEW T, NEW s \in Seq(T), NEW e \in T, NEW u \in Seq(T), u = <<e>>
    PROVE  /\ s \o u = Append(s, e)
           /\ s \o u \in Seq(T) /\ Len(s \o u) = Len(s) + 1 /\ (s \o u)[Len(s) + 1] = e
           /\ \A i \in 1..Len(s) : (s \o u)[i] = s[i]
           /\ Range(s \o u) = Range(s) \cup {e}
           /\ Distinct(s) /\ e \notin Range(s) => Distinct(s \o u)
<1>1. Range(u) = {e} /\ Len(u) = 1 /\ u[1] = e /\ Distinct(u)
  <2>1. PICK v \in Seq(T) : v = <<e>> /\ Range(v) = {e}
    BY Singleton
  <2> QED BY <2>1 DEF Distinct
<1>2. PICK w : w = s \o u
  OBVIOUS
<1>3. /\ w \in Seq(T) /\ Len(w) = Len(s) + Len(u) /\ Range(w) = Range(s) \cup Range(u)
      /\ Distinct(s) /\ Distinct(u) /\ Range(s) \cap Range(u) = {} => Distinct(w)
  BY <1>2, ConcatFacts, ZenonT(40)
<1>4. /\ w = Append(s, e) /\ w[Len(s) + 1] = e
      /\ \A i \in 1..Len(s) : w[i] = s[i]
  BY <1>2
<1>5. Len(w) = Len(s) + 1
  BY <1>1, <1>3
<1> QED BY <1>1, <1>2, <1>3, <1>4, <1>5

LEMMA SeqParts ==
    ASSUME NEW T, NEW s \in Seq(T), s # <<>>
    PROVE  /\ Head(s) \in T /\ Tail(s) \in Seq(T) /\ Last(s) \in T /\ Front(s) \in Seq(T)
           /\ \A i \in 1..Len(s) : RemoveAt(s, i) \in Seq(T)
<1>1. Len(s) \in Nat /\ Len(s) >= 1
  OBVIOUS
<1>2. Head(s) \in T /\ Tail(s) \in Seq(T)
  OBVIOUS
<1>3. Last(s) \in T
  BY <1>1 DEF Last
<1>4. Front(s) \in Seq(T)
  BY <1>1, PrefixOf DEF Front
<1>5. ASSUME NEW i \in 1..Len(s) PROVE RemoveAt(s, i) \in Seq(T)
  <2>1. PICK j \in 0..Len(s) : j = i - 1
    BY <1>1
  <2>2. SubSeq(s, 1, j) \in Seq(T)
    BY PrefixOf
  <2>3. SubSeq(s, i + 1, Len(s)) \in Seq(T)
    BY <1>1, SubSeqProperties
  <2>4. SubSeq(s, 1, j) \o SubSeq(s, i + 1, Len(s)) \in Seq(T)
    BY <2>2, <2>3
  <2> QED BY <2>1, <2>4 DEF RemoveAt
<1> QED BY <1>2, <1>3, <1>4, <1>5
=============================================================================
