---------------------- MODULE SchedulerContextProofs ------------------------
(* For any requests, documents, pool and budget: what stands in the cache and in *)
(* the block tables is the state of the context that each request spells out,    *)
(* and the scheduler implements the contract of the cache.                       *)
EXTENDS LazySchedulerProofs

-----------------------------------------------------------------------------
(* Where the members of a concatenation end, and what stands between.           *)
Ends(s, e) == Len(FlattenSeq(SubSeq(s, 1, e)))
Covers(s, e, p) == Ends(s, e - 1) < p /\ p <= Ends(s, e)

LEMMA EndsFacts ==
    ASSUME NEW T, NEW s \in Seq(Seq(T))
    PROVE  /\ Ends(s, 0) = 0
           /\ \A e \in 0..Len(s) : Ends(s, e) \in Nat /\ FlattenSeq(SubSeq(s, 1, e)) \in Seq(T)
           /\ \A e \in 1..Len(s) : /\ Ends(s, e) = Ends(s, e - 1) + Len(s[e])
                                   /\ FlattenSeq(SubSeq(s, 1, e)) = FlattenSeq(SubSeq(s, 1, e - 1)) \o s[e]
                                   /\ Len(s[e]) \in Nat /\ s[e] \in Seq(T)
           /\ Ends(s, Len(s)) = Len(FlattenSeq(s)) /\ SubSeq(s, 1, Len(s)) = s
           /\ Len(FlattenSeq(s)) \in Nat /\ FlattenSeq(s) \in Seq(T)
<1>1. PICK n \in Nat : n = Len(s)
  OBVIOUS
<1>2. /\ FlattenSeq(<<>>) = <<>>
      /\ \A e \in 1..n : FlattenSeq(SubSeq(s, 1, e)) = FlattenSeq(SubSeq(s, 1, e - 1)) \o s[e]
      /\ FlattenSeq(s) \in Seq(T)
  BY <1>1, FlattenStep
<1>3. \A e \in 0..n : FlattenSeq(SubSeq(s, 1, e)) \in Seq(T)
  <2> TAKE e \in 0..n
  <2>1. SubSeq(s, 1, e) \in Seq(Seq(T))
    BY <1>1, PrefixOf
  <2>2. PICK r \in Seq(Seq(T)) : r = SubSeq(s, 1, e)
    BY <2>1
  <2>3. FlattenSeq(r) \in Seq(T)
    BY FlattenStep
  <2> QED BY <2>2, <2>3
<1>4. \A e \in 0..n : Ends(s, e) \in Nat
  BY <1>3 DEF Ends
<1>5. SubSeq(s, 1, 0) = <<>> /\ SubSeq(s, 1, n) = s /\ Len(<<>>) = 0
  BY <1>1
<1>6. Ends(s, 0) = 0 /\ Ends(s, n) = Len(FlattenSeq(s))
  BY <1>2, <1>5 DEF Ends
<1>7. ASSUME NEW e \in 1..n PROVE Ends(s, e) = Ends(s, e - 1) + Len(s[e]) /\ Len(s[e]) \in Nat /\ s[e] \in Seq(T)
  <2>1. PICK d \in 0..n : d = e - 1
    BY <1>1
  <2>2. s[e] \in Seq(T)
    BY <1>1
  <2>3. PICK x \in Seq(T), y \in Seq(T) : x = FlattenSeq(SubSeq(s, 1, d)) /\ y = s[e]
    BY <1>3, <2>2
  <2>4. FlattenSeq(SubSeq(s, 1, e)) = x \o y
    BY <1>2, <2>1, <2>3
  <2>5. Len(x \o y) = Len(x) + Len(y)
    BY ConcatProperties
  <2>6. Ends(s, d) = Len(x)
    BY <2>3 DEF Ends
  <2>7. Ends(s, e) = Len(x \o y)
    BY <2>4 DEF Ends
  <2>8. Ends(s, e) = Ends(s, d) + Len(s[e])
    BY <2>3, <2>5, <2>6, <2>7
  <2>9. Len(s[e]) \in Nat
    BY <2>2
  <2> QED BY <2>1, <2>2, <2>8, <2>9
<1>8. Len(FlattenSeq(s)) \in Nat
  BY <1>2
<1> QED BY <1>1, <1>2, <1>3, <1>4, <1>5, <1>6, <1>7, <1>8

LEMMA EndsMono ==
    ASSUME NEW T, NEW s \in Seq(Seq(T)), NEW d \in 0..Len(s), NEW e \in d..Len(s)
    PROVE  Ends(s, d) <= Ends(s, e)
<1>1. PICK n \in Nat : n = Len(s)
  OBVIOUS
<1> DEFINE S == {i \in d..n : Ends(s, d) <= Ends(s, i)}
<1>2. d \in S
  <2>1. Ends(s, d) \in Nat
    BY EndsFacts
  <2> QED BY <1>1, <2>1
<1>3. ASSUME NEW i \in d..n-1, i \in S PROVE i + 1 \in S
  <2>1. PICK j \in 1..n : j = i + 1 /\ j - 1 = i /\ i \in 0..n
    BY <1>1
  <2>2. Ends(s, j) = Ends(s, i) + Len(s[j]) /\ Len(s[j]) \in Nat
    BY <1>1, <2>1, EndsFacts
  <2>3. Ends(s, d) \in Nat /\ Ends(s, i) \in Nat
    BY <1>1, <2>1, EndsFacts
  <2>4. Ends(s, d) <= Ends(s, j)
    BY <1>3, <2>2, <2>3
  <2> QED BY <1>1, <2>1, <2>4
<1>4. \A i \in d..n : i \in S
  <2>1. d \in Nat
    BY <1>1
  <2> HIDE DEF S
  <2> QED BY <1>1, <1>2, <1>3, <2>1, BoundedInduction
<1> QED BY <1>1, <1>4

LEMMA EndsAt ==
    ASSUME NEW T, NEW s \in Seq(Seq(T)), NEW p \in 1..Len(FlattenSeq(s))
    PROVE  \E e \in 1..Len(s) : Covers(s, e, p)
<1>1. PICK n \in Nat : n = Len(s)
  OBVIOUS
<1> DEFINE S == {i \in 0..n : p <= Ends(s, i) => \E e \in 1..i : Covers(s, e, p)}
<1>0. p \in Nat /\ p >= 1
  BY EndsFacts
<1>2. 0 \in S
  <2>1. Ends(s, 0) = 0
    BY EndsFacts
  <2> QED BY <1>0, <1>1, <2>1
<1>3. ASSUME NEW i \in 0..n-1, i \in S PROVE i + 1 \in S
  <2>1. PICK j \in 1..n : j = i + 1 /\ j - 1 = i /\ i \in 0..n
    BY <1>1
  <2>a. \A e \in 0..n : Ends(s, e) \in Nat
    BY <1>1, EndsFacts
  <2>2. Ends(s, j) \in Nat /\ Ends(s, i) \in Nat
    BY <1>1, <2>1, <2>a
  <2>3. ASSUME p <= Ends(s, j) PROVE \E e \in 1..j : Covers(s, e, p)
    <3>1. CASE p <= Ends(s, i)
      <4>1. PICK e \in 1..i : Covers(s, e, p)
        BY <1>3, <3>1
      <4>2. e \in 1..j
        BY <2>1
      <4> QED BY <4>1, <4>2
    <3>2. CASE ~(p <= Ends(s, i))
      <4>1. Covers(s, j, p)
        BY <1>0, <2>1, <2>2, <2>3, <3>2 DEF Covers
      <4>2. j \in 1..j
        BY <2>1
      <4> QED BY <4>1, <4>2
    <3> QED BY <3>1, <3>2
  <2> QED BY <1>1, <2>1, <2>3
<1>4. \A i \in 0..n : i \in S
  <2> HIDE DEF S
  <2> QED BY <1>1, <1>2, <1>3, BoundedInduction
<1>5. p <= Ends(s, n)
  <2>1. Ends(s, Len(s)) = Len(FlattenSeq(s))
    BY EndsFacts
  <2> QED BY <1>1, <2>1
<1>6. n \in S
  BY <1>1, <1>4
<1> QED BY <1>1, <1>5, <1>6

LEMMA EndsUnique ==
    ASSUME NEW T, NEW s \in Seq(Seq(T)), NEW p \in Nat,
           NEW d \in 1..Len(s), NEW e \in 1..Len(s), Covers(s, d, p), Covers(s, e, p)
    PROVE  d = e
<1>1. PICK n \in Nat : n = Len(s)
  OBVIOUS
<1>2. ASSUME NEW a \in 1..n, NEW b \in 1..n, a < b, Covers(s, a, p), Covers(s, b, p) PROVE FALSE
  <2>1. PICK c \in a..n : c = b - 1
    BY <1>1, <1>2
  <2>2. a \in 0..n /\ c \in 0..n
    BY <1>1, <2>1
  <2>3. Ends(s, a) <= Ends(s, c) /\ Ends(s, a) \in Nat /\ Ends(s, c) \in Nat
    BY <1>1, <2>1, <2>2, EndsMono, EndsFacts
  <2>4. p <= Ends(s, a) /\ Ends(s, c) < p
    BY <1>2, <2>1 DEF Covers
  <2> QED BY <2>3, <2>4
<1> QED BY <1>1, <1>2

LEMMA FlattenAt ==
    ASSUME NEW T, NEW s \in Seq(Seq(T)), NEW e \in 1..Len(s), NEW k \in 1..Len(s[e])
    PROVE  FlattenSeq(s)[Ends(s, e - 1) + k] = s[e][k]
<1>1. PICK n \in Nat : n = Len(s) /\ e \in 1..n
  OBVIOUS
<1>2. PICK a \in Nat : a = Ends(s, e - 1)
  <2>1. e - 1 \in 0..n
    BY <1>1
  <2> QED BY <1>1, <2>1, EndsFacts
<1>3. s[e] \in Seq(T) /\ k \in Nat /\ k >= 1 /\ k <= Len(s[e])
  BY <1>1, EndsFacts
<1> DEFINE A(i) == FlattenSeq(SubSeq(s, 1, i))
           S == {i \in e..n : a + k <= Len(A(i)) /\ A(i)[a + k] = s[e][k]}
<1>4. \A i \in 1..n : /\ A(i) \in Seq(T) /\ A(i - 1) \in Seq(T) /\ s[i] \in Seq(T)
                      /\ A(i) = A(i - 1) \o s[i]
  <2> TAKE i \in 1..n
  <2>1. i \in 0..n /\ i - 1 \in 0..n
    BY <1>1
  <2>2. \A j \in 0..n : FlattenSeq(SubSeq(s, 1, j)) \in Seq(T)
    BY <1>1, EndsFacts
  <2>3. FlattenSeq(SubSeq(s, 1, i)) = FlattenSeq(SubSeq(s, 1, i - 1)) \o s[i] /\ s[i] \in Seq(T)
    BY <1>1, EndsFacts
  <2> QED BY <2>1, <2>2, <2>3
<1>5. a = Len(A(e - 1))
  BY <1>2 DEF Ends
<1> HIDE DEF A
<1>6. e \in S
  <2>1. PICK x \in Seq(T), y \in Seq(T) : x = A(e - 1) /\ y = s[e] /\ A(e) = x \o y
    BY <1>1, <1>4
  <2>2. PICK c \in Nat : c = Len(y)
    BY <2>1
  <2>3. Len(x) = a /\ k <= c
    BY <1>3, <1>5, <2>1, <2>2
  <2>4. Len(x \o y) = Len(x) + Len(y)
    BY ConcatProperties
  <2>k. PICK l \in Nat : l = k /\ l >= 1
    BY <1>3
  <2>5. PICK q \in Nat : q = a + l /\ q - a = l /\ a < q
    BY <2>k
  <2>r. q = a + k
    BY <2>5, <2>k
  <2>6. (x \o y)[q] = y[k]
    BY <1>3, <2>2, <2>3, <2>5, <2>k
  <2>7. q <= Len(A(e))
    <3>1. Len(A(e)) = a + c
      BY <2>1, <2>2, <2>3, <2>4
    <3>2. l <= c
      BY <2>3, <2>k
    <3> QED BY <2>5, <3>1, <3>2
  <2>8. A(e)[q] = s[e][k]
    BY <2>1, <2>6
  <2>9. e \in e..n
    BY <1>1
  <2> QED BY <2>7, <2>8, <2>9, <2>r
<1>7. ASSUME NEW i \in e..n-1, i \in S PROVE i + 1 \in S
  <2>1. PICK j \in 1..n : j = i + 1 /\ j - 1 = i
    BY <1>1
  <2>2. PICK x \in Seq(T), y \in Seq(T) : x = A(i) /\ y = s[j] /\ A(j) = x \o y
    BY <1>4, <2>1
  <2>3. a + k <= Len(x) /\ x[a + k] = s[e][k]
    BY <1>7, <2>2
  <2>4. PICK q \in Nat : q = a + k /\ q >= 1
    BY <1>2, <1>3
  <2>5. (x \o y)[q] = x[q] /\ Len(x \o y) = Len(x) + Len(y)
    BY <2>3, <2>4
  <2>6. q <= Len(A(j))
    <3>1. Len(x) \in Nat /\ Len(y) \in Nat
      OBVIOUS
    <3>2. \A b, c \in Nat : q <= b => q <= b + c
      OBVIOUS
    <3>3. q <= Len(x) + Len(y)
      BY <2>3, <2>4, <3>1, <3>2
    <3> QED BY <2>2, <2>5, <3>3
  <2> QED BY <1>1, <2>1, <2>2, <2>3, <2>4, <2>5, <2>6
<1>8. \A i \in e..n : i \in S
  <2>1. e \in Nat
    BY <1>1
  <2> HIDE DEF S
  <2> QED BY <1>1, <1>6, <1>7, <2>1, BoundedInduction
<1>9. n \in S
  BY <1>1, <1>8
<1>10. A(n) = FlattenSeq(s)
  BY <1>1, EndsFacts DEF A
<1> QED BY <1>2, <1>9, <1>10
-----------------------------------------------------------------------------
(* The state position p of a request is meant to have, whatever it has sampled: *)
(* a document on its own, the query behind all documents.                      *)
TokenAt(id, k) == IF k <= Len(PromptOf(id)) THEN PromptOf(id)[k] ELSE GenToken
Behind(id) == Len(FlattenSeq(DocsOf(id)))
QueryKey(id, k) == [docs |-> DocsOf(id), toks |-> [j \in 1..k |-> TokenAt(id, j)]]
DocKey(id, e, k) == [docs |-> <<>>, toks |-> SubSeq(DocsOf(id)[e], 1, k)]
DocAt(id, p) == CHOOSE e \in DOMAIN DocsOf(id) : Covers(DocsOf(id), e, p)
KeyAt(id, p) ==
    IF p > Behind(id) THEN QueryKey(id, p - Behind(id))
    ELSE DocKey(id, DocAt(id, p), p - Ends(DocsOf(id), DocAt(id, p) - 1))

LEMMA BehindFacts ==
    ASSUME NEW id \in Id
    PROVE  /\ Behind(id) \in Nat /\ DocLen(id, HasDocs(id)) = Behind(id) /\ DocLen(id, TRUE) = Behind(id)
           /\ FlattenSeq(DocsOf(id)) \in Seq(Int) /\ DocsOf(id) \in Seq(Seq(Int))
           /\ (IF HasDocs(id) THEN DocsOf(id) ELSE <<>>) = DocsOf(id)
           /\ (IF HasDocs(id) THEN FlattenSeq(DocsOf(id)) ELSE <<>>) = FlattenSeq(DocsOf(id))
           /\ ~HasDocs(id) => Behind(id) = 0 /\ DocsOf(id) = <<>>
<1>1. PICK s \in Seq(Seq(Int)) : s = DocsOf(id)
  BY DocsFacts
<1>2. FlattenSeq(s) \in Seq(Int) /\ FlattenSeq(<<>>) = <<>>
  BY FlattenStep
<1>3. Len(FlattenSeq(s)) \in Nat /\ Len(<<>>) = 0
  BY <1>2
<1>4. CASE s = <<>>
  BY <1>1, <1>2, <1>3, <1>4 DEF HasDocs, Behind, DocLen
<1>5. CASE s # <<>>
  BY <1>1, <1>2, <1>3, <1>5 DEF HasDocs, Behind, DocLen
<1> QED BY <1>4, <1>5

LEMMA DocAtIs ==
    ASSUME NEW id \in Id, NEW p \in Nat, NEW e \in DOMAIN DocsOf(id), Covers(DocsOf(id), e, p)
    PROVE  DocAt(id, p) = e
<1>1. PICK s \in Seq(Seq(Int)) : s = DocsOf(id)
  BY DocsFacts
<1>2. PICK x : x = DocAt(id, p)
  OBVIOUS
<1>3. x \in DOMAIN s /\ Covers(s, x, p)
  BY <1>1, <1>2 DEF DocAt
<1>4. DOMAIN s = 1..Len(s)
  OBVIOUS
<1> QED BY <1>1, <1>2, <1>3, <1>4, EndsUnique

LEMMA DocAtExists ==
    ASSUME NEW id \in Id, NEW p \in Nat, p >= 1, p <= Behind(id)
    PROVE  /\ DocAt(id, p) \in 1..Len(DocsOf(id)) /\ Covers(DocsOf(id), DocAt(id, p), p)
           /\ DocAt(id, p) \in DOMAIN DocsOf(id)
<1>1. PICK s \in Seq(Seq(Int)) : s = DocsOf(id)
  BY DocsFacts
<1>2. p \in 1..Len(FlattenSeq(s))
  BY <1>1, BehindFacts DEF Behind
<1>3. PICK e \in 1..Len(s) : Covers(s, e, p)
  BY <1>2, EndsAt
<1>4. DOMAIN s = 1..Len(s)
  OBVIOUS
<1>5. DocAt(id, p) = e
  BY <1>1, <1>3, <1>4, DocAtIs
<1> QED BY <1>1, <1>3, <1>4, <1>5

(* A stretch of a sequence.                                                    *)
LEMMA StretchOf ==
    ASSUME NEW T, NEW t \in Seq(T), NEW a \in Nat, NEW k \in Nat, a + k <= Len(t)
    PROVE  /\ SubSeq(t, a + 1, a + k) = [j \in 1..k |-> t[a + j]]
           /\ SubSeq(t, a + 1, a + k) \in Seq(T) /\ Len(SubSeq(t, a + 1, a + k)) = k
<1>1. SubSeq(t, a + 1, a + k) = [j \in 1..(a + k) - (a + 1) + 1 |-> t[j + (a + 1) - 1]]
  OBVIOUS
<1>2. (a + k) - (a + 1) + 1 = k
  OBVIOUS
<1>3. \A j \in 1..k : j + (a + 1) - 1 = a + j
  OBVIOUS
<1>4. SubSeq(t, a + 1, a + k) = [j \in 1..k |-> t[a + j]]
  BY <1>1, <1>2, <1>3
<1>5. PICK e : e = [j \in 1..k |-> t[a + j]]
  OBVIOUS
<1>6. e = [j \in 1..k |-> e[j]] /\ \A j \in 1..k : e[j] \in T
  BY <1>5
<1>7. e \in Seq(T) /\ Len(e) = k
  BY <1>6, ListOf
<1> QED BY <1>4, <1>5, <1>7

(* The tokens of a request: its documents, when it has merged them, its query,  *)
(* and what it has sampled.                                                    *)
LEMMA TokensAt ==
    ASSUME out \in [Id -> Nat], NEW id \in Id, NEW n \in Nat,
           NEW m \in BOOLEAN, n = DocLen(id, m)
    PROVE  /\ Tokens(id, m) \in Seq(Int) /\ Len(Tokens(id, m)) = Total(id, m, out[id])
           /\ \A k \in 1..n : Tokens(id, m)[k] = FlattenSeq(DocsOf(id))[k]
           /\ \A k \in 1..Total(id, m, out[id]) - n : Tokens(id, m)[n + k] = TokenAt(id, k)
<1>1. PICK D \in Seq(Int) : D = IF m THEN FlattenSeq(DocsOf(id)) ELSE <<>>
  <2>1. CASE m
    BY <2>1, BehindFacts
  <2>2. CASE ~m
    <3>1. <<>> \in Seq(Int)
      OBVIOUS
    <3> QED BY <2>2, <3>1
  <2> QED BY <2>1, <2>2
<1>2. PICK P \in Seq(Int) : P = PromptOf(id)
  BY DocsFacts
<1>3. PICK o \in Nat : o = out[id]
  OBVIOUS
<1>4. PICK G \in Seq(Int) : G = [i \in 1..o |-> GenToken] /\ Len(G) = o
  <2>1. PICK e : e = [i \in 1..o |-> GenToken]
    OBVIOUS
  <2>2. e = [i \in 1..o |-> e[i]] /\ \A i \in 1..o : e[i] \in Int
    BY <2>1, SchedulerAssumption
  <2>3. e \in Seq(Int) /\ Len(e) = o
    BY <2>2, ListOf
  <2> QED BY <2>1, <2>3
<1>5. Tokens(id, m) = D \o P \o G
  BY <1>1, <1>2, <1>3, <1>4 DEF Tokens
<1>6. n = Len(D)
  <2>1. Len(<<>>) = 0
    OBVIOUS
  <2> QED BY <1>1, <2>1 DEF DocLen
<1>7. PICK c \in Nat : c = Len(P)
  BY <1>2
<1>8. Total(id, m, out[id]) = n + c + o
  BY <1>2, <1>3, <1>7 DEF Total
<1>9. PICK t : t = D \o P \o G
  OBVIOUS
<1>10. t \in Seq(Int) /\ Len(t) = n + c + o
  BY <1>4, <1>6, <1>7, <1>9
<1>11. \A k \in 1..n + c + o : t[k] = IF k <= n THEN D[k] ELSE IF k <= n + c THEN P[k - n] ELSE G[k - n - c]
  BY <1>4, <1>6, <1>7, <1>9
<1>12. \A k \in 1..n : t[k] = FlattenSeq(DocsOf(id))[k]
  <2> SUFFICES ASSUME NEW k \in 1..n PROVE t[k] = FlattenSeq(DocsOf(id))[k]
    OBVIOUS
  <2>0. k \in 1..n + c + o /\ k <= n
    BY <1>3
  <2>1. t[k] = D[k]
    BY <1>11, <2>0
  <2>2. m
    <3> SUFFICES ASSUME ~m PROVE FALSE
      OBVIOUS
    <3>1. n = 0
      BY DEF DocLen
    <3> QED BY <3>1
  <2> QED BY <1>1, <2>1, <2>2
<1>13. ASSUME NEW k \in 1..c + o PROVE t[n + k] = TokenAt(id, k)
  <2>0. PICK l \in Nat : l = k /\ l >= 1 /\ l <= c + o
    BY <1>13
  <2>1. PICK q \in Nat : q = n + l
    OBVIOUS
  <2>2. q \in 1..n + c + o /\ ~(q <= n) /\ q - n = l /\ (q <= n + c <=> l <= c) /\ q - n - c = l - c
    BY <2>0, <2>1, SMTT(30)
  <2>3. t[q] = IF q <= n THEN D[q] ELSE IF q <= n + c THEN P[q - n] ELSE G[q - n - c]
    BY <1>11, <2>2
  <2>4. CASE l <= c
    <3>1. t[q] = P[l]
      BY <2>2, <2>3, <2>4
    <3> QED BY <1>2, <1>7, <2>0, <2>1, <2>4, <3>1 DEF TokenAt
  <2>5. CASE ~(l <= c)
    <3>1. t[q] = G[l - c]
      BY <2>2, <2>3, <2>5
    <3>2. l - c \in 1..o
      BY <2>0, <2>5
    <3>3. t[q] = GenToken
      BY <1>4, <3>1, <3>2
    <3> QED BY <1>2, <1>7, <2>0, <2>1, <2>5, <3>3 DEF TokenAt
  <2> QED BY <2>4, <2>5
<1>14. Total(id, m, out[id]) - n = c + o
  BY <1>8
<1> QED BY <1>5, <1>8, <1>9, <1>10, <1>12, <1>13, <1>14
-----------------------------------------------------------------------------
LEMMA StartOf ==
    ASSUME NEW T, NEW t \in Seq(T), NEW k \in Nat, k <= Len(t)
    PROVE  SubSeq(t, 1, k) = [j \in 1..k |-> t[j]] /\ SubSeq(t, 1, k) \in Seq(T) /\ Len(SubSeq(t, 1, k)) = k
<1>1. 0 + k <= Len(t) /\ 0 \in Nat
  OBVIOUS
<1>2. /\ SubSeq(t, 0 + 1, 0 + k) = [j \in 1..k |-> t[0 + j]]
      /\ SubSeq(t, 0 + 1, 0 + k) \in Seq(T) /\ Len(SubSeq(t, 0 + 1, 0 + k)) = k
  BY <1>1, StretchOf
<1>3. 0 + 1 = 1 /\ 0 + k = k /\ \A j \in 1..k : 0 + j = j
  OBVIOUS
<1> QED BY <1>2, <1>3

(* The document that covers a position, and how far into it the position is.    *)
LEMMA DocSpot ==
    ASSUME NEW id \in Id, NEW p \in Nat, p >= 1, p <= Behind(id)
    PROVE  \E e \in 1..Len(DocsOf(id)), a \in Nat, k \in Nat :
              /\ e = DocAt(id, p) /\ a = Ends(DocsOf(id), e - 1) /\ k >= 1 /\ p = a + k
              /\ DocsOf(id)[e] \in Seq(Int) /\ k <= Len(DocsOf(id)[e])
              /\ KeyAt(id, p) = DocKey(id, e, k) /\ a + Len(DocsOf(id)[e]) <= Behind(id)
<1>1. PICK s \in Seq(Seq(Int)) : s = DocsOf(id)
  BY DocsFacts
<1>2. PICK e \in 1..Len(s) : e = DocAt(id, p) /\ Covers(s, e, p)
  BY <1>1, DocAtExists
<1>3. PICK n \in Nat : n = Len(s)
  OBVIOUS
<1>4. e \in 0..n /\ e - 1 \in 0..n
  BY <1>2, <1>3
<1>5. PICK a \in Nat : a = Ends(s, e - 1)
  BY <1>3, <1>4, EndsFacts
<1>6. PICK c \in Nat : c = Len(s[e])
  BY <1>2, EndsFacts
<1>7. Ends(s, e) = a + c /\ s[e] \in Seq(Int)
  BY <1>2, <1>5, <1>6, EndsFacts
<1>8. a < p /\ p <= a + c
  BY <1>2, <1>5, <1>7 DEF Covers
<1>9. PICK k \in Nat : k = p - a /\ p = a + k /\ k >= 1 /\ k <= c
  BY <1>8
<1>10. Behind(id) \in Nat
  BY BehindFacts
<1>11. KeyAt(id, p) = DocKey(id, e, k)
  <2>1. ~(p > Behind(id))
    BY <1>10
  <2> QED BY <1>1, <1>2, <1>5, <1>9, <2>1 DEF KeyAt
<1>12. a + c <= Behind(id)
  <2>1. Ends(s, e) <= Ends(s, n)
    <3>1. n \in e..n /\ n \in e..Len(s)
      BY <1>2, <1>3
    <3>2. e \in 0..Len(s)
      BY <1>2
    <3> QED BY <1>3, <3>1, <3>2, EndsMono
  <2>2. Ends(s, Len(s)) = Len(FlattenSeq(s))
    BY EndsFacts
  <2>3. Ends(s, n) = Behind(id)
    BY <1>1, <1>3, <2>2 DEF Behind
  <2> QED BY <1>7, <2>1, <2>3
<1> QED BY <1>1, <1>2, <1>5, <1>6, <1>7, <1>9, <1>11, <1>12

LEMMA TrueKeyBehind ==
    ASSUME out \in [Id -> Nat], NEW id \in Id, NEW m \in BOOLEAN, m = HasDocs(id),
           NEW k \in Nat, k >= 1, Behind(id) + k <= Total(id, m, out[id])
    PROVE  TrueKey(id, m, Behind(id) + k) = QueryKey(id, k)
<1>1. PICK n \in Nat : n = Behind(id) /\ n = DocLen(id, m)
  BY BehindFacts
<1>2. PICK t \in Seq(Int) : t = Tokens(id, m) /\ Len(t) = Total(id, m, out[id])
  BY <1>1, TokensAt
<1>3. PICK N \in Nat : N = Total(id, m, out[id])
  BY TotalTokens
<1>4. \A j \in 1..N - n : t[n + j] = TokenAt(id, j)
  BY <1>1, <1>2, <1>3, TokensAt
<1>5. n + k <= N
  BY <1>1, <1>3
<1>6. SubSeq(t, n + 1, n + k) = [j \in 1..k |-> t[n + j]]
  BY <1>2, <1>3, <1>5, StretchOf
<1>7. \A j \in 1..k : j \in 1..N - n
  BY <1>5
<1>8. \A j \in 1..k : t[n + j] = TokenAt(id, j)
  BY <1>4, <1>7
<1>9. SubSeq(t, n + 1, n + k) = [j \in 1..k |-> TokenAt(id, j)]
  BY <1>6, <1>8
<1>10. (IF m THEN DocsOf(id) ELSE <<>>) = DocsOf(id)
  BY BehindFacts
<1>11. PICK p \in Nat : p = n + k /\ p > n
  OBVIOUS
<1>12. TrueKey(id, m, p) = [docs |-> IF m THEN DocsOf(id) ELSE <<>>, toks |-> SubSeq(t, n + 1, p)]
  BY <1>1, <1>2, <1>11 DEF TrueKey
<1> QED BY <1>1, <1>9, <1>10, <1>11, <1>12 DEF QueryKey

LEMMA TrueKeyWithin ==
    ASSUME out \in [Id -> Nat], NEW id \in Id, NEW m \in BOOLEAN, m = HasDocs(id),
           NEW p \in Nat, p >= 1, p <= Behind(id)
    PROVE  TrueKey(id, m, p) = KeyAt(id, p)
<1>1. PICK n \in Nat : n = Behind(id) /\ n = DocLen(id, m)
  BY BehindFacts
<1>2. PICK t \in Seq(Int) : t = Tokens(id, m) /\ Len(t) = Total(id, m, out[id])
  BY <1>1, TokensAt
<1>3. \A j \in 1..n : t[j] = FlattenSeq(DocsOf(id))[j]
  BY <1>1, <1>2, TokensAt
<1>4. PICK s \in Seq(Seq(Int)) : s = DocsOf(id)
  BY DocsFacts
<1>0. PICK e \in 1..Len(DocsOf(id)), a \in Nat, k \in Nat :
              /\ e = DocAt(id, p) /\ a = Ends(DocsOf(id), e - 1) /\ k >= 1 /\ p = a + k
              /\ DocsOf(id)[e] \in Seq(Int) /\ k <= Len(DocsOf(id)[e])
              /\ KeyAt(id, p) = DocKey(id, e, k) /\ a + Len(DocsOf(id)[e]) <= Behind(id)
  BY DocSpot
<1>5. /\ e \in 1..Len(s)
      /\ e = DocAt(id, p) /\ a = Ends(s, e - 1) /\ k >= 1 /\ p = a + k
      /\ s[e] \in Seq(Int) /\ k <= Len(s[e])
      /\ KeyAt(id, p) = DocKey(id, e, k) /\ a + Len(s[e]) <= Behind(id)
  BY <1>0, <1>4
<1>6. ~(p > n)
  BY <1>1
<1>7. DocAt(id, p) = CHOOSE x \in DOMAIN DocsOf(id) :
             Len(FlattenSeq(SubSeq(DocsOf(id), 1, x - 1))) < p /\ p <= Len(FlattenSeq(SubSeq(DocsOf(id), 1, x)))
  BY DEF DocAt, Covers, Ends
<1>8. TrueKey(id, m, p) = [docs |-> <<>>, toks |-> SubSeq(t, Ends(s, e - 1) + 1, p)]
  <2>1. TrueKey(id, m, p) = [docs |-> <<>>, toks |-> SubSeq(t, Len(FlattenSeq(SubSeq(DocsOf(id), 1, DocAt(id, p) - 1))) + 1, p)]
    BY <1>1, <1>2, <1>6, <1>7 DEF TrueKey
  <2> QED BY <1>4, <1>5, <2>1 DEF Ends
<1>9. SubSeq(t, a + 1, a + k) = [j \in 1..k |-> t[a + j]]
  <2>1. a + k <= Len(t)
    <3>1. PICK N \in Nat : N = Total(id, m, out[id])
      BY TotalTokens
    <3>2. Len(PromptOf(id)) \in Nat /\ out[id] \in Nat
      BY DocsFacts
    <3>3. N = n + Len(PromptOf(id)) + out[id]
      BY <1>1, <3>1 DEF Total
    <3>4. PICK c \in Nat : c = Len(s[e])
      BY <1>5
    <3>5. a + k <= n
      <4>1. a + c <= n /\ k <= c
        BY <1>1, <1>5, <3>4
      <4> QED BY <4>1
    <3>6. n <= N
      BY <3>2, <3>3
    <3> QED BY <1>2, <3>1, <3>5, <3>6
  <2> QED BY <1>2, <2>1, StretchOf
<1>10. ASSUME NEW j \in 1..k PROVE t[a + j] = s[e][j]
  <2>1. FlattenSeq(s)[Ends(s, e - 1) + j] = s[e][j]
    <3>1. j \in 1..Len(s[e])
      BY <1>5
    <3> QED BY <1>5, <3>1, FlattenAt
  <2>2. a + j \in 1..n
    <3>1. PICK c \in Nat : c = Len(s[e])
      BY <1>5
    <3>2. a + c <= n /\ k <= c
      BY <1>1, <1>5, <3>1
    <3> QED BY <3>2
  <2>3. t[a + j] = FlattenSeq(s)[a + j]
    BY <1>3, <1>4, <2>2
  <2> QED BY <1>5, <2>1, <2>3
<1>11. SubSeq(s[e], 1, k) = [j \in 1..k |-> s[e][j]]
  BY <1>5, StartOf
<1>12. SubSeq(t, a + 1, p) = SubSeq(s[e], 1, k)
  BY <1>5, <1>9, <1>10, <1>11
<1> QED BY <1>4, <1>5, <1>8, <1>12 DEF DocKey

LEMMA KeyBehind ==
    ASSUME NEW id \in Id, NEW k \in Nat, k >= 1
    PROVE  KeyAt(id, Behind(id) + k) = QueryKey(id, k)
<1>1. PICK n \in Nat : n = Behind(id)
  BY BehindFacts
<1>2. PICK p \in Nat : p = n + k /\ p > n /\ p - n = k
  OBVIOUS
<1> QED BY <1>1, <1>2 DEF KeyAt

LEMMA TrueKeyIs ==
    ASSUME out \in [Id -> Nat], NEW id \in Id, NEW m \in BOOLEAN, m = HasDocs(id),
           NEW p \in Nat, p >= 1, p <= Total(id, m, out[id])
    PROVE  TrueKey(id, m, p) = KeyAt(id, p)
<1>1. PICK n \in Nat : n = Behind(id)
  BY BehindFacts
<1>2. CASE p <= n
  BY <1>1, <1>2, TrueKeyWithin
<1>3. CASE ~(p <= n)
  <2>1. PICK k \in Nat : k >= 1 /\ p = n + k
    <3>1. p - n \in Nat /\ p - n >= 1 /\ p = n + (p - n)
      BY <1>3
    <3> QED BY <3>1
  <2>2. TrueKey(id, m, n + k) = QueryKey(id, k)
    BY <1>1, <2>1, TrueKeyBehind
  <2>3. KeyAt(id, n + k) = QueryKey(id, k)
    BY <1>1, <2>1, KeyBehind
  <2> QED BY <2>1, <2>2, <2>3
<1> QED BY <1>2, <1>3

LEMMA QueryKeyType ==
    ASSUME NEW id \in Id, NEW k \in Nat
    PROVE  QueryKey(id, k) \in Key
<1>1. PICK P \in Seq(Int) : P = PromptOf(id)
  BY DocsFacts
<1>2. PICK e : e = [j \in 1..k |-> TokenAt(id, j)]
  OBVIOUS
<1>3. ASSUME NEW j \in 1..k PROVE TokenAt(id, j) \in Int
  <2>1. CASE j <= Len(P)
    <3>1. j \in 1..Len(P)
      BY <2>1
    <3> QED BY <1>1, <2>1, <3>1 DEF TokenAt
  <2>2. CASE ~(j <= Len(P))
    BY <1>1, <2>2, SchedulerAssumption DEF TokenAt
  <2> QED BY <2>1, <2>2
<1>4. e = [j \in 1..k |-> e[j]] /\ \A j \in 1..k : e[j] \in Int
  BY <1>2, <1>3
<1>5. e \in Seq(Int)
  BY <1>4, ListOf
<1>6. DocsOf(id) \in Seq(Seq(Int))
  BY DocsFacts
<1> QED BY <1>2, <1>5, <1>6 DEF QueryKey, Key

LEMMA KeyAtType ==
    ASSUME NEW id \in Id, NEW p \in Nat, p >= 1
    PROVE  KeyAt(id, p) \in Key /\ KeyAt(id, p) # NoKey
<1>1. PICK n \in Nat : n = Behind(id)
  BY BehindFacts
<1>2. CASE p <= n
  <2>1. PICK e \in 1..Len(DocsOf(id)), a \in Nat, k \in Nat :
              /\ DocsOf(id)[e] \in Seq(Int) /\ k <= Len(DocsOf(id)[e])
              /\ KeyAt(id, p) = DocKey(id, e, k)
    BY <1>1, <1>2, DocSpot
  <2>2. SubSeq(DocsOf(id)[e], 1, k) \in Seq(Int)
    BY <2>1, StartOf
  <2>z. <<>> \in Seq(Seq(Int))
    OBVIOUS
  <2>3. PICK x \in Seq(Seq(Int)), y \in Seq(Int) : x = <<>> /\ y = SubSeq(DocsOf(id)[e], 1, k)
    BY <2>z, <2>2, Zenon
  <2>4. KeyAt(id, p) = [docs |-> x, toks |-> y]
    BY <2>1, <2>3 DEF DocKey
  <2> QED BY <2>4, SchedulerAssumption DEF Key
<1>3. CASE ~(p <= n)
  <2>1. PICK k \in Nat : k = p - n /\ p > n
    BY <1>3
  <2>2. KeyAt(id, p) = QueryKey(id, k)
    BY <1>1, <2>1 DEF KeyAt
  <2> QED BY <2>2, QueryKeyType, SchedulerAssumption
<1> QED BY <1>2, <1>3
-----------------------------------------------------------------------------
(* A list of hashes that names what each full block of a request should hold.   *)
Spells(id, hs) == hs \in Seq(Key) /\ \A i \in 1..Len(hs) : hs[i] = KeyAt(id, i * BlockSize)

LEMMA Multiple ==
    ASSUME NEW k \in Nat
    PROVE  k * BlockSize \in Nat /\ (k >= 1 => k * BlockSize >= 1)
<1>1. k \in Int /\ k >= 0
  OBVIOUS
<1>2. k * BlockSize \in Nat /\ (1 <= k <=> 1 * BlockSize <= k * BlockSize)
  BY <1>1, Products
<1>3. PICK q \in Nat : q = k * BlockSize
  BY <1>2
<1>4. 1 * BlockSize = BlockSize /\ BlockSize \in Nat /\ BlockSize >= 1
  BY SchedulerAssumption
<1> QED BY <1>2, <1>3, <1>4

LEMMA DocEnds ==
    ASSUME NEW id \in Id, NEW s \in Seq(Seq(Int)), s = DocsOf(id),
           NEW h \in Seq(Seq(Key)), h = DocHashes(id)
    PROVE  /\ Len(h) = Len(s)
           /\ \A e \in 0..Len(s) : Ends(h, e) \in Nat /\ Ends(h, e) * BlockSize = Ends(s, e)
<1>1. PICK n \in Nat : n = Len(s) /\ n = Len(h)
  BY DocHashesFacts
<1>2. \A e \in 0..n : Ends(s, e) \in Nat /\ Ends(h, e) \in Nat
  BY <1>1, EndsFacts
<1>3. \A e \in 1..n : /\ Ends(s, e) = Ends(s, e - 1) + Len(s[e]) /\ Len(s[e]) \in Nat
                      /\ Ends(h, e) = Ends(h, e - 1) + Len(h[e]) /\ Len(h[e]) \in Nat
  BY <1>1, EndsFacts
<1>4. \A e \in 1..n : Len(h[e]) * BlockSize = Len(s[e])
  <2> TAKE e \in 1..n
  <2>0. DOMAIN s = 1..Len(s)
    OBVIOUS
  <2>1. e \in DOMAIN DocsOf(id)
    BY <1>1, <2>0
  <2>2. Len(DocHashes(id)[e]) * BlockSize = Len(DocsOf(id)[e])
    BY <2>1, DocHit
  <2> QED BY <2>2
<1>5. Ends(s, 0) = 0 /\ Ends(h, 0) = 0
  BY EndsFacts
<1> DEFINE S == {e \in 0..n : Ends(h, e) * BlockSize = Ends(s, e)}
<1>6. 0 \in S
  <2>1. 0 * BlockSize = 0
    BY SchedulerAssumption
  <2> QED BY <1>1, <1>5, <2>1
<1>7. ASSUME NEW i \in 0..n-1, i \in S PROVE i + 1 \in S
  <2>1. PICK j \in 1..n : j = i + 1 /\ j - 1 = i
    BY <1>1
  <2>2. PICK a \in Nat, b \in Nat : a = Ends(h, i) /\ b = Len(h[j])
    BY <1>1, <1>2, <1>3, <2>1
  <2>i. i \in 0..n
    BY <2>1
  <2>c. PICK c \in Nat : c = Ends(s, i)
    BY <1>2, <2>i
  <2>d. PICK d \in Nat : d = Len(s[j])
    BY <1>3, <2>1
  <2>3. c = Ends(s, i) /\ d = Len(s[j])
    BY <2>c, <2>d
  <2>4. a * BlockSize = c /\ b * BlockSize = d
    BY <1>4, <1>7, <2>1, <2>2, <2>3
  <2>5. (a + b) * BlockSize = a * BlockSize + b * BlockSize
    BY Products
  <2>6. Ends(h, j) = a + b /\ Ends(s, j) = c + d
    BY <1>3, <2>1, <2>2, <2>3
  <2>7. Ends(h, j) * BlockSize = Ends(s, j)
    BY <2>4, <2>5, <2>6
  <2> QED BY <1>1, <2>1, <2>7
<1>8. \A e \in 0..n : e \in S
  <2> HIDE DEF S
  <2> QED BY <1>1, <1>6, <1>7, BoundedInduction
<1> QED BY <1>1, <1>2, <1>8

(* The hashes of the documents in their order spell the front of the request.   *)
LEMMA DocSpells ==
    ASSUME NEW id \in Id, NEW hs, hs = FlattenSeq(DocHashes(id))
    PROVE  Spells(id, hs) /\ Len(hs) * BlockSize = Behind(id) /\ Len(hs) \in Nat
<1>1. PICK s \in Seq(Seq(Int)) : s = DocsOf(id)
  BY DocsFacts
<1>2. PICK h \in Seq(Seq(Key)) : h = DocHashes(id)
  BY DocHashesFacts
<1>3. PICK n \in Nat : n = Len(s) /\ n = Len(h)
  BY <1>1, <1>2, DocEnds
<1>4. \A e \in 0..n : Ends(h, e) \in Nat /\ Ends(s, e) \in Nat /\ Ends(h, e) * BlockSize = Ends(s, e)
  <2>1. \A e \in 0..n : Ends(h, e) \in Nat /\ Ends(h, e) * BlockSize = Ends(s, e)
    BY <1>1, <1>2, <1>3, DocEnds
  <2>2. \A e \in 0..n : Ends(s, e) \in Nat
    BY <1>3, EndsFacts
  <2> QED BY <2>1, <2>2
<1>5. /\ hs \in Seq(Key) /\ Len(hs) = Ends(h, n)
      /\ Behind(id) = Ends(s, n)
  <2>1. FlattenSeq(h) \in Seq(Key) /\ Ends(h, Len(h)) = Len(FlattenSeq(h))
    BY EndsFacts
  <2>2. Ends(s, Len(s)) = Len(FlattenSeq(s))
    BY EndsFacts
  <2> QED BY <1>1, <1>2, <1>3, <2>1, <2>2 DEF Behind
<1>6. Len(hs) * BlockSize = Behind(id) /\ Len(hs) \in Nat
  <2>1. n \in 0..n
    BY <1>3
  <2> QED BY <1>4, <1>5, <2>1
<1>7. ASSUME NEW i \in 1..Len(hs) PROVE hs[i] = KeyAt(id, i * BlockSize)
  <2>1. PICK e \in 1..n : Covers(h, e, i)
    <3>1. i \in 1..Len(FlattenSeq(h))
      BY <1>2
    <3> QED BY <1>3, <3>1, EndsAt
  <2>a. e \in 0..n /\ e - 1 \in 0..n
    BY <2>1
  <2>d. DOMAIN s = 1..Len(s)
    OBVIOUS
  <2>b. DOMAIN s = 1..n /\ 1..Len(h) = 1..n /\ 1..Len(s) = 1..n
    BY <1>3, <2>d
  <2>2. e \in 0..n /\ e - 1 \in 0..n /\ e \in 1..Len(h) /\ e \in 1..Len(s) /\ e \in DOMAIN s
    BY <2>1, <2>a, <2>b
  <2>3. PICK a \in Nat, b \in Nat : a = Ends(h, e - 1) /\ b = Ends(h, e)
    BY <1>4, <2>2
  <2>4. PICK c \in Nat, d \in Nat : c = Ends(s, e - 1) /\ d = Ends(s, e)
    BY <1>4, <2>2
  <2>5. a * BlockSize = c /\ b * BlockSize = d
    BY <1>4, <2>2, <2>3, <2>4
  <2>6. i \in Nat /\ a < i /\ i <= b
    BY <1>6, <2>1, <2>3 DEF Covers
  <2>7. PICK k \in Nat : k = i - a /\ i = a + k /\ k >= 1
    BY <2>6
  <2>8. b = a + Len(h[e]) /\ Len(h[e]) \in Nat
    BY <2>2, <2>3, EndsFacts
  <2>9. k \in 1..Len(h[e])
    BY <2>6, <2>7, <2>8
  <2>10. hs[i] = h[e][k]
    <3>1. FlattenSeq(h)[Ends(h, e - 1) + k] = h[e][k]
      BY <2>2, <2>9, FlattenAt
    <3> QED BY <1>2, <2>3, <2>7, <3>1
  <2>11. h[e] = HashChain(<<>>, s[e])
    BY <1>1, <1>2, <2>2, DocHashesFacts
  <2>12. s[e] \in Seq(Int)
    BY <2>2, EndsFacts
  <2>13. <<>> \in Seq(Seq(Int))
    OBVIOUS
  <2>14. h[e][k] = [docs |-> <<>>, toks |-> SubSeq(s[e], 1, k * BlockSize)]
    <3>1. Len(HashChain(<<>>, s[e])) = Len(s[e]) \div BlockSize
      BY <2>12, <2>13, ChainFacts
    <3>2. k \in 1..(Len(s[e]) \div BlockSize)
      BY <2>9, <2>11, <3>1
    <3>3. HashChain(<<>>, s[e])[k] = [docs |-> <<>>, toks |-> SubSeq(s[e], 1, k * BlockSize)]
      BY <2>12, <2>13, <3>2, ChainFacts
    <3> QED BY <2>11, <3>3
  <2>15. PICK p \in Nat, q \in Nat : p = i * BlockSize /\ q = k * BlockSize /\ p = c + q /\ q >= 1 /\ p <= d
    <3>1. i * BlockSize \in Nat /\ k * BlockSize \in Nat
      BY <2>6, <2>7, Multiple
    <3>2. (a + k) * BlockSize = a * BlockSize + k * BlockSize
      BY Products
    <3>3. i * BlockSize <= b * BlockSize
      BY <2>6, Products
    <3>4. k * BlockSize >= 1
      BY <2>7, Multiple
    <3>5. i * BlockSize = c + k * BlockSize
      BY <2>5, <2>7, <3>2
    <3> QED BY <2>5, <3>1, <3>3, <3>4, <3>5
  <2>16. Covers(s, e, p)
    BY <2>4, <2>15 DEF Covers
  <2>17. DocAt(id, p) = e
    BY <1>1, <2>2, <2>16, DocAtIs
  <2>18. d <= Behind(id)
    <3>1. Ends(s, e) <= Ends(s, n)
      <4>1. e \in 0..Len(s) /\ n \in e..Len(s)
        BY <1>3, <2>2
      <4> QED BY <4>1, EndsMono
    <3> QED BY <1>5, <2>4, <3>1
  <2>19. KeyAt(id, p) = DocKey(id, e, q)
    <3>1. Behind(id) \in Nat
      BY BehindFacts
    <3>2. ~(p > Behind(id)) /\ p - c = q
      BY <2>15, <2>18, <3>1
    <3> QED BY <1>1, <2>4, <2>17, <3>2 DEF KeyAt
  <2> QED BY <1>1, <2>10, <2>14, <2>15, <2>19 DEF DocKey
<1> QED BY <1>5, <1>6, <1>7 DEF Spells

(* The chain of a query, seeded with its documents.                            *)
LEMMA ChainSpells ==
    ASSUME out \in [Id -> Nat], NEW id \in Id, NEW m \in BOOLEAN, ~m,
           NEW c, c = HashChain(DocsOf(id), Tokens(id, m))
    PROVE  /\ c \in Seq(Key) /\ Len(c) = Total(id, m, out[id]) \div BlockSize
           /\ \A k \in 1..Len(c) : c[k] = QueryKey(id, k * BlockSize)
<1>0. DocLen(id, m) = 0 /\ 0 \in Nat
  BY DEF DocLen
<1>1. PICK N \in Nat : N = Total(id, m, out[id])
  BY <1>0, TotalTokens
<1>2. PICK t \in Seq(Int) : t = Tokens(id, m) /\ Len(t) = N
  BY <1>0, <1>1, TokensAt
<1>3. \A j \in 1..N : t[j] = TokenAt(id, j)
  <2>1. PICK z \in Nat : z = 0 /\ z = DocLen(id, m)
    BY <1>0
  <2>2. \A j \in 1..N - z : Tokens(id, m)[z + j] = TokenAt(id, j)
    <3>1. \A j \in 1..Total(id, m, out[id]) - z : Tokens(id, m)[z + j] = TokenAt(id, j)
      BY <2>1, TokensAt
    <3> QED BY <1>1, <3>1
  <2> QED BY <1>1, <1>2, <2>1, <2>2
<1>4. DocsOf(id) \in Seq(Seq(Int))
  BY DocsFacts
<1>5. /\ c \in Seq(Key) /\ Len(c) = N \div BlockSize
      /\ \A k \in 1..(N \div BlockSize) : c[k] = [docs |-> DocsOf(id), toks |-> SubSeq(t, 1, k * BlockSize)]
  BY <1>2, <1>4, ChainFacts
<1>6. ASSUME NEW k \in 1..Len(c) PROVE c[k] = QueryKey(id, k * BlockSize)
  <2>1. PICK l \in Nat : l = N \div BlockSize /\ l * BlockSize <= N
    <3>1. N \in Int /\ N >= 0
      OBVIOUS
    <3> QED BY <3>1, Division
  <2>2. PICK q \in Nat : q = k * BlockSize /\ q <= l * BlockSize
    <3>1. k \in 1..l
      BY <1>5, <2>1
    <3>2. k \in Nat /\ k <= l
      BY <3>1
    <3>3. k * BlockSize \in Nat /\ k * BlockSize <= l * BlockSize
      BY <3>2, Multiple, Products
    <3> QED BY <3>3
  <2>3. q <= N
    <3>1. PICK lb \in Nat : lb = l * BlockSize
      BY Multiple
    <3> QED BY <2>1, <2>2, <3>1
  <2>4. SubSeq(t, 1, q) = [j \in 1..q |-> t[j]]
    BY <1>2, <2>3, StartOf
  <2>5. \A j \in 1..q : t[j] = TokenAt(id, j)
    BY <1>3, <2>3
  <2>6. SubSeq(t, 1, q) = [j \in 1..q |-> TokenAt(id, j)]
    BY <2>4, <2>5
  <2>7. k \in 1..(N \div BlockSize)
    BY <1>5
  <2> QED BY <1>5, <2>2, <2>6, <2>7 DEF QueryKey
<1> QED BY <1>1, <1>5, <1>6

(* The documents' hashes and the query's behind them.                          *)
LEMMA MergeSpells ==
    ASSUME out \in [Id -> Nat], NEW id \in Id, NEW h \in Seq(Key), h = FlattenSeq(DocHashes(id)),
           NEW m \in BOOLEAN, ~m, NEW c \in Seq(Key), c = HashChain(DocsOf(id), Tokens(id, m))
    PROVE  /\ Spells(id, h \o c)
           /\ Len(c) \in Nat /\ Len(h \o c) * BlockSize = Behind(id) + Len(c) * BlockSize
<1>1. PICK a \in Nat : a = Len(h) /\ a * BlockSize = Behind(id)
  BY DocSpells
<1>2. PICK b \in Nat : b = Len(c)
  OBVIOUS
<1>3. h \o c \in Seq(Key) /\ Len(h \o c) = a + b
  BY <1>1, <1>2, ConcatFacts
<1>4. ASSUME NEW i \in 1..a + b PROVE (h \o c)[i] = KeyAt(id, i * BlockSize)
  <2>1. CASE i <= a
    <3>1. i \in 1..Len(h) /\ (h \o c)[i] = h[i]
      BY <1>1, <2>1
    <3>2. h[i] = KeyAt(id, i * BlockSize)
      BY <3>1, DocSpells DEF Spells
    <3> QED BY <3>1, <3>2
  <2>2. CASE ~(i <= a)
    <3>1. PICK k \in Nat : k = i - a /\ i = a + k /\ k >= 1 /\ k <= b
      BY <2>2
    <3>2. (h \o c)[i] = c[k]
      BY <1>1, <1>2, <3>1
    <3>3. c[k] = QueryKey(id, k * BlockSize)
      <4>1. k \in 1..Len(c)
        BY <1>2, <3>1
      <4> QED BY <4>1, ChainSpells
    <3>4. PICK q \in Nat : q = k * BlockSize /\ q >= 1
      BY <3>1, Multiple
    <3>5. i * BlockSize = Behind(id) + q
      <4>1. (a + k) * BlockSize = a * BlockSize + k * BlockSize
        BY Products
      <4> QED BY <1>1, <3>1, <3>4, <4>1
    <3>6. KeyAt(id, Behind(id) + q) = QueryKey(id, q)
      BY <3>4, KeyBehind
    <3> QED BY <3>2, <3>3, <3>4, <3>5, <3>6
  <2> QED BY <2>1, <2>2
<1>5. (a + b) * BlockSize = a * BlockSize + b * BlockSize
  BY Products
<1>6. Len(h \o c) * BlockSize = Behind(id) + Len(c) * BlockSize
  BY <1>1, <1>2, <1>3, <1>5
<1> QED BY <1>2, <1>3, <1>4, <1>6 DEF Spells

(* cache_full_blocks goes on in the chain of the last hash: what it appends     *)
(* spells the request too, when that hash is the query's.                      *)
LEMMA ExtendSpells ==
    ASSUME out \in [Id -> Nat], NEW id \in Id, NEW m \in BOOLEAN, m = HasDocs(id),
           NEW hs \in Seq(Key), Spells(id, hs),
           hs = <<>> => ~m, hs # <<>> => Len(hs) * BlockSize > Behind(id),
           NEW full \in Nat, full * BlockSize <= Total(id, m, out[id])
    PROVE  Spells(id, ExtendHashes(hs, Tokens(id, m), full))
<1>1. PICK B \in Nat : B = Behind(id) /\ B = DocLen(id, m)
  BY BehindFacts
<1>2. PICK N \in Nat : N = Total(id, m, out[id])
  BY TotalTokens
<1>t. /\ Tokens(id, m) \in Seq(Int) /\ Len(Tokens(id, m)) = Total(id, m, out[id])
      /\ \A k \in 1..Total(id, m, out[id]) - B : Tokens(id, m)[B + k] = TokenAt(id, k)
  BY <1>1, TokensAt
<1>3. PICK t \in Seq(Int) : t = Tokens(id, m) /\ Len(t) = N
  BY <1>2, <1>t
<1>4. \A k \in 1..N - B : t[B + k] = TokenAt(id, k)
  BY <1>2, <1>3, <1>t
<1>5. PICK n \in Nat : n = Len(hs)
  OBVIOUS
<1>6. PICK nb \in Nat : nb = n * BlockSize /\ nb >= B
  <2>1. n * BlockSize \in Nat
    BY <1>5, Products
  <2>2. CASE hs = <<>>
    <3>1. B = 0
      BY <1>1, <2>2, BehindFacts
    <3> QED BY <2>1, <3>1
  <2>3. CASE hs # <<>>
    BY <1>1, <1>5, <2>1, <2>3
  <2> QED BY <2>2, <2>3
<1>7. PICK k0 \in Nat : k0 = nb - B /\ nb = B + k0
  BY <1>6
<1>8. PICK last : last = IF n = 0 THEN [docs |-> <<>>, toks |-> <<>>] ELSE hs[n]
  OBVIOUS
<1>9. last = QueryKey(id, k0)
  <2>1. CASE hs = <<>>
    <3>1. n = 0
      BY <1>5, <2>1
    <3>2. B = 0 /\ DocsOf(id) = <<>>
      BY <1>1, <2>1, BehindFacts
    <3>3. nb = 0
      BY <1>6, <3>1, SchedulerAssumption
    <3>4. k0 = 0
      BY <1>7, <3>2, <3>3
    <3>5. [j \in 1..0 |-> TokenAt(id, j)] = <<>>
      OBVIOUS
    <3> QED BY <1>8, <3>1, <3>2, <3>4, <3>5 DEF QueryKey
  <2>2. CASE hs # <<>>
    <3>1. n \in 1..Len(hs) /\ n # 0
      BY <1>5, <2>2
    <3>2. hs[n] = KeyAt(id, nb)
      BY <1>6, <3>1 DEF Spells
    <3>3. nb > B
      BY <1>1, <1>5, <1>6, <2>2
    <3>0. k0 >= 1
      BY <1>7, <3>3
    <3>4. KeyAt(id, B + k0) = QueryKey(id, k0)
      BY <1>1, <3>0, KeyBehind
    <3> QED BY <1>7, <1>8, <3>1, <3>2, <3>4
  <2> QED BY <2>1, <2>2
<1>10. PICK w : w = [i \in 1..Max({0, full - n}) |->
                  [docs |-> last.docs,
                   toks |-> last.toks \o SubSeq(t, n * BlockSize + 1, (n + i) * BlockSize)]]
  OBVIOUS
<1>11. ExtendHashes(hs, t, full) = hs \o w
  BY <1>5, <1>8, <1>10 DEF ExtendHashes
<1>12. PICK r \in Nat : r = Max({0, full - n}) /\ (r = 0 \/ n + r = full)
  <2>1. full - n \in Int /\ 0 \in Int
    BY <1>5
  <2>2. Max({0, full - n}) = IF 0 >= full - n THEN 0 ELSE full - n
    BY <2>1, MaxOfTwo
  <2>3. CASE 0 >= full - n
    BY <2>2, <2>3
  <2>4. CASE ~(0 >= full - n)
    <3>1. full - n \in Nat /\ n + (full - n) = full
      BY <2>4
    <3> QED BY <2>2, <2>4, <3>1
  <2> QED BY <2>3, <2>4
<1>13. ASSUME NEW i \in 1..r PROVE w[i] = QueryKey(id, k0 + i * BlockSize) /\ w[i] \in Key
                                   /\ KeyAt(id, (n + i) * BlockSize) = w[i]
  <2>1. PICK x \in Nat : x = i * BlockSize /\ x >= 1
    <3>1. i \in Nat /\ i >= 1
      OBVIOUS
    <3> QED BY <3>1, Multiple
  <2>2. (n + i) * BlockSize = nb + x
    BY <1>6, <2>1, Products
  <2>3. nb + x <= N
    <3>1. n + i <= full
      BY <1>12
    <3>2. (n + i) * BlockSize <= full * BlockSize /\ full * BlockSize \in Int
      BY <3>1, Products
    <3> QED BY <1>2, <2>2, <3>2
  <2>4. /\ SubSeq(t, nb + 1, nb + x) = [j \in 1..x |-> t[nb + j]]
        /\ SubSeq(t, nb + 1, nb + x) \in Seq(Int) /\ Len(SubSeq(t, nb + 1, nb + x)) = x
    BY <1>3, <2>3, StretchOf
  <2>5. PICK y \in Seq(Int) : y = SubSeq(t, nb + 1, nb + x) /\ Len(y) = x
    BY <2>4
  <2>6. ASSUME NEW j \in 1..x PROVE y[j] = TokenAt(id, k0 + j)
    <3>1. y[j] = t[nb + j]
      BY <2>4, <2>5
    <3>2. k0 + j \in 1..N - B /\ nb + j = B + (k0 + j)
      BY <1>7, <2>3
    <3>3. t[B + (k0 + j)] = TokenAt(id, k0 + j)
      BY <1>4, <3>2
    <3> QED BY <3>1, <3>2, <3>3
  <2>7. PICK z \in Seq(Int) : z = [j \in 1..k0 |-> TokenAt(id, j)] /\ Len(z) = k0
    <3>1. QueryKey(id, k0) \in Key
      BY QueryKeyType
    <3>2. PICK e : e = [j \in 1..k0 |-> TokenAt(id, j)]
      OBVIOUS
    <3>3. e \in Seq(Int)
      BY <3>1, <3>2 DEF QueryKey, Key
    <3>4. Len(e) = k0
      BY <3>2, <3>3
    <3> QED BY <3>2, <3>3, <3>4
  <2>8. w[i] = [docs |-> DocsOf(id), toks |-> z \o y]
    <3>1. w[i] = [docs |-> last.docs, toks |-> last.toks \o SubSeq(t, n * BlockSize + 1, (n + i) * BlockSize)]
      BY <1>10, <1>12
    <3>2. last.docs = DocsOf(id) /\ last.toks = z
      BY <1>9, <2>7 DEF QueryKey
    <3> QED BY <1>6, <2>2, <2>5, <3>1, <3>2
  <2>9. z \o y = [j \in 1..k0 + x |-> TokenAt(id, j)]
    <3>1. \A j \in 1..k0 + x : (z \o y)[j] = TokenAt(id, j)
      <4> TAKE j \in 1..k0 + x
      <4>1. CASE j <= k0
        <5>1. (z \o y)[j] = z[j]
          BY <2>5, <2>7, <4>1
        <5> QED BY <2>7, <4>1, <5>1
      <4>2. CASE ~(j <= k0)
        <5>1. PICK l \in Nat : l = j - k0 /\ j = k0 + l /\ l \in 1..x
          BY <4>2
        <5>2. (z \o y)[j] = y[l]
          BY <2>5, <2>7, <5>1
        <5>3. y[l] = TokenAt(id, k0 + l)
          BY <2>6, <5>1
        <5> QED BY <5>1, <5>2, <5>3
      <4> QED BY <4>1, <4>2
    <3>2. z \o y = [j \in 1..k0 + x |-> (z \o y)[j]]
      BY <2>5, <2>7, SMTT(30)
    <3> QED BY <3>1, <3>2
  <2>10. w[i] = QueryKey(id, k0 + x)
    BY <2>8, <2>9 DEF QueryKey
  <2>11. k0 + x \in Nat /\ k0 + x >= 1 /\ nb + x = B + (k0 + x)
    BY <1>7, <2>1
  <2>12. KeyAt(id, B + (k0 + x)) = QueryKey(id, k0 + x)
    BY <1>1, <2>11, KeyBehind
  <2>13. QueryKey(id, k0 + x) \in Key
    BY <2>11, QueryKeyType
  <2> QED BY <2>1, <2>2, <2>10, <2>11, <2>12, <2>13
<1>14. w \in Seq(Key) /\ Len(w) = r
  <2>1. w = [i \in 1..r |-> w[i]]
    BY <1>10, <1>12
  <2>2. \A i \in 1..r : w[i] \in Key
    BY <1>13
  <2> QED BY <2>1, <2>2, ListOf
<1>15. hs \o w \in Seq(Key) /\ Len(hs \o w) = n + r
  BY <1>5, <1>14, ConcatFacts
<1>16. ASSUME NEW i \in 1..n + r PROVE (hs \o w)[i] = KeyAt(id, i * BlockSize)
  <2>1. CASE i <= n
    <3>1. i \in 1..Len(hs) /\ (hs \o w)[i] = hs[i]
      BY <1>5, <1>14, <2>1
    <3> QED BY <3>1 DEF Spells
  <2>2. CASE ~(i <= n)
    <3>1. PICK l \in 1..r : i = n + l
      <4>1. i - n \in 1..r /\ i = n + (i - n)
        BY <2>2
      <4> QED BY <4>1
    <3>2. (hs \o w)[i] = w[l]
      BY <1>5, <1>14, <3>1
    <3> QED BY <1>13, <3>1, <3>2
  <2> QED BY <2>1, <2>2
<1>17. Spells(id, hs \o w)
  BY <1>15, <1>16 DEF Spells
<1> QED BY <1>3, <1>11, <1>17
-----------------------------------------------------------------------------
(* Hits are taken whole, and a query with documents fills a block at least, so  *)
(* that a merged request has a hash of its own.                                *)
HitsWhole == ~DropFirst
QueriesFillBlock == \A r \in Request : Docs[r] # <<>> => Len(Prompt[r]) >= BlockSize

(* The hash lists are the requests' own: none in front of the merge, behind the *)
(* documents from the merge until the request ends.                            *)
Spelled ==
    \A id \in Id :
       /\ Spells(id, hashes[id])
       /\ hashes[id] # <<>> => Len(hashes[id]) * BlockSize > Behind(id) /\ (HasDocs(id) => merged[id])
       /\ HasDocs(id) /\ merged[id] => hashes[id] # <<>> \/ status[id] = "FINISHED"

LEMMA QueryLength ==
    ASSUME QueriesFillBlock, NEW id \in Id
    PROVE  /\ HasDocs(id) => Len(PromptOf(id)) >= BlockSize
           /\ ~IsDoc(id) => Len(PromptOf(id)) >= 1
           /\ Len(PromptOf(id)) \in Nat
<1>1. id[1] \in Request
  BY IdFacts
<1>2. PromptOf(id) \in Seq(Int)
  BY DocsFacts
<1>3. CASE IsDoc(id)
  BY <1>2, <1>3 DEF HasDocs, DocsOf
<1>4. CASE ~IsDoc(id)
  <2>1. PromptOf(id) = Prompt[id[1]] /\ DocsOf(id) = Docs[id[1]]
    BY <1>4 DEF PromptOf, DocsOf
  <2>2. CASE Docs[id[1]] # <<>>
    BY <1>1, <1>2, <2>1, <2>2, SchedulerAssumption DEF QueriesFillBlock
  <2>3. CASE Docs[id[1]] = <<>>
    <3>1. Prompt[id[1]] # <<>>
      BY <1>1, <2>3, SchedulerAssumption
    <3>2. Len(PromptOf(id)) >= 1
      BY <1>2, <2>1, <3>1
    <3> QED BY <1>2, <2>1, <2>3, <3>2 DEF HasDocs
  <2> QED BY <2>2, <2>3
<1> QED BY <1>3, <1>4

(* What an attempt puts in front of the tokens it is going to compute.          *)
LEMMA AttemptSpells ==
    ASSUME Shape, CacheTypes, Places, Counts, Spelled, QueriesFillBlock, NEW id \in Id, AtLookup(id)
    PROVE  /\ Spells(id, AttemptHashes(id)) /\ AttemptHashes(id) \in Seq(Key)
           /\ AttemptHashes(id) = <<>> => ~HasDocs(id)
           /\ AttemptHashes(id) # <<>> => Len(AttemptHashes(id)) * BlockSize > Behind(id)
           /\ IsDoc(id) => HashesOf(id) = AttemptHashes(id)
<1>0. /\ out \in [Id -> Nat] /\ merged \in [Id -> BOOLEAN] /\ AttemptHashes(id) \in Seq(Key)
      /\ HashesOf(id) \in Seq(Key) /\ hashes[id] \in Seq(Key)
  BY LookupTypes DEF Shape, CacheTypes
<1>1. PICK m \in BOOLEAN : m = merged[id]
  BY <1>0
<1>2. status[id] # "FINISHED" /\ (m => HasDocs(id))
  <2>1. waiting # <<>> /\ id = Head(waiting)
    BY DEF AtLookup, InWaitingLoop
  <2>2. id \in Range(waiting)
    BY <2>1, WaitingHead
  <2>3. status[id] \in {"WAITING", "WAITING_FOR_FSM", "PREEMPTED"}
    BY <2>2 DEF Places, Waits
  <2> QED BY <1>1, <2>3 DEF Counts, Amounts
<1>3. IsDoc(id) => ~HasDocs(id)
  BY DEF HasDocs, DocsOf
<1>4. CASE JustMerges(id)
  <2>1. ~m /\ HasDocs(id)
    BY <1>1, <1>4 DEF JustMerges
  <2>2. hashes[id] = <<>>
    BY <1>1, <2>1 DEF Spelled
  <2>3. PICK h \in Seq(Key) : h = FlattenSeq(DocHashes(id))
    BY DocsHitType
  <2>4. PICK c \in Seq(Key) : c = HashChain(DocsOf(id), Tokens(id, m)) /\ c = HashesOf(id)
    BY <1>0, <1>1, <2>2 DEF HashesOf
  <2>5. AttemptHashes(id) = h \o c
    BY <1>4, <2>3, <2>4 DEF AttemptHashes
  <2>6. Spells(id, h \o c) /\ Len(h \o c) * BlockSize = Behind(id) + Len(c) * BlockSize
    BY <1>0, <2>1, <2>3, <2>4, MergeSpells
  <2>7. Len(c) \in Nat /\ Len(c) >= 1
    <3>1. PICK N \in Nat : N = Total(id, m, out[id])
      BY <1>0, TotalTokens
    <3>2. N >= BlockSize
      <4>1. DocLen(id, m) = 0 /\ out[id] \in Nat /\ Len(PromptOf(id)) \in Nat
        BY <1>0, <2>1, QueryLength DEF DocLen
      <4>2. Len(PromptOf(id)) >= BlockSize
        BY <2>1, QueryLength
      <4> QED BY <3>1, <4>1, <4>2, SchedulerAssumption DEF Total
    <3>3. Len(c) = N \div BlockSize
      BY <1>0, <2>1, <2>4, <3>1, ChainSpells
    <3>4. BlockSize \div BlockSize = 1
      <4>1. 1 * BlockSize <= BlockSize /\ BlockSize < 1 * BlockSize + BlockSize /\ BlockSize \in Int /\ 1 \in Int
        BY SchedulerAssumption
      <4> QED BY <4>1, DivisionUnique
    <3>5. BlockSize \div BlockSize <= N \div BlockSize /\ N \div BlockSize \in Nat
      BY <3>2, SchedulerAssumption, DivGrows
    <3> QED BY <3>3, <3>4, <3>5
  <2>8. Len(h \o c) * BlockSize > Behind(id)
    <3>1. Len(c) * BlockSize \in Nat /\ Len(c) * BlockSize >= 1 /\ Behind(id) \in Nat
      BY <2>7, Multiple, BehindFacts
    <3> QED BY <2>6, <3>1
  <2>9. h \o c # <<>>
    <3>1. Len(h \o c) = Len(h) + Len(c) /\ Len(h) \in Nat
      BY ConcatFacts
    <3>2. Len(<<>>) = 0
      OBVIOUS
    <3> QED BY <2>7, <3>1, <3>2
  <2> QED BY <1>0, <1>3, <2>1, <2>5, <2>6, <2>8, <2>9
<1>5. CASE ~JustMerges(id) /\ hashes[id] # <<>>
  <2>1. AttemptHashes(id) = hashes[id] /\ HashesOf(id) = hashes[id]
    BY <1>5 DEF AttemptHashes, HashesOf
  <2> QED BY <1>0, <1>5, <2>1 DEF Spelled
<1>6. CASE ~JustMerges(id) /\ hashes[id] = <<>>
  <2>1. ~HasDocs(id) /\ ~m
    BY <1>1, <1>2, <1>6 DEF JustMerges, Spelled
  <2>2. PICK c \in Seq(Key) : c = HashChain(DocsOf(id), Tokens(id, m)) /\ c = HashesOf(id)
    BY <1>0, <1>1, <1>6 DEF HashesOf
  <2>3. AttemptHashes(id) = c
    BY <1>6, <2>2 DEF AttemptHashes
  <2>4. Behind(id) = 0
    BY <2>1, BehindFacts
  <2>5. ASSUME NEW k \in 1..Len(c) PROVE c[k] = KeyAt(id, k * BlockSize)
    <3>1. c[k] = QueryKey(id, k * BlockSize)
      BY <1>0, <2>1, <2>2, ChainSpells
    <3>2. PICK q \in Nat : q = k * BlockSize /\ q >= 1
      <4>1. k \in Nat /\ k >= 1
        OBVIOUS
      <4> QED BY <4>1, Multiple
    <3>3. KeyAt(id, Behind(id) + q) = QueryKey(id, q)
      BY <3>2, KeyBehind
    <3>4. Behind(id) + q = q
      BY <2>4, <3>2
    <3> QED BY <3>1, <3>2, <3>3, <3>4
  <2>6. Spells(id, c)
    BY <2>5 DEF Spells
  <2>7. c # <<>> => Len(c) * BlockSize > 0
    <3> SUFFICES ASSUME c # <<>> PROVE Len(c) * BlockSize > 0
      OBVIOUS
    <3>1. PICK n \in Nat : n = Len(c)
      BY <2>2
    <3>2. n >= 1
      BY <2>2, <3>1
    <3>3. n * BlockSize \in Nat /\ n * BlockSize >= 1
      BY <3>2, Multiple
    <3> QED BY <3>1, <3>3
  <2> QED BY <1>0, <2>1, <2>2, <2>3, <2>4, <2>6, <2>7
<1> QED BY <1>4, <1>5, <1>6

LEMMA HitReaches ==
    ASSUME NEW hs \in Seq(Key), NEW max \in Nat, NEW k \in Nat, k <= Len(hs), k * BlockSize <= max,
           \A i \in 1..k : Cached(hs[i])
    PROVE  k <= Len(LongestHit(hs, max))
<1>1. PICK n \in Nat : n = Len(hs)
  OBVIOUS
<1>2. PICK d \in Nat : d = max \div BlockSize
  <2>1. max \in Int /\ max >= 0
    OBVIOUS
  <2> QED BY <2>1, Division
<1>3. k <= d
  <2>1. PICK q \in Nat : q = k * BlockSize
    BY Multiple
  <2>2. q \div BlockSize <= max \div BlockSize
    BY <2>1, DivGrows
  <2>3. q \div BlockSize = k
    <3>1. k * BlockSize <= q /\ q < k * BlockSize + BlockSize /\ q \in Int /\ k \in Int
      BY <2>1, SchedulerAssumption
    <3> QED BY <3>1, DivisionUnique
  <2> QED BY <1>2, <2>2, <2>3
<1>4. PICK l \in Nat : l = Min({n, d}) /\ k <= l /\ l <= n
  BY <1>1, <1>2, <1>3, MinOfTwo
<1>5. PICK miss : miss = {i \in 1..l : ~Cached(hs[i])}
  OBVIOUS
<1>6. LongestHit(hs, max) = SubSeq(hs, 1, IF miss = {} THEN l ELSE Min(miss) - 1)
  BY <1>1, <1>2, <1>4, <1>5 DEF LongestHit
<1>7. PICK e \in Nat : e = (IF miss = {} THEN l ELSE Min(miss) - 1) /\ k <= e /\ e <= n
  <2>1. CASE miss = {}
    BY <1>4, <2>1
  <2>2. CASE miss # {}
    <3>1. miss \in SUBSET Nat
      BY <1>5
    <3>2. PICK x \in miss : x = Min(miss)
      BY <2>2, <3>1, MinOfNaturals
    <3>3. x \in 1..l /\ ~Cached(hs[x])
      BY <1>5
    <3>4. x > k
      BY <3>3
    <3>5. x - 1 \in Nat /\ k <= x - 1 /\ x - 1 <= n
      BY <1>4, <3>3, <3>4
    <3> QED BY <2>2, <3>2, <3>5
  <2> QED BY <2>1, <2>2
<1>8. Len(SubSeq(hs, 1, e)) = e
  <2>1. e \in 0..Len(hs)
    BY <1>1, <1>7
  <2> QED BY <2>1, PrefixOf
<1> QED BY <1>6, <1>7, <1>8

(* A document that is ready is found whole.                                    *)
LEMMA ReadyHit ==
    ASSUME NEW id \in Id, NEW d \in DOMAIN DocsOf(id), IsDocReady(id, d)
    PROVE  /\ LongestHit(DocHashes(id)[d], Len(DocsOf(id)[d])) = DocHashes(id)[d]
           /\ \A i \in 1..Len(DocHashes(id)[d]) : Cached(DocHashes(id)[d][i])
<1>1. PICK hs \in Seq(Key), n \in Nat : hs = DocHashes(id)[d] /\ n = Len(hs)
  BY DocHit
<1>2. PICK c \in Nat : c = Len(DocsOf(id)[d])
  BY DocsFacts
<1>3. n * BlockSize = c
  BY <1>1, <1>2, DocHit
<1>4. PICK l \in 0..n : /\ LongestHit(hs, c) = SubSeq(hs, 1, l) /\ Len(LongestHit(hs, c)) = l
                        /\ \A i \in 1..l : Cached(hs[i])
  <2>1. c \in Int /\ c >= 0
    OBVIOUS
  <2> QED BY <1>1, <2>1, HitPrefix
<1>5. l * BlockSize = c
  BY <1>1, <1>2, <1>4 DEF IsDocReady
<1>6. l = n
  <2>1. l \in Int /\ n \in Int
    OBVIOUS
  <2>2. n <= l <=> n * BlockSize <= l * BlockSize
    BY <2>1, Products
  <2> QED BY <1>2, <1>3, <1>5, <2>1, <2>2
<1>7. SubSeq(hs, 1, n) = hs
  BY <1>1
<1> QED BY <1>1, <1>2, <1>4, <1>6, <1>7

LEMMA AllReady ==
    ASSUME NEW id \in Id, MissingDocs(id) = {}
    PROVE  /\ ~DropFirst => DocsHit(id) = FlattenSeq(DocHashes(id))
           /\ \A i \in 1..Len(FlattenSeq(DocHashes(id))) : Cached(FlattenSeq(DocHashes(id))[i])
<1>1. \A d \in DOMAIN DocsOf(id) : IsDocReady(id, d)
  BY DEF MissingDocs
<1>2. \A d \in DOMAIN DocsOf(id) :
         /\ LongestHit(DocHashes(id)[d], Len(DocsOf(id)[d])) = DocHashes(id)[d]
         /\ \A i \in 1..Len(DocHashes(id)[d]) : Cached(DocHashes(id)[d][i])
  BY <1>1, ReadyHit
<1>3. ASSUME ~DropFirst PROVE DocsHit(id) = FlattenSeq(DocHashes(id))
  <2>1. PICK h : h = [d \in DOMAIN DocsOf(id) |->
                        IF DropFirst /\ LongestHit(DocHashes(id)[d], Len(DocsOf(id)[d])) # <<>>
                        THEN Tail(LongestHit(DocHashes(id)[d], Len(DocsOf(id)[d])))
                        ELSE LongestHit(DocHashes(id)[d], Len(DocsOf(id)[d]))]
    OBVIOUS
  <2>2. DocsHit(id) = FlattenSeq(h)
    BY <2>1 DEF DocsHit
  <2>3. h = [d \in DOMAIN DocsOf(id) |-> DocHashes(id)[d]]
    BY <1>2, <1>3, <2>1
  <2>4. h = DocHashes(id)
    BY <2>3 DEF DocHashes
  <2> QED BY <2>2, <2>4
<1>4. PICK h \in Seq(Seq(Key)) : h = DocHashes(id) /\ Len(h) = Len(DocsOf(id))
  BY DocHashesFacts
<1>5. ASSUME NEW i \in 1..Len(FlattenSeq(h)) PROVE Cached(FlattenSeq(h)[i])
  <2>1. PICK e \in 1..Len(h) : Covers(h, e, i)
    BY EndsAt
  <2>2. PICK a \in Nat, b \in Nat : a = Ends(h, e - 1) /\ b = Ends(h, e)
    <3>1. PICK n \in Nat : n = Len(h)
      OBVIOUS
    <3>2. e - 1 \in 0..n /\ e \in 0..n
      BY <2>1, <3>1
    <3> QED BY <3>1, <3>2, EndsFacts
  <2>3. b = a + Len(h[e]) /\ Len(h[e]) \in Nat
    BY <2>1, <2>2, EndsFacts
  <2>4. a < i /\ i <= b /\ i \in Nat
    <3>1. Len(FlattenSeq(h)) \in Nat
      BY EndsFacts
    <3> QED BY <2>1, <2>2, <3>1 DEF Covers
  <2>5. PICK k \in Nat : k = i - a /\ i = a + k /\ k >= 1
    BY <2>4
  <2>6. k \in 1..Len(h[e])
    BY <2>3, <2>4, <2>5
  <2>7. FlattenSeq(h)[Ends(h, e - 1) + k] = h[e][k]
    BY <2>1, <2>6, FlattenAt
  <2>8. FlattenSeq(h)[i] = h[e][k]
    BY <2>2, <2>5, <2>7
  <2>9. e \in DOMAIN DocsOf(id)
    <3>1. DocsOf(id) \in Seq(Seq(Int))
      BY DocsFacts
    <3>2. DOMAIN DocsOf(id) = 1..Len(DocsOf(id))
      BY <3>1
    <3> QED BY <1>4, <2>1, <3>2
  <2>10. Cached(h[e][k])
    BY <1>2, <1>4, <2>6, <2>9
  <2> QED BY <2>8, <2>10
<1> QED BY <1>3, <1>4, <1>5
-----------------------------------------------------------------------------
(* The cached blocks an attempt starts from are the first of the request's own  *)
(* hashes, and at least those of its documents.                                *)
LEMMA OwnHitStarts ==
    ASSUME Shape, CacheTypes, QueriesFillBlock, NEW id \in Id,
           NEW hs \in Seq(Key), hs = HashesOf(id), NEW n \in Nat, n = Len(OwnHit(id)),
           NEW N \in Nat, N = NumTokens(id)
    PROVE  /\ n <= Len(hs) /\ \A i \in 1..n : OwnHit(id)[i] = hs[i]
           /\ \A k \in Nat : k <= Len(hs) /\ k * BlockSize < N /\ (\A i \in 1..k : Cached(hs[i])) => k <= n
<1>0. out \in [Id -> Nat] /\ merged \in [Id -> BOOLEAN]
  BY DEF Shape
<1>1. ~IsDoc(id) => N >= 1
  <2> SUFFICES ASSUME ~IsDoc(id) PROVE N >= 1
    OBVIOUS
  <2>1. PICK m \in BOOLEAN : m = merged[id]
    BY <1>0
  <2>2. N = DocLen(id, m) + Len(PromptOf(id)) + out[id]
    BY <1>0, <2>1, Totals DEF Total
  <2>3. DocLen(id, m) \in Nat
    BY <1>0, TokensFacts
  <2>4. Len(PromptOf(id)) >= 1 /\ Len(PromptOf(id)) \in Nat /\ out[id] \in Nat
    BY <1>0, QueryLength
  <2> QED BY <2>2, <2>3, <2>4
<1>2. PICK max \in Nat : max = IF IsDoc(id) THEN N ELSE N - 1
  BY <1>1
<1>3. OwnHit(id) = LongestHit(hs, max)
  BY <1>2 DEF OwnHit
<1>4. PICK z \in Int : z = max /\ z >= 0
  OBVIOUS
<1>5. PICK l \in 0..Len(hs) : Len(LongestHit(hs, z)) = l /\ \A i \in 1..l : LongestHit(hs, z)[i] = hs[i]
  <2>1. PICK l \in 0..Len(hs) : Len(LongestHit(hs, z)) = l /\ l * BlockSize <= z
    BY <1>4, HitPrefix
  <2>2. \A i \in 1..l : LongestHit(hs, z)[i] = hs[i]
    <3>1. PICK k \in Nat : k = z
      BY <1>4
    <3>2. Len(LongestHit(hs, k)) = l
      BY <2>1, <3>1
    <3> QED BY <3>1, <3>2, HitMatches
  <2> QED BY <2>1, <2>2
<1>6. l = n
  BY <1>3, <1>4, <1>5
<1>7. n <= Len(hs) /\ \A i \in 1..n : OwnHit(id)[i] = hs[i]
  BY <1>3, <1>4, <1>5, <1>6
<1>8. ASSUME NEW k \in Nat, k <= Len(hs), k * BlockSize < N, \A i \in 1..k : Cached(hs[i]) PROVE k <= n
  <2>1. k * BlockSize <= max
    <3>1. PICK q \in Nat : q = k * BlockSize
      BY Multiple
    <3> QED BY <1>2, <1>8, <3>1
  <2> QED BY <1>3, <1>8, <2>1, HitReaches
<1> QED BY <1>7, <1>8

LEMMA AttemptHitStarts ==
    ASSUME Shape, CacheTypes, Places, Counts, Spelled, HitsWhole, QueriesFillBlock,
           NEW id \in Id, AtLookup(id),
           NEW hs \in Seq(Key), hs = AttemptHashes(id), NEW n \in Nat, n = Len(AttemptHit(id))
    PROVE  /\ n <= Len(hs) /\ \A i \in 1..n : AttemptHit(id)[i] = hs[i]
           /\ Behind(id) <= n * BlockSize
<1>0. /\ out \in [Id -> Nat] /\ merged \in [Id -> BOOLEAN] /\ hashes[id] \in Seq(Key)
      /\ NumTokens(id) \in Nat /\ HashesOf(id) \in Seq(Key) /\ OwnHit(id) \in Seq(Key)
  BY AttemptTypes, LookupTypes DEF Shape, CacheTypes
<1>1. MissingDocs(id) = {}
  BY DEF AtLookup
<1>2. PICK h \in Seq(Key) : h = FlattenSeq(DocHashes(id))
  BY DocsHitType
<1>3. PICK a \in Nat : a = Len(h) /\ a * BlockSize = Behind(id) /\ \A i \in 1..a : h[i] = KeyAt(id, i * BlockSize)
  BY <1>2, DocSpells DEF Spells
<1>4. DocsHit(id) = h /\ \A i \in 1..a : Cached(h[i])
  BY <1>1, <1>2, <1>3, AllReady DEF HitsWhole
<1>5. PICK c \in Seq(Key), l \in Nat, N \in Nat : c = HashesOf(id) /\ l = Len(OwnHit(id)) /\ N = NumTokens(id)
  BY <1>0
<1>6. l <= Len(c) /\ \A i \in 1..l : OwnHit(id)[i] = c[i]
  BY <1>5, OwnHitStarts
<1>7. CASE JustMerges(id)
  <2>1. AttemptHashes(id) = h \o c /\ AttemptHit(id) = h \o OwnHit(id)
    BY <1>2, <1>4, <1>5, <1>7 DEF AttemptHashes, AttemptHit
  <2>2. PICK o \in Seq(Key) : o = OwnHit(id) /\ Len(o) = l
    BY <1>0, <1>5
  <2>3. n = a + l
    <3>1. Len(h \o o) = Len(h) + Len(o)
      BY ConcatFacts
    <3> QED BY <1>3, <2>1, <2>2, <3>1
  <2>4. PICK k \in Nat : k = Len(c)
    BY <1>5
  <2>5. Len(hs) = a + k
    <3>1. Len(h \o c) = Len(h) + Len(c)
      BY <1>5, ConcatFacts
    <3> QED BY <1>3, <2>1, <2>4, <3>1
  <2>6. ASSUME NEW i \in 1..n PROVE AttemptHit(id)[i] = hs[i]
    <3>1. CASE i <= a
      <4>1. (h \o o)[i] = h[i] /\ (h \o c)[i] = h[i]
        BY <1>3, <1>5, <2>2, <3>1
      <4> QED BY <2>1, <2>2, <4>1
    <3>2. CASE ~(i <= a)
      <4>1. PICK j \in 1..l : i = a + j
        <5>1. i - a \in 1..l /\ i = a + (i - a)
          BY <2>3, <3>2
        <5> QED BY <5>1
      <4>2. (h \o o)[i] = o[j]
        BY <1>3, <2>2, <4>1
      <4>3. (h \o c)[i] = c[j]
        <5>1. j \in 1..k
          BY <1>6, <2>4
        <5> QED BY <1>3, <1>5, <2>4, <4>1, <5>1
      <4>4. o[j] = c[j]
        BY <1>6, <2>2
      <4> QED BY <2>1, <2>2, <4>2, <4>3, <4>4
    <3> QED BY <3>1, <3>2
  <2>7. Behind(id) <= n * BlockSize
    <3>1. a * BlockSize <= n * BlockSize
      BY <2>3, Products
    <3> QED BY <1>3, <3>1
  <2>8. n <= Len(hs)
    BY <1>6, <2>3, <2>4, <2>5
  <2> QED BY <2>6, <2>7, <2>8
<1>8. CASE ~JustMerges(id)
  <2>1. AttemptHashes(id) = c /\ AttemptHit(id) = OwnHit(id)
    BY <1>5, <1>8 DEF AttemptHashes, AttemptHit
  <2>2. n = l /\ hs = c
    BY <1>5, <2>1
  <2>3. Behind(id) <= n * BlockSize
    <3>1. CASE ~HasDocs(id)
      <4>1. Behind(id) = 0 /\ n * BlockSize \in Nat
        BY <3>1, BehindFacts, Multiple
      <4> QED BY <4>1
    <3>2. CASE HasDocs(id)
      <4>1. PICK m \in BOOLEAN : m = merged[id] /\ m
        BY <1>0, <1>8, <3>2 DEF JustMerges
      <4>2. hs # <<>>
        BY <2>1, <3>2, AttemptSpells
      <4>3. Spells(id, c) /\ Len(c) * BlockSize > Behind(id)
        BY <2>2, <4>2, AttemptSpells
      <4>4. PICK k \in Nat : k = Len(c)
        BY <1>5
      <4>5. a <= k
        <5>1. k * BlockSize > a * BlockSize
          BY <1>3, <4>3, <4>4
        <5>2. k <= a <=> k * BlockSize <= a * BlockSize
          BY Products
        <5>3. k * BlockSize \in Nat /\ a * BlockSize \in Nat
          BY Multiple
        <5> QED BY <5>1, <5>2, <5>3
      <4>6. \A i \in 1..a : c[i] = KeyAt(id, i * BlockSize)
        BY <4>3, <4>4, <4>5 DEF Spells
      <4>7. \A i \in 1..a : Cached(c[i])
        <5> TAKE i \in 1..a
        <5>1. c[i] = h[i] /\ Cached(h[i])
          BY <1>3, <1>4, <4>6
        <5> QED BY <5>1
      <4>8. a * BlockSize < N
        <5>1. N = DocLen(id, m) + Len(PromptOf(id)) + out[id]
          BY <1>0, <1>5, <4>1, Totals DEF Total
        <5>2. DocLen(id, m) = Behind(id)
          <6>1. m = HasDocs(id)
            BY <3>2, <4>1
          <6> QED BY <6>1, BehindFacts
        <5>3. Len(PromptOf(id)) >= BlockSize /\ Len(PromptOf(id)) \in Nat /\ out[id] \in Nat
          BY <1>0, <3>2, QueryLength
        <5>b. BlockSize >= 1 /\ BlockSize \in Nat
          BY SchedulerAssumption
        <5>4. Behind(id) \in Nat /\ BlockSize >= 1 /\ BlockSize \in Nat
          BY <5>b, BehindFacts
        <5> QED BY <1>3, <5>1, <5>2, <5>3, <5>4
      <4>9. a <= l
        BY <1>5, <4>4, <4>5, <4>7, <4>8, OwnHitStarts
      <4>10. a * BlockSize <= n * BlockSize
        BY <2>2, <4>9, Products
      <4> QED BY <1>3, <4>10
    <3> QED BY <3>1, <3>2
  <2> QED BY <1>6, <2>1, <2>2, <2>3
<1> QED BY <1>7, <1>8

-----------------------------------------------------------------------------
(* How far the i-th block is meant to be filled when n tokens are computed.     *)
Reach(i, n) == IF i * BlockSize <= n THEN i * BlockSize ELSE n

LEMMA ReachFacts ==
    ASSUME NEW i \in Nat, i >= 1, NEW n \in Nat, n >= 1
    PROVE  /\ Min({i * BlockSize, n}) = Reach(i, n)
           /\ Reach(i, n) \in Nat /\ Reach(i, n) >= 1 /\ Reach(i, n) <= n
<1>1. PICK q \in Nat : q = i * BlockSize /\ q >= 1
  BY Multiple
<1>2. Min({q, n}) = IF q <= n THEN q ELSE n
  BY MinOfTwo
<1> QED BY <1>1, <1>2 DEF Reach

LEMMA FullReach ==
    ASSUME NEW n \in Nat, NEW u \in Nat, u = n \div BlockSize, NEW i \in Nat, i <= u
    PROVE  Reach(i, n) = i * BlockSize /\ \A k \in Nat : k >= n => Reach(i, k) = i * BlockSize
<1>1. u * BlockSize <= n
  BY Division
<1>2. i * BlockSize <= u * BlockSize
  BY Products
<1>3. PICK p \in Nat, q \in Nat : p = i * BlockSize /\ q = u * BlockSize
  BY Multiple
<1> QED BY <1>1, <1>2, <1>3 DEF Reach

(* What a request gets computed is what its positions should hold, if the       *)
(* blocks in front of them do and the documents are behind it.                 *)
FillsTrue(id, m, h, s, t, from, upto, f, u) ==
    /\ m = HasDocs(id)
    /\ f = from \div BlockSize /\ u = upto \div BlockSize
    /\ from <= upto /\ upto <= Total(id, m, out[id]) /\ Behind(id) <= from
    /\ Spells(id, h) /\ u <= Len(h) /\ Len(t) = CeilDiv(upto, BlockSize)
    /\ Effect(id, m, h, s, t, from, upto, f, u)
    /\ \A j \in 1..CeilDiv(from, BlockSize) : content[t[j]] = KeyAt(id, Reach(j, from))
    /\ \A i \in 1..Len(t) : u < i /\ i <= Len(s) => blockHash[s[i]] = NoKey

LEMMA WroteTrue ==
    ASSUME out \in [Id -> Nat], CacheSound, NEW id \in Id, NEW m \in BOOLEAN,
           NEW h, NEW s, NEW t \in Seq(Block), NEW from \in Nat, NEW upto \in Nat,
           NEW f \in Nat, NEW u \in Nat, FillsTrue(id, m, h, s, t, from, upto, f, u)
    PROVE  /\ CacheSound'
           /\ \A i \in 1..Len(t) : content'[t[i]] = KeyAt(id, Reach(i, upto))
<1>a. /\ m = HasDocs(id)
      /\ f = from \div BlockSize /\ u = upto \div BlockSize
      /\ from <= upto /\ upto <= Total(id, m, out[id]) /\ Behind(id) <= from
      /\ Spells(id, h) /\ u <= Len(h) /\ Len(t) = CeilDiv(upto, BlockSize)
      /\ Effect(id, m, h, s, t, from, upto, f, u)
      /\ \A j \in 1..CeilDiv(from, BlockSize) : content[t[j]] = KeyAt(id, Reach(j, from))
      /\ \A i \in 1..Len(t) : u < i /\ i <= Len(s) => blockHash[s[i]] = NoKey
  BY DEF FillsTrue
<1>1. PICK N \in Nat : N = Total(id, m, out[id])
  BY <1>a, TotalTokens
<1>2. PICK c \in Nat : c = Len(t) /\ c = CeilDiv(upto, BlockSize)
  BY <1>a
<1>3. PICK g \in Nat : g = CeilDiv(from, BlockSize) /\ f <= g
  <2>1. CeilDiv(from, BlockSize) \in Nat /\ CeilDiv(from, BlockSize) \in {f, f + 1}
    BY <1>a, Ceil
  <2> QED BY <1>a, <2>1
<1>4. \A a \in Nat, k \in Nat : k = CeilDiv(a, BlockSize) /\ k >= 1 => a >= 1
  <2> SUFFICES ASSUME NEW a \in Nat, a = 0 PROVE CeilDiv(a, BlockSize) = 0
    OBVIOUS
  <2> QED BY <1>a, CeilGrows
<1>5. ASSUME NEW i \in 1..c, f < i PROVE content'[t[i]] = KeyAt(id, Reach(i, upto))
  <2>1. content'[t[i]] = ComputedState(id, m, t, from, upto, i)
    BY <1>a, <1>2, <1>5 DEF Effect
  <2>2. ASSUME NEW j \in 1..g PROVE content[t[j]] = TrueKey(id, m, Min({j * BlockSize, from}))
    <3>1. from >= 1 /\ j \in Nat /\ j >= 1
      BY <1>a, <1>3, <1>4
    <3>2. /\ Min({j * BlockSize, from}) = Reach(j, from)
          /\ Reach(j, from) \in Nat /\ Reach(j, from) >= 1 /\ Reach(j, from) <= from
      BY <1>a, <3>1, ReachFacts
    <3>3. PICK p \in Nat : p = Reach(j, from) /\ p >= 1 /\ p <= N
      BY <1>a, <1>1, <3>2
    <3>4. TrueKey(id, m, p) = KeyAt(id, p)
      BY <1>a, <1>1, <3>3, TrueKeyIs
    <3> QED BY <1>a, <1>3, <3>2, <3>3, <3>4
  <2>3. from >= DocLen(id, m)
    BY <1>a, BehindFacts
  <2>4. upto >= 1 /\ i \in Nat /\ i >= 1
    BY <1>a, <1>2, <1>4
  <2>5. /\ Min({i * BlockSize, upto}) = Reach(i, upto)
        /\ Reach(i, upto) \in Nat /\ Reach(i, upto) >= 1 /\ Reach(i, upto) <= upto
    BY <1>a, <2>4, ReachFacts
  <2>6. PICK p \in Nat : p = Reach(i, upto) /\ p >= 1 /\ p <= N
    BY <1>a, <1>1, <2>5
  <2>7. TrueKey(id, m, p) = KeyAt(id, p)
    BY <1>a, <1>1, <2>6, TrueKeyIs
  <2>8. ComputedState(id, m, t, from, upto, i) = TrueKey(id, m, Min({i * BlockSize, upto}))
    BY <1>a, <1>3, <2>2, <2>3 DEF ComputedState
  <2> QED BY <1>a, <2>1, <2>5, <2>6, <2>7, <2>8
<1>6. ASSUME NEW i \in 1..c, i <= f PROVE content'[t[i]] = KeyAt(id, Reach(i, upto))
  <2>1. Same(t[i])
    <3>1. t[i] \in Block
      BY <1>a, <1>2
    <3>2. Same(t[i]) \/ \E j \in 1..Len(t) : f < j /\ t[j] = t[i]
      BY <1>a, <3>1 DEF Effect
    <3>3. ASSUME NEW j \in 1..Len(t), f < j, t[j] = t[i] PROVE FALSE
      <4>1. i \in 1..Len(t)
        BY <1>a, <1>2
      <4>2. i = j
        BY <1>a, <3>3, <4>1 DEF Effect
      <4> QED BY <1>a, <1>6, <3>3, <4>2
    <3> QED BY <1>a, <3>2, <3>3
  <2>2. i \in 1..g /\ i \in Nat
    BY <1>a, <1>3, <1>6
  <2>3. content[t[i]] = KeyAt(id, Reach(i, from))
    BY <1>a, <1>3, <2>2
  <2>4. Reach(i, from) = i * BlockSize /\ Reach(i, upto) = i * BlockSize
    BY <1>a, <1>6, <2>2, FullReach
  <2> QED BY <1>a, <2>1, <2>3, <2>4 DEF Same
<1>7. \A i \in 1..c : content'[t[i]] = KeyAt(id, Reach(i, upto))
  BY <1>a, <1>5, <1>6
<1>8. ASSUME NEW b \in Block, blockHash'[b] # NoKey PROVE content'[b] = blockHash'[b]
  <2>1. CASE Same(b)
    BY <1>a, <1>8, <2>1 DEF Same, CacheSound
  <2>2. CASE ~Same(b)
    <3>1. PICK i \in 1..c : f < i /\ t[i] = b
      BY <1>a, <1>2, <2>2 DEF Effect
    <3>2. CASE i <= u
      <4>1. blockHash'[b] = h[i]
        BY <1>a, <1>2, <3>1, <3>2 DEF Effect
      <4>2. i \in 1..Len(h) /\ i \in Nat
        <5>1. PICK n \in Nat : n = Len(h)
          BY <1>a DEF Spells
        <5> QED BY <1>a, <3>2, <5>1
      <4>3. h[i] = KeyAt(id, i * BlockSize)
        BY <1>a, <4>2 DEF Spells
      <4>4. Reach(i, upto) = i * BlockSize
        BY <1>a, <3>2, <4>2, FullReach
      <4> QED BY <1>a, <1>7, <3>1, <4>1, <4>3, <4>4
    <3>3. CASE ~(i <= u)
      <4>1. u < i
        BY <1>a, <3>3
      <4>2. blockHash'[t[i]] = IF i <= Len(s) THEN blockHash[s[i]] ELSE NoKey
        BY <1>a, <1>2, <3>1, <4>1 DEF Effect
      <4>3. blockHash'[t[i]] = NoKey
        BY <1>a, <1>2, <4>1, <4>2
      <4> QED BY <1>a, <1>8, <3>1, <4>3
    <3> QED BY <1>a, <3>2, <3>3
  <2> QED BY <1>a, <2>1, <2>2
<1>9. CacheSound'
  BY <1>a, <1>8 DEF CacheSound
<1> QED BY <1>a, <1>2, <1>7, <1>9

Filled(id, m, h, s, t, from, upto, f, u) ==
    /\ out \in [Id -> Nat] /\ CacheSound
    /\ id \in Id /\ m \in BOOLEAN /\ t \in Seq(Block) /\ from \in Nat /\ upto \in Nat
    /\ f \in Nat /\ u \in Nat
    /\ FillsTrue(id, m, h, s, t, from, upto, f, u)

LEMMA FilledTrue ==
    ASSUME NEW id, NEW m, NEW h, NEW s, NEW t, NEW from, NEW upto, NEW f, NEW u,
           Filled(id, m, h, s, t, from, upto, f, u)
    PROVE  /\ CacheSound'
           /\ \A i \in 1..Len(t) : content'[t[i]] = KeyAt(id, Reach(i, upto))
<1>1. /\ out \in [Id -> Nat] /\ CacheSound
      /\ id \in Id /\ m \in BOOLEAN /\ t \in Seq(Block) /\ from \in Nat /\ upto \in Nat
      /\ f \in Nat /\ u \in Nat
      /\ FillsTrue(id, m, h, s, t, from, upto, f, u)
  BY DEF Filled
<1> QED BY <1>1, WroteTrue, SMTT(30)
-----------------------------------------------------------------------------
(* What is registered is what it is registered as, and the blocks of a request  *)
(* hold what its positions should, up to where it is computed.                 *)
Truthful ==
    /\ CacheSound
    /\ \A id \in Id : \A i \in 1..Len(table[id]) :
          content[table[id][i]] = KeyAt(id, Reach(i, DoneUpto(id)))
    /\ \A id \in Range(running) : (merged[id] <=> HasDocs(id)) /\ Behind(id) <= computed[id]

LEMMA ExtendKeeps ==
    ASSUME out \in [Id -> Nat], NEW id \in Id, NEW m \in BOOLEAN, m = HasDocs(id),
           NEW hs \in Seq(Key), Spells(id, hs),
           hs = <<>> => ~m, hs # <<>> => Len(hs) * BlockSize > Behind(id),
           NEW full \in Nat, full * BlockSize <= Total(id, m, out[id]),
           NEW h, h = ExtendHashes(hs, Tokens(id, m), full)
    PROVE  /\ Spells(id, h) /\ h \in Seq(Key) /\ full <= Len(h)
           /\ hs # <<>> => h # <<>>
           /\ h # <<>> => Len(h) * BlockSize > Behind(id)
<1>1. Spells(id, h)
  BY ExtendSpells
<1>2. h \in Seq(Key)
  BY <1>1 DEF Spells
<1>3. PICK t \in Seq(Int) : t = Tokens(id, m) /\ Len(t) = Total(id, m, out[id])
  <2>1. PICK n \in Nat : n = DocLen(id, m)
    BY BehindFacts
  <2> QED BY <2>1, TokensAt
<1>4. full <= Len(h) /\ (full <= Len(hs) => h = hs)
  BY <1>3, ExtendFacts
<1>5. PICK a \in Nat, b \in Nat : a = Len(hs) /\ b = Len(h)
  BY <1>2
<1>6. a <= b
  BY <1>4, <1>5
<1>7. hs # <<>> => h # <<>>
  BY <1>2, <1>5, <1>6
<1>8. ASSUME h # <<>> PROVE b * BlockSize > Behind(id)
  <2>1. CASE hs = <<>>
    <3>1. Behind(id) = 0
      BY <2>1, BehindFacts
    <3>2. b >= 1
      BY <1>2, <1>5, <1>8
    <3>3. b * BlockSize \in Nat /\ b * BlockSize >= 1
      BY <3>2, Multiple
    <3> QED BY <3>1, <3>3
  <2>2. CASE hs # <<>>
    <3>1. a * BlockSize > Behind(id)
      BY <1>5, <2>2
    <3>2. a * BlockSize <= b * BlockSize
      BY <1>6, Products
    <3>3. a * BlockSize \in Nat /\ b * BlockSize \in Nat /\ Behind(id) \in Nat
      BY Multiple, BehindFacts
    <3> QED BY <3>1, <3>2, <3>3
  <2> QED BY <2>1, <2>2
<1> QED BY <1>1, <1>2, <1>4, <1>5, <1>7, <1>8

LEMMA FullFits ==
    ASSUME NEW upto \in Nat, NEW u \in Nat, u = upto \div BlockSize, NEW n \in Nat, upto <= n
    PROVE  u * BlockSize <= n
<1>1. u * BlockSize <= upto
  BY Division
<1>2. PICK q \in Nat : q = u * BlockSize
  BY Multiple
<1> QED BY <1>1, <1>2

LEMMA TruthRun ==
    ASSUME Shape, Shape', Places, Counts, Writes, Spelled, Truthful, RunningSchedule
    PROVE  Spelled' /\ Truthful'
<1>1. PICK id \in Id, from \in Nat, upto \in Nat : Ran(id, from, upto)
  BY RunStep
<1>2. PICK m \in BOOLEAN : m = merged[id]
  BY DEF Shape
<1>3. PICK hs \in Seq(Key), t \in Seq(Block), f \in Nat, u \in Nat :
                 /\ hs = hashes[id] /\ t = table'[id] /\ f = from \div BlockSize /\ u = upto \div BlockSize
                 /\ Effect(id, merged[id], ExtendHashes(hs, Tokens(id, merged[id]), u), table[id], t,
                           from, upto, f, u)
                 /\ f <= u /\ DoneUpto(id) = from /\ DoneUpto(id)' = upto
                 /\ hashes' = [hashes EXCEPT ![id] = ExtendHashes(hs, Tokens(id, merged[id]), u)]
                 /\ \A jd \in Id : jd # id => table'[jd] = table[jd] /\ DoneUpto(jd)' = DoneUpto(jd)
  BY <1>1, WritesRun
<1>4. /\ id \in Range(running) /\ from = computed[id] /\ from <= upto
      /\ upto <= Total(id, merged[id], out[id])
      /\ UNCHANGED <<running, computed, out, merged, status>>
  BY <1>1 DEF Ran, queueVars, reqVars
<1>5. m = HasDocs(id) /\ Behind(id) <= from
  BY <1>2, <1>4 DEF Truthful, HasDocs
<1>6. /\ out \in [Id -> Nat] /\ table \in [Id -> Seq(Block)] /\ hashes \in [Id -> Seq(Key)]
      /\ Range(running) \subseteq Id
  BY RangesInId DEF Shape, FreeExact, Writes, CacheTypes
<1>7. hs = <<>> => ~m
  <2>1. status[id] = "RUNNING"
    BY <1>4 DEF Places
  <2> QED BY <1>2, <1>3, <1>5, <2>1 DEF Spelled
<1>8. Spells(id, hs) /\ (hs # <<>> => Len(hs) * BlockSize > Behind(id))
  BY <1>3 DEF Spelled
<1>9. PICK N \in Nat : N = Total(id, m, out[id]) /\ upto <= N
  BY <1>2, <1>4, <1>6, TotalTokens
<1>10. u * BlockSize <= N
  BY <1>3, <1>9, FullFits
<1>11. PICK h : h = ExtendHashes(hs, Tokens(id, m), u)
  OBVIOUS
<1>12. /\ Spells(id, h) /\ h \in Seq(Key) /\ u <= Len(h) /\ (hs # <<>> => h # <<>>)
       /\ h # <<>> => Len(h) * BlockSize > Behind(id)
  BY <1>5, <1>6, <1>7, <1>8, <1>9, <1>10, <1>11, ExtendKeeps
<1>13. Effect(id, m, h, table[id], t, from, upto, f, u)
  BY <1>2, <1>3, <1>11
<1>14. Len(t) = CeilDiv(upto, BlockSize) /\ Len(table[id]) = CeilDiv(from, BlockSize)
  <2>1. Counts'
    BY CountsRun
  <2>2. Len(t) = CeilDiv(upto, BlockSize)
    BY <1>3, <1>4, <2>1 DEF Counts, Fills
  <2> QED BY <1>3, <1>4, <2>2 DEF Counts, Fills
<1>15. \A j \in 1..CeilDiv(from, BlockSize) : content[t[j]] = KeyAt(id, Reach(j, from))
  <2> TAKE j \in 1..CeilDiv(from, BlockSize)
  <2>1. j \in 1..Len(table[id])
    BY <1>14
  <2>2. t[j] = table[id][j]
    BY <1>13, <2>1 DEF Effect
  <2>3. content[table[id][j]] = KeyAt(id, Reach(j, from))
    BY <1>3, <2>1 DEF Truthful
  <2> QED BY <2>2, <2>3
<1>16. ASSUME NEW i \in 1..Len(t), u < i, i <= Len(table[id]) PROVE blockHash[table[id][i]] = NoKey
  <2>1. i \in 1..Len(table[id])
    <3>1. PICK n \in Nat : n = Len(table[id])
      BY <1>6
    <3> QED BY <1>16, <3>1
  <2>2. DoneUpto(id) \div BlockSize < i
    BY <1>3, <1>16
  <2> QED BY <2>1, <2>2 DEF Writes, Tails
<1>17. CacheSound' /\ \A i \in 1..Len(t) : content'[t[i]] = KeyAt(id, Reach(i, upto))
  <2>1. CacheSound /\ out \in [Id -> Nat] /\ from <= upto
    BY <1>4, <1>6 DEF Truthful
  <2>2. upto <= Total(id, m, out[id])
    BY <1>9
  <2>3. f = from \div BlockSize /\ u = upto \div BlockSize /\ Len(t) = CeilDiv(upto, BlockSize)
    BY <1>3, <1>14
  <2>4. PICK s \in Seq(Block) : s = table[id]
    BY <1>6
  <2>5. Effect(id, m, h, s, t, from, upto, f, u)
    BY <1>13, <2>4
  <2>6. \A i \in 1..Len(t) : u < i /\ i <= Len(s) => blockHash[s[i]] = NoKey
    BY <1>16, <2>4
  <2>7. Spells(id, h) /\ u <= Len(h) /\ Behind(id) <= from /\ m = HasDocs(id)
    BY <1>5, <1>12
  <2>8. FillsTrue(id, m, h, s, t, from, upto, f, u)
    BY <1>15, <2>1, <2>2, <2>3, <2>5, <2>6, <2>7 DEF FillsTrue
  <2> QED BY <2>1, <2>8, WroteTrue
<1>18. \A jd \in Id \ {id} : \A j \in 1..Len(table[jd]) : Same(table[jd][j])
  BY <1>6, <1>13, EffectLeaves
<1>19. ASSUME NEW jd \in Id, NEW i \in 1..Len(table'[jd])
       PROVE  content'[table'[jd][i]] = KeyAt(jd, Reach(i, DoneUpto(jd)'))
  <2>1. CASE jd = id
    BY <1>3, <1>17, <1>19, <2>1
  <2>2. CASE jd # id
    <3>1. table'[jd] = table[jd] /\ DoneUpto(jd)' = DoneUpto(jd)
      BY <1>3, <2>2
    <3>2. Same(table[jd][i])
      BY <1>18, <1>19, <2>2, <3>1
    <3>3. content[table[jd][i]] = KeyAt(jd, Reach(i, DoneUpto(jd)))
      BY <1>19, <3>1 DEF Truthful
    <3> QED BY <3>1, <3>2, <3>3 DEF Same
  <2> QED BY <2>1, <2>2
<1>20. Truthful'
  BY <1>4, <1>17, <1>19 DEF Truthful, HasDocs
<1>21. ASSUME NEW jd \in Id
       PROVE  /\ Spells(jd, hashes'[jd])
              /\ hashes'[jd] # <<>> => Len(hashes'[jd]) * BlockSize > Behind(jd) /\ (HasDocs(jd) => merged'[jd])
              /\ HasDocs(jd) /\ merged'[jd] => hashes'[jd] # <<>> \/ status'[jd] = "FINISHED"
  <2>1. CASE jd = id
    <3>1. hashes'[id] = h
      BY <1>2, <1>3, <1>6, <1>11
    <3>2. hs # <<>> => (HasDocs(id) => m)
      BY <1>5
    <3> QED BY <1>2, <1>4, <1>5, <1>7, <1>12, <2>1, <3>1
  <2>2. CASE jd # id
    <3>1. hashes'[jd] = hashes[jd]
      BY <1>3, <1>6, <2>2
    <3> QED BY <1>4, <3>1 DEF Spelled
  <2> QED BY <2>1, <2>2
<1>22. Spelled'
  BY <1>21 DEF Spelled, Spells, HasDocs
<1> QED BY <1>20, <1>22
-----------------------------------------------------------------------------
LEMMA TruthAttempt ==
    ASSUME Shape, Shape', Places, Counts, Writes, Spelled, Truthful, HitsWhole, QueriesFillBlock,
           AttemptSucceeds
    PROVE  Spelled' /\ Truthful'
<1>1. PICK id \in Id, hits \in Seq(Block), from \in Nat, upto \in Nat : Tried(id, hits, from, upto)
  BY AttemptStep
<1>2. PICK hs \in Seq(Key), t \in Seq(Block), f \in Nat, u \in Nat, m \in BOOLEAN :
                 /\ hs = AttemptHashes(id) /\ t = table'[id] /\ f = from \div BlockSize /\ u = upto \div BlockSize
                 /\ f = Len(hits) /\ m = HasDocs(id)
                 /\ Effect(id, m, ExtendHashes(hs, Tokens(id, m), u), hits, t, from, upto, f, u)
                 /\ f <= u /\ DoneUpto(id)' = upto
                 /\ hashes' = [hashes EXCEPT ![id] = ExtendHashes(hs, Tokens(id, m), u)]
                 /\ \A i \in 1..f : blockHash[hits[i]] = AttemptHit(id)[i]
                 /\ \A jd \in Id : jd # id => table'[jd] = table[jd] /\ DoneUpto(jd)' = DoneUpto(jd)
  BY <1>1, WritesAttempt
<1>3. /\ AtLookup(id) /\ from = f * BlockSize /\ f = Len(AttemptHit(id)) /\ from <= upto
      /\ upto <= Total(id, HasDocs(id), out[id]) /\ id \notin Range(running)
      /\ merged' = [merged EXCEPT ![id] = HasDocs(id)] /\ status' = [status EXCEPT ![id] = "RUNNING"]
      /\ computed' = [computed EXCEPT ![id] = from] /\ running' = Append(running, id) /\ out' = out
  BY <1>1, <1>2 DEF Tried, Attempts
<1>4. /\ out \in [Id -> Nat] /\ table \in [Id -> Seq(Block)] /\ hashes \in [Id -> Seq(Key)]
      /\ merged \in [Id -> BOOLEAN] /\ status \in [Id -> Status] /\ computed \in [Id -> Int]
      /\ Range(running) \subseteq Id /\ running \in Seq(Id) /\ CacheTypes
  BY RangesInId DEF Shape, FreeExact, Writes, CacheTypes
<1>a. Range(running') = Range(running) \cup {id}
  <2>1. PICK w \in Seq(Id) : w = <<id>> /\ Range(w) = {id}
    BY Singleton
  <2>2. PICK s \in Seq(Id) : s = running
    BY <1>4
  <2>3. s \o w = Append(s, id)
    BY <2>1
  <2>4. Range(s \o w) = Range(s) \cup Range(w)
    BY ConcatFacts
  <2> QED BY <1>3, <2>1, <2>2, <2>3, <2>4
<1>5. PICK h : h = ExtendHashes(hs, Tokens(id, m), u)
  OBVIOUS
<1>6. /\ Spells(id, hs) /\ (hs = <<>> => ~m)
      /\ hs # <<>> => Len(hs) * BlockSize > Behind(id)
  BY <1>2, <1>3, <1>4, AttemptSpells
<1>7. PICK N \in Nat : N = Total(id, m, out[id]) /\ upto <= N
  BY <1>2, <1>3, <1>4, TotalTokens
<1>8. u * BlockSize <= N
  BY <1>2, <1>7, FullFits
<1>9. /\ Spells(id, h) /\ h \in Seq(Key) /\ u <= Len(h) /\ (hs # <<>> => h # <<>>)
      /\ h # <<>> => Len(h) * BlockSize > Behind(id)
  BY <1>2, <1>4, <1>5, <1>6, <1>7, <1>8, ExtendKeeps
<1>10. Effect(id, m, h, hits, t, from, upto, f, u)
  BY <1>2, <1>5
<1>11. f <= Len(hs) /\ (\A i \in 1..f : AttemptHit(id)[i] = hs[i]) /\ Behind(id) <= from
  BY <1>2, <1>3, <1>4, AttemptHitStarts, SMTT(30)
<1>12. Len(t) = CeilDiv(upto, BlockSize) /\ CeilDiv(from, BlockSize) = f
  <2>1. Counts'
    BY CountsAttempt
  <2>2. id \in Range(running')
    BY <1>a
  <2>3. Len(t) = CeilDiv(upto, BlockSize)
    BY <1>2, <2>1, <2>2 DEF Counts, Fills
  <2> QED BY <1>3, <2>3, CeilExact
<1>13. \A j \in 1..CeilDiv(from, BlockSize) : content[t[j]] = KeyAt(id, Reach(j, from))
  <2> SUFFICES ASSUME NEW j \in 1..f PROVE content[t[j]] = KeyAt(id, Reach(j, from))
    BY <1>12
  <2>1. t[j] = hits[j] /\ hits[j] \in Block
    BY <1>2, <1>10 DEF Effect
  <2>2. blockHash[hits[j]] = hs[j]
    BY <1>2, <1>11
  <2>3. hs[j] = KeyAt(id, j * BlockSize) /\ hs[j] \in Key
    <3>1. PICK n \in Nat : n = Len(hs)
      BY <1>2
    <3>2. j \in 1..Len(hs)
      BY <1>11, <3>1
    <3> QED BY <1>6, <3>2 DEF Spells
  <2>4. content[hits[j]] = hs[j]
    <3>1. hs[j] # NoKey
      BY <2>3, SchedulerAssumption
    <3> QED BY <2>1, <2>2, <3>1 DEF Truthful, CacheSound
  <2>5. Reach(j, from) = j * BlockSize
    <3>1. j \in Nat /\ j <= f
      OBVIOUS
    <3> QED BY <1>2, <3>1, FullReach
  <2> QED BY <2>1, <2>3, <2>4, <2>5
<1>14. CacheSound' /\ \A i \in 1..Len(t) : content'[t[i]] = KeyAt(id, Reach(i, upto))
  <2>1. CacheSound /\ out \in [Id -> Nat]
    BY <1>4 DEF Truthful
  <2>2. \A i \in 1..Len(t) : u < i /\ i <= Len(hits) => blockHash[hits[i]] = NoKey
    BY <1>2
  <2>3. upto <= Total(id, m, out[id])
    BY <1>7
  <2>4. f = from \div BlockSize /\ u = upto \div BlockSize /\ m = HasDocs(id)
    BY <1>2
  <2>5. FillsTrue(id, m, h, hits, t, from, upto, f, u)
    BY <1>3, <1>9, <1>10, <1>11, <1>12, <1>13, <2>2, <2>3, <2>4 DEF FillsTrue
  <2>6. Filled(id, m, h, hits, t, from, upto, f, u)
    BY <1>2, <1>9, <2>1, <2>5 DEF Filled
  <2> QED BY <2>6, FilledTrue
<1>15. \A jd \in Id \ {id} : \A j \in 1..Len(table[jd]) : Same(table[jd][j])
  BY <1>4, <1>10, EffectLeaves
<1>16. ASSUME NEW jd \in Id, NEW i \in 1..Len(table'[jd])
       PROVE  content'[table'[jd][i]] = KeyAt(jd, Reach(i, DoneUpto(jd)'))
  <2>1. CASE jd = id
    BY <1>2, <1>14, <1>16, <2>1
  <2>2. CASE jd # id
    <3>1. table'[jd] = table[jd] /\ DoneUpto(jd)' = DoneUpto(jd)
      BY <1>2, <2>2
    <3>2. Same(table[jd][i])
      BY <1>15, <1>16, <2>2, <3>1
    <3>3. content[table[jd][i]] = KeyAt(jd, Reach(i, DoneUpto(jd)))
      BY <1>16, <3>1 DEF Truthful
    <3> QED BY <3>1, <3>2, <3>3 DEF Same
  <2> QED BY <2>1, <2>2
<1>17. ASSUME NEW jd \in Range(running') PROVE (merged'[jd] <=> HasDocs(jd)) /\ Behind(jd) <= computed'[jd]
  <2>1. Range(running') = Range(running) \cup {id}
    BY <1>a
  <2>2. CASE jd = id
    <3>1. merged'[id] = HasDocs(id) /\ computed'[id] = from
      BY <1>3, <1>4
    <3> QED BY <1>11, <2>2, <3>1
  <2>3. CASE jd \in Range(running) /\ jd # id
    <3>1. merged'[jd] = merged[jd] /\ computed'[jd] = computed[jd]
      BY <1>3, <1>4, <2>3
    <3> QED BY <2>3, <3>1 DEF Truthful
  <2> QED BY <1>17, <2>1, <2>2, <2>3
<1>18. Truthful'
  BY <1>14, <1>16, <1>17 DEF Truthful, HasDocs
<1>19. ASSUME NEW jd \in Id
       PROVE  /\ Spells(jd, hashes'[jd])
              /\ hashes'[jd] # <<>> => Len(hashes'[jd]) * BlockSize > Behind(jd) /\ (HasDocs(jd) => merged'[jd])
              /\ HasDocs(jd) /\ merged'[jd] => hashes'[jd] # <<>> \/ status'[jd] = "FINISHED"
  <2>1. CASE jd = id
    <3>1. hashes'[id] = h /\ merged'[id] = HasDocs(id)
      BY <1>2, <1>3, <1>4, <1>5
    <3>2. HasDocs(id) => h # <<>>
      BY <1>2, <1>6, <1>9
    <3> QED BY <1>9, <2>1, <3>1, <3>2
  <2>2. CASE jd # id
    <3>1. hashes'[jd] = hashes[jd] /\ merged'[jd] = merged[jd] /\ status'[jd] = status[jd]
      BY <1>2, <1>3, <1>4, <2>2
    <3> QED BY <3>1 DEF Spelled
  <2> QED BY <2>1, <2>2
<1>20. Spelled'
  BY <1>19 DEF Spelled, Spells, HasDocs
<1> QED BY <1>18, <1>20
-----------------------------------------------------------------------------
LEMMA LastIsRunning ==
    ASSUME Shape, Places, running # <<>>
    PROVE  Last(running) \in Range(running) /\ status[Last(running)] = "RUNNING"
<1>1. running \in Seq(Id)
  BY RangesInId
<1>2. PICK n \in Nat : n = Len(running) /\ n >= 1
  BY <1>1
<1>3. Last(running) = running[n] /\ n \in DOMAIN running
  BY <1>1, <1>2 DEF Last
<1>4. Last(running) \in Range(running)
  BY <1>3 DEF Range
<1>5. Last(running) \in Id
  BY <1>4, RangesInId
<1> QED BY <1>4, <1>5 DEF Places

LEMMA FinishedStays ==
    ASSUME Shape, Places, [Next]_vars, ~AttemptSucceeds,
           NEW id \in Id, status[id] = "FINISHED", HasDocs(id)
    PROVE  status'[id] = "FINISHED"
<1>0. status \in [Id -> Status]
  BY DEF Shape
<1>1. ~IsDoc(id)
  BY DEF HasDocs, DocsOf
<1>2. waiting # <<>> => Head(waiting) # id
  BY WaitingHead DEF Places, Waits
<1>3. ASSUME NEW r \in Request, AddRequest(r) PROVE status'[id] = "FINISHED"
  <2>1. PICK u, v : status[u] = "ABSENT" /\ status' = [status EXCEPT ![u] = v]
    BY <1>3 DEF AddRequest
  <2> QED BY <1>0, <2>1
<1>4. CASE (\E r \in Request : Abort(r)) \/ FinishRequest
  <2>1. PICK u : status' = [status EXCEPT ![u] = "FINISHED"]
    BY <1>4 DEF Abort, FinishRequest, Retire
  <2> QED BY <1>0, <2>1
<1>5. CASE RunningPreempt
  <2>1. running # <<>>
    <3>1. running \in Seq(Id) /\ idx <= Len(running) /\ idx \in Nat \ {0}
      BY <1>5, RangesInId DEF RunningPreempt, InRunningLoop, Shape
    <3>2. Len(<<>>) = 0
      OBVIOUS
    <3> QED BY <3>1, <3>2
  <2>2. PICK v : v = Last(running) /\ status[v] = "RUNNING"
    BY <2>1, LastIsRunning
  <2>3. status' = [status EXCEPT ![v] = "PREEMPTED"]
    BY <1>5, <2>2 DEF RunningPreempt
  <2> QED BY <1>0, <2>2, <2>3
<1>6. CASE AttemptFails
  <2>1. PICK u : waiting # <<>> /\ u = Head(waiting) /\ status' = [status EXCEPT ![u] = Cleared(u)]
    BY <1>6 DEF AttemptFails, Attempts, AtLookup, InWaitingLoop
  <2> QED BY <1>0, <1>2, <2>1
<1>7. CASE SpawnDocuments
  <2>1. PICK u : /\ waiting # <<>> /\ u = Head(waiting)
                 /\ status' = [j \in Id |-> IF j \in {DocId(u, d) : d \in MissingDocs(u)} THEN NewStatus(j)
                                            ELSE IF j = u THEN Cleared(u) ELSE status[j]]
    BY <1>7 DEF SpawnDocuments, InWaitingLoop
  <2>2. u \in Id
    BY <2>1, WaitingHead
  <2>3. \A d \in MissingDocs(u) : DocId(u, d) # id
    BY <1>1, <2>2, MissingHasTokens
  <2> QED BY <1>2, <2>1, <2>3
<1>8. ASSUME \/ \E r \in Request : CompileGrammar(r)
             \/ StartSchedule \/ RunningSchedule \/ EndRunning \/ SkipForGrammar \/ DropCachedDocument
             \/ FinishSchedule \/ EndUpdate \/ KeepRunning \/ UNCHANGED vars
      PROVE  status' = status
  BY <1>8 DEF CompileGrammar, StartSchedule, RunningSchedule, EndRunning, SkipForGrammar,
     DropCachedDocument, FinishSchedule, EndUpdate, KeepRunning, vars, reqVars
<1> QED BY <1>3, <1>4, <1>5, <1>6, <1>7, <1>8 DEF Next, Schedule, Update, Quiescent

LEMMA MergedAfter ==
    ASSUME [Next]_vars, ~AttemptSucceeds, ~AttemptFails
    PROVE  merged' = merged
BY DEF Next, Schedule, Update, Quiescent, AddRequest, CompileGrammar, Abort, StartSchedule, RunningSchedule,
   RunningPreempt, EndRunning, SkipForGrammar, SpawnDocuments, DropCachedDocument, FinishSchedule,
   KeepRunning, FinishRequest, EndUpdate, vars, reqVars

LEMMA ComputedAfter ==
    ASSUME Shape, Places, Places', Counts, Truthful, [Next]_vars, ~AttemptSucceeds,
           NEW id \in Id, id \in Range(running')
    PROVE  Behind(id) <= computed'[id]
<1>0. computed \in [Id -> Nat] /\ scheduled \in [Id -> Nat] /\ Behind(id) \in Nat
  BY CountTypes, BehindFacts
<1>1. id \in Range(running) /\ status'[id] = "RUNNING"
  BY RunningAfter
<1>2. Behind(id) <= computed[id]
  BY <1>1 DEF Truthful
<1>3. CASE RunningPreempt
  <2>1. PICK v : status' = [status EXCEPT ![v] = "PREEMPTED"] /\ computed' = [computed EXCEPT ![v] = 0]
    BY <1>3 DEF RunningPreempt
  <2>2. id # v
    BY <1>1, <2>1 DEF Shape
  <2> QED BY <1>0, <1>2, <2>1, <2>2
<1>4. CASE SpawnDocuments
  <2>1. PICK u : /\ waiting # <<>> /\ u = Head(waiting)
                 /\ computed' = [j \in Id |-> IF j \in {DocId(u, d) : d \in MissingDocs(u)} THEN 0
                                              ELSE computed[j]]
    BY <1>4 DEF SpawnDocuments, InWaitingLoop
  <2>2. u \in Id
    BY <2>1, WaitingHead
  <2>3. CASE IsDoc(id)
    <3>1. Behind(id) = 0
      BY <2>3, BehindFacts DEF HasDocs, DocsOf
    <3> QED BY <1>0, <2>1, <3>1
  <2>4. CASE ~IsDoc(id)
    <3>1. \A d \in MissingDocs(u) : DocId(u, d) # id
      BY <2>2, <2>4, MissingHasTokens
    <3> QED BY <1>2, <2>1, <3>1
  <2> QED BY <2>3, <2>4
<1>5. CASE FinishSchedule
  <2>1. computed'[id] = computed[id] + scheduled[id]
    BY <1>5 DEF FinishSchedule
  <2>2. PICK a \in Nat, b \in Nat : a = computed[id] /\ b = scheduled[id]
    BY <1>0
  <2> QED BY <1>0, <1>2, <2>1, <2>2
<1>6. ASSUME \/ \E r \in Request : AddRequest(r) \/ CompileGrammar(r) \/ Abort(r)
             \/ StartSchedule \/ RunningSchedule \/ EndRunning \/ SkipForGrammar \/ DropCachedDocument
             \/ AttemptFails \/ EndUpdate \/ KeepRunning \/ FinishRequest \/ UNCHANGED vars
      PROVE  computed' = computed
  BY <1>6 DEF AddRequest, CompileGrammar, Abort, StartSchedule, RunningSchedule, EndRunning, SkipForGrammar,
     DropCachedDocument, AttemptFails, EndUpdate, KeepRunning, FinishRequest, vars, reqVars
<1> QED BY <1>2, <1>3, <1>4, <1>5, <1>6 DEF Next, Schedule, Update, Quiescent

LEMMA TruthRest ==
    ASSUME Shape, Shape', Places, Places', Counts, NotAskedTwice, CacheTypes, CacheTypes',
           Spelled, Truthful, QueriesFillBlock, [Next]_vars, ~RunningSchedule, ~AttemptSucceeds
    PROVE  Spelled' /\ Truthful'
<1>0. /\ out \in [Id -> Nat] /\ table \in [Id -> Seq(Block)] /\ hashes \in [Id -> Seq(Key)]
      /\ merged \in [Id -> BOOLEAN] /\ hashes' \in [Id -> Seq(Key)] /\ Range(running') \subseteq Id
      /\ blockHash \in [Block -> Key \cup {NoKey}]
  <2>1. PICK r \in Seq(Id) : r = running'
    BY DEF Shape
  <2>2. Range(r) \subseteq Id
    BY DEF Range
  <2>3. table \in [Id -> Seq(Block)] /\ out \in [Id -> Nat] /\ merged \in [Id -> BOOLEAN]
    BY DEF Shape, FreeExact
  <2>4. /\ hashes \in [Id -> Seq(Key)] /\ hashes' \in [Id -> Seq(Key)]
        /\ blockHash \in [Block -> Key \cup {NoKey}]
    BY DEF CacheTypes
  <2> QED BY <2>1, <2>2, <2>3, <2>4
<1>1. UNCHANGED <<blockHash, content>> /\ \A id \in Id : Settled(id)
  BY SettledAfter
<1>2. CacheSound'
  BY <1>1 DEF Truthful, CacheSound
<1>3. ASSUME NEW id \in Id, NEW i \in 1..Len(table'[id])
      PROVE  content'[table'[id][i]] = KeyAt(id, Reach(i, DoneUpto(id)'))
  <2>1. CASE table'[id] = <<>>
    <3>1. Len(<<>>) = 0
      OBVIOUS
    <3>2. i \in 1..0
      BY <1>3, <2>1, <3>1
    <3> QED BY <3>2
  <2>2. CASE table'[id] = table[id] /\ DoneUpto(id)' = DoneUpto(id)
    <3>1. content[table[id][i]] = KeyAt(id, Reach(i, DoneUpto(id)))
      BY <1>3, <2>2 DEF Truthful
    <3> QED BY <1>1, <2>2, <3>1
  <2> QED BY <1>1, <2>1, <2>2 DEF Settled
<1>4. ASSUME NEW id \in Id, AttemptFails, AtLookup(id)
      PROVE  merged' = [merged EXCEPT ![id] = HasDocs(id)] /\ hashes' = [hashes EXCEPT ![id] = AttemptHashes(id)]
  BY <1>4 DEF AttemptFails, Attempts, AtLookup
<1>5. ASSUME NEW id \in Id PROVE (merged[id] => HasDocs(id)) /\ merged'[id] \in {merged[id], HasDocs(id)}
  <2>1. merged[id] => HasDocs(id)
    BY DEF Counts, Amounts
  <2>2. CASE AttemptFails
    <3>1. PICK u \in Id : AtLookup(u)
      BY <2>2 DEF AttemptFails, Attempts
    <3>2. merged' = [merged EXCEPT ![u] = HasDocs(u)]
      BY <1>4, <2>2, <3>1
    <3> QED BY <1>0, <2>1, <3>2
  <2>3. CASE ~AttemptFails
    BY <2>1, <2>3, MergedAfter
  <2> QED BY <2>1, <2>2, <2>3
<1>6. ASSUME NEW id \in Range(running') PROVE (merged'[id] <=> HasDocs(id)) /\ Behind(id) <= computed'[id]
  <2>1. id \in Id /\ id \in Range(running)
    BY <1>0, <1>6, RunningAfter
  <2>2. merged[id] <=> HasDocs(id)
    BY <2>1 DEF Truthful
  <2>3. Behind(id) <= computed'[id]
    BY <1>6, <2>1, ComputedAfter
  <2> QED BY <1>5, <2>1, <2>2, <2>3
<1>7. Truthful'
  BY <1>2, <1>3, <1>6 DEF Truthful, HasDocs
<1>8. ASSUME NEW id \in Id
      PROVE  /\ Spells(id, hashes'[id])
             /\ hashes'[id] # <<>> => Len(hashes'[id]) * BlockSize > Behind(id) /\ (HasDocs(id) => merged'[id])
             /\ HasDocs(id) /\ merged'[id] => hashes'[id] # <<>> \/ status'[id] = "FINISHED"
  <2>1. CASE AttemptFails /\ AtLookup(id)
    <3>1. merged'[id] = HasDocs(id) /\ hashes'[id] = AttemptHashes(id)
      BY <1>0, <1>4, <2>1
    <3> QED BY <2>1, <3>1, AttemptSpells
  <2>2. CASE ~(AttemptFails /\ AtLookup(id))
    <3>1. merged'[id] = merged[id]
      <4>1. CASE AttemptFails
        <5>1. PICK u \in Id : AtLookup(u)
          BY <4>1 DEF AttemptFails, Attempts
        <5>2. merged' = [merged EXCEPT ![u] = HasDocs(u)] /\ u # id
          BY <1>4, <2>2, <4>1, <5>1
        <5> QED BY <1>0, <5>2
      <4>2. CASE ~AttemptFails
        BY <4>2, MergedAfter
      <4> QED BY <4>1, <4>2
    <3>2. CASE hashes'[id] = hashes[id]
      BY <3>1, <3>2, FinishedStays DEF Spelled
    <3>3. CASE hashes'[id] = <<>> /\ status'[id] = "FINISHED"
      <4>1. <<>> \in Seq(Key) /\ Len(<<>>) = 0
        OBVIOUS
      <4>2. Spells(id, <<>>)
        BY <4>1 DEF Spells
      <4> QED BY <3>3, <4>2
    <3>4. CASE AtLookup(id) /\ DropCachedDocument /\ hashes'[id] = HashesOf(id)
      <4>1. IsDoc(id)
        BY <3>4 DEF DropCachedDocument, FullyCachedDoc, AtLookup
      <4>2. ~HasDocs(id)
        BY <4>1 DEF HasDocs, DocsOf
      <4>3. hashes'[id] = AttemptHashes(id)
        BY <3>4, <4>1, AttemptSpells
      <4> QED BY <3>4, <4>2, <4>3, AttemptSpells
    <3> QED BY <2>2, <3>2, <3>3, <3>4, HashesAfter
  <2> QED BY <2>1, <2>2
<1>9. Spelled'
  BY <1>8 DEF Spelled, Spells, HasDocs
<1> QED BY <1>7, <1>9
-----------------------------------------------------------------------------
(* What is run is a request with its documents merged, so that all that is ever *)
(* computed has a key or is poison.                                            *)
Typed ==
    /\ \A id \in Range(running) : merged[id] <=> HasDocs(id)
    /\ content \in [Block -> Key \cup {NoKey, Poison}]

LEMMA ComputedType ==
    ASSUME out \in [Id -> Nat], NEW id \in Id, NEW m \in BOOLEAN, m = HasDocs(id),
           NEW t, NEW from \in Nat, NEW upto \in Nat, upto <= Total(id, m, out[id]),
           NEW i \in 1..CeilDiv(upto, BlockSize)
    PROVE  ComputedState(id, m, t, from, upto, i) \in Key \cup {NoKey, Poison}
<1>1. PICK N \in Nat : N = Total(id, m, out[id])
  BY TotalTokens
<1>2. PICK c \in Nat : c = CeilDiv(upto, BlockSize)
  BY CeilGrows
<1>3. i \in Nat /\ i >= 1 /\ upto >= 1
  <2>1. upto = 0 => CeilDiv(upto, BlockSize) = 0
    BY CeilGrows
  <2> QED BY <1>2, <2>1
<1>4. /\ Min({i * BlockSize, upto}) = Reach(i, upto)
      /\ Reach(i, upto) \in Nat /\ Reach(i, upto) >= 1 /\ Reach(i, upto) <= upto
  BY <1>3, ReachFacts
<1>5. PICK p \in Nat : p = Reach(i, upto) /\ p >= 1 /\ p <= N
  BY <1>1, <1>4
<1>6. TrueKey(id, m, p) = KeyAt(id, p) /\ KeyAt(id, p) \in Key
  BY <1>1, <1>5, TrueKeyIs, KeyAtType
<1>7. ComputedState(id, m, t, from, upto, i) \in {TrueKey(id, m, Min({i * BlockSize, upto})), Poison}
  BY DEF ComputedState
<1> QED BY <1>4, <1>5, <1>6, <1>7

LEMMA EffectType ==
    ASSUME out \in [Id -> Nat], content \in [Block -> Key \cup {NoKey, Poison}], DOMAIN content' = Block,
           content' = [b \in Block |-> content'[b]],
           NEW id \in Id, NEW m \in BOOLEAN, m = HasDocs(id),
           NEW h, NEW s, NEW t, NEW from \in Nat, NEW upto \in Nat, upto <= Total(id, m, out[id]),
           NEW f, NEW u, Effect(id, m, h, s, t, from, upto, f, u), Len(t) = CeilDiv(upto, BlockSize)
    PROVE  content' \in [Block -> Key \cup {NoKey, Poison}]
<1>1. ASSUME NEW b \in Block PROVE content'[b] \in Key \cup {NoKey, Poison}
  <2>1. CASE Same(b)
    BY <2>1 DEF Same
  <2>2. CASE ~Same(b)
    <3>1. PICK i \in 1..Len(t) : f < i /\ t[i] = b
      BY <2>2 DEF Effect
    <3>2. content'[b] = ComputedState(id, m, t, from, upto, i)
      BY <3>1 DEF Effect
    <3>3. i \in 1..CeilDiv(upto, BlockSize)
      BY <3>1
    <3> QED BY <3>2, <3>3, ComputedType
  <2> QED BY <2>1, <2>2
<1> QED BY <1>1

LEMMA TypedRun ==
    ASSUME Shape, Shape', Places, Counts, Writes, Typed, RunningSchedule
    PROVE  Typed'
<1>1. PICK id \in Id, from \in Nat, upto \in Nat : Ran(id, from, upto)
  BY RunStep
<1>2. PICK m \in BOOLEAN : m = merged[id]
  BY DEF Shape
<1>3. PICK hs \in Seq(Key), t \in Seq(Block), f \in Nat, u \in Nat :
                 /\ hs = hashes[id] /\ t = table'[id] /\ f = from \div BlockSize /\ u = upto \div BlockSize
                 /\ Effect(id, merged[id], ExtendHashes(hs, Tokens(id, merged[id]), u), table[id], t,
                           from, upto, f, u)
                 /\ f <= u /\ DoneUpto(id) = from /\ DoneUpto(id)' = upto
                 /\ hashes' = [hashes EXCEPT ![id] = ExtendHashes(hs, Tokens(id, merged[id]), u)]
                 /\ \A jd \in Id : jd # id => table'[jd] = table[jd] /\ DoneUpto(jd)' = DoneUpto(jd)
  BY <1>1, WritesRun
<1>4. /\ id \in Range(running) /\ upto <= Total(id, merged[id], out[id])
      /\ UNCHANGED <<running, merged>> /\ out \in [Id -> Nat]
      /\ Allocate(id, merged[id], hashes[id], <<>>, from, upto)
  BY <1>1 DEF Ran, queueVars, reqVars, Shape
<1>5. m = HasDocs(id)
  BY <1>2, <1>4 DEF Typed, HasDocs
<1>6. PICK h : Effect(id, m, h, table[id], t, from, upto, f, u)
  BY <1>2, <1>3
<1>7. Len(t) = CeilDiv(upto, BlockSize)
  <2>1. Counts'
    BY CountsRun
  <2> QED BY <1>3, <1>4, <2>1 DEF Counts, Fills
<1>8. content' = [b \in Block |-> content'[b]] /\ DOMAIN content' = Block
  BY <1>4 DEF Allocate
<1>9. content \in [Block -> Key \cup {NoKey, Poison}] /\ upto <= Total(id, m, out[id])
  BY <1>2, <1>4 DEF Typed
<1>10. content' \in [Block -> Key \cup {NoKey, Poison}]
  BY <1>4, <1>5, <1>6, <1>7, <1>8, <1>9, EffectType
<1> QED BY <1>4, <1>10 DEF Typed, HasDocs

LEMMA TypedAttempt ==
    ASSUME Shape, Shape', Places, Counts, Writes, Typed, AttemptSucceeds
    PROVE  Typed'
<1>1. PICK id \in Id, hits \in Seq(Block), from \in Nat, upto \in Nat : Tried(id, hits, from, upto)
  BY AttemptStep
<1>2. PICK hs \in Seq(Key), t \in Seq(Block), f \in Nat, u \in Nat, m \in BOOLEAN :
                 /\ hs = AttemptHashes(id) /\ t = table'[id] /\ f = from \div BlockSize /\ u = upto \div BlockSize
                 /\ f = Len(hits) /\ m = HasDocs(id)
                 /\ Effect(id, m, ExtendHashes(hs, Tokens(id, m), u), hits, t, from, upto, f, u)
                 /\ f <= u /\ DoneUpto(id)' = upto
                 /\ hashes' = [hashes EXCEPT ![id] = ExtendHashes(hs, Tokens(id, m), u)]
                 /\ \A i \in 1..f : blockHash[hits[i]] = AttemptHit(id)[i]
                 /\ \A jd \in Id : jd # id => table'[jd] = table[jd] /\ DoneUpto(jd)' = DoneUpto(jd)
  BY <1>1, WritesAttempt
<1>3. /\ upto <= Total(id, HasDocs(id), out[id]) /\ out \in [Id -> Nat] /\ merged \in [Id -> BOOLEAN]
      /\ merged' = [merged EXCEPT ![id] = HasDocs(id)] /\ running' = Append(running, id)
      /\ Allocate(id, HasDocs(id), AttemptHashes(id), hits, from, upto)
      /\ running \in Seq(Id) /\ Range(running) \subseteq Id
  BY <1>1, RangesInId DEF Tried, Shape
<1>4. Range(running') = Range(running) \cup {id}
  <2>1. PICK w \in Seq(Id) : w = <<id>> /\ Range(w) = {id}
    BY Singleton
  <2>2. PICK s \in Seq(Id) : s = running
    BY <1>3
  <2>3. s \o w = Append(s, id)
    BY <2>1
  <2>4. Range(s \o w) = Range(s) \cup Range(w)
    BY ConcatFacts
  <2> QED BY <1>3, <2>1, <2>2, <2>3, <2>4
<1>5. PICK h : Effect(id, m, h, hits, t, from, upto, f, u)
  BY <1>2
<1>6. Len(t) = CeilDiv(upto, BlockSize)
  <2>1. Counts'
    BY CountsAttempt
  <2>2. id \in Range(running')
    BY <1>4
  <2> QED BY <1>2, <2>1, <2>2 DEF Counts, Fills
<1>7. content' = [b \in Block |-> content'[b]] /\ DOMAIN content' = Block
  BY <1>3 DEF Allocate
<1>8. content \in [Block -> Key \cup {NoKey, Poison}] /\ upto <= Total(id, m, out[id]) /\ m = HasDocs(id)
  BY <1>2, <1>3 DEF Typed
<1>9. content' \in [Block -> Key \cup {NoKey, Poison}]
  BY <1>3, <1>5, <1>6, <1>7, <1>8, EffectType
<1>10. ASSUME NEW jd \in Range(running') PROVE merged'[jd] <=> HasDocs(jd)
  <2>1. CASE jd = id
    <3>1. merged'[id] = HasDocs(id)
      BY <1>3
    <3> QED BY <2>1, <3>1
  <2>2. CASE jd \in Range(running) /\ jd # id
    <3>1. merged'[jd] = merged[jd]
      BY <1>3, <2>2
    <3> QED BY <2>2, <3>1 DEF Typed
  <2> QED BY <1>4, <1>10, <2>1, <2>2
<1> QED BY <1>9, <1>10 DEF Typed, HasDocs

LEMMA TypedRest ==
    ASSUME Shape, Shape', Places, Places', Counts, NotAskedTwice, Typed, [Next]_vars,
           ~RunningSchedule, ~AttemptSucceeds
    PROVE  Typed'
<1>1. content' = content
  BY SettledAfter
<1>2. merged \in [Id -> BOOLEAN]
  BY DEF Shape
<1>3. ASSUME NEW id \in Range(running') PROVE merged'[id] <=> HasDocs(id)
  <2>1. id \in Id /\ id \in Range(running)
    <3>1. PICK r \in Seq(Id) : r = running'
      BY DEF Shape
    <3>2. Range(r) \subseteq Id
      BY DEF Range
    <3> QED BY <1>3, <3>1, <3>2, RunningAfter
  <2>2. merged[id] <=> HasDocs(id)
    BY <2>1 DEF Typed
  <2>3. CASE AttemptFails
    <3>1. PICK u \in Id : merged' = [merged EXCEPT ![u] = HasDocs(u)]
      BY <2>3 DEF AttemptFails
    <3> QED BY <1>2, <2>1, <2>2, <3>1
  <2>4. CASE ~AttemptFails
    BY <2>2, <2>4, MergedAfter
  <2> QED BY <2>3, <2>4
<1> QED BY <1>1, <1>3 DEF Typed, HasDocs

LEMMA TypedStep ==
    ASSUME Shape, Shape', Places, Places', Counts, Writes, NotAskedTwice, Typed, [Next]_vars
    PROVE  Typed'
BY TypedRun, TypedAttempt, TypedRest

LEMMA TrueInit == Init => Typed /\ Spelled /\ Truthful
<1> SUFFICES ASSUME Init PROVE Typed /\ Spelled /\ Truthful
  OBVIOUS
<1>1. /\ running = <<>> /\ content = [b \in Block |-> NoKey] /\ blockHash = [b \in Block |-> NoKey]
      /\ table = [id \in Id |-> <<>>] /\ hashes = [id \in Id |-> <<>>] /\ merged = [id \in Id |-> FALSE]
  BY DEF Init
<1>2. Range(running) = {}
  BY <1>1, EmptyRange
<1>3. <<>> \in Seq(Key) /\ Len(<<>>) = 0
  OBVIOUS
<1>4. \A id \in Id : table[id] = <<>> /\ Len(table[id]) = 0 /\ hashes[id] = <<>> /\ ~merged[id]
  BY <1>1, <1>3
<1>5. Typed
  BY <1>1, <1>2 DEF Typed
<1>6. \A id \in Id : Spells(id, <<>>)
  BY <1>3 DEF Spells
<1>7. Spelled
  BY <1>4, <1>6 DEF Spelled
<1>8. CacheSound
  BY <1>1 DEF CacheSound
<1>9. \A id \in Id : \A i \in 1..Len(table[id]) : content[table[id][i]] = KeyAt(id, Reach(i, DoneUpto(id)))
  <2> SUFFICES ASSUME NEW id \in Id, NEW i \in 1..Len(table[id]) PROVE FALSE
    OBVIOUS
  <2>1. i \in 1..0
    BY <1>4
  <2> QED BY <2>1
<1>10. Truthful
  BY <1>2, <1>8, <1>9 DEF Truthful
<1> QED BY <1>5, <1>7, <1>10

(* The variables have their types: in particular no amount of tokens ever       *)
(* becomes negative, and the budget is kept to.                                *)
LEMMA TypesHold == Cores /\ Typed => TypeOK
<1> SUFFICES ASSUME Cores, Typed PROVE TypeOK
  OBVIOUS
<1>1. Shape /\ Counts /\ CacheTypes
  BY DEF Cores, Writes
<1>2. computed \in [Id -> Nat] /\ scheduled \in [Id -> 0..TokenBudget] /\ budget \in 0..TokenBudget
  BY <1>1 DEF Shape, Counts, Amounts
<1>3. table \in [Id -> Seq(Block)] /\ free \in Seq(Block)
  BY <1>1 DEF Shape, FreeExact
<1> QED BY <1>1, <1>2, <1>3 DEF TypeOK, Shape, CacheTypes, Typed, Status, Phase

(* The types of the scheduler's variables, for any requests, documents, pool    *)
(* and budget.                                                                  *)
THEOREM SchedulerTypes ==
    ASSUME DocumentsUnguided, DocumentsUncut
    PROVE  Spec => []TypeOK
<1>1. Cores /\ Orders /\ Typed /\ [Next]_vars => (Cores /\ Orders /\ Typed)'
  <2> SUFFICES ASSUME Cores, Orders, Typed, [Next]_vars PROVE (Cores /\ Orders /\ Typed)'
    OBVIOUS
  <2>1. Cores' /\ Orders'
    BY CoresStep
  <2>2. NotAskedTwice
    BY AskedOnce DEF Cores, Orders
  <2>3. Typed'
    BY <2>1, <2>2, TypedStep DEF Cores
  <2> QED BY <2>1, <2>3
<1>2. Init => Cores /\ Orders /\ Typed
  BY CoresInit, TrueInit
<1> QED BY <1>1, <1>2, TypesHold, PTL DEF Spec
-----------------------------------------------------------------------------
LEMMA TruthStep ==
    ASSUME DocumentsUnguided, DocumentsUncut, HitsWhole, QueriesFillBlock,
           Cores, Orders, Spelled, Truthful, [Next]_vars
    PROVE  Cores' /\ Orders' /\ Spelled' /\ Truthful'
<1>1. Cores' /\ Orders'
  BY CoresStep
<1>2. NotAskedTwice
  BY AskedOnce DEF Cores, Orders
<1>3. /\ Shape /\ Shape' /\ Places /\ Places' /\ Counts /\ Writes
      /\ CacheTypes /\ CacheTypes'
  BY <1>1 DEF Cores, Writes
<1>4. CASE RunningSchedule
  BY <1>1, <1>3, <1>4, TruthRun
<1>5. CASE AttemptSucceeds
  BY <1>1, <1>3, <1>5, TruthAttempt
<1>6. CASE ~RunningSchedule /\ ~AttemptSucceeds
  BY <1>1, <1>2, <1>3, <1>6, TruthRest
<1> QED BY <1>4, <1>5, <1>6

(* The induction behind the next two: what is registered is what its hash       *)
(* stands for, and the hashes and blocks of a request are those of its context. *)
THEOREM TruthAlways ==
    ASSUME DocumentsUnguided, DocumentsUncut, HitsWhole, QueriesFillBlock
    PROVE  Spec => [](Cores /\ Orders /\ Spelled /\ Truthful)
<1>1. Cores /\ Orders /\ Spelled /\ Truthful /\ [Next]_vars => (Cores /\ Orders /\ Spelled /\ Truthful)'
  BY TruthStep
<1>2. Init => Cores /\ Orders /\ Spelled /\ Truthful
  BY CoresInit, TrueInit
<1> QED BY <1>1, <1>2, PTL DEF Spec

(* A block that can be found in the prefix cache holds the state its hash       *)
(* stands for, as long as hits are taken whole (drop_first shows what else      *)
(* happens) and a query with documents has a full block of its own (alias).     *)
THEOREM SchedulerCacheSound ==
    ASSUME DocumentsUnguided, DocumentsUncut, HitsWhole, QueriesFillBlock
    PROVE  Spec => []CacheSound
<1>1. Truthful => CacheSound
  BY DEF Truthful
<1> QED BY <1>1, TruthAlways, PTL

LEMMA SpellsHolds ==
    ASSUME Cores, Truthful
    PROVE  TableSpellsContext
<1> SUFFICES ASSUME NEW id \in Range(running), NEW i \in 1..CeilDiv(DoneUpto(id), BlockSize)
             PROVE  content[table[id][i]] = TrueKey(id, merged[id], Min({i * BlockSize, DoneUpto(id)}))
  BY DEF TableSpellsContext
<1>1. Shape /\ Counts
  BY DEF Cores
<1>2. id \in Id
  BY <1>1, RangesInId
<1>3. PICK n \in Nat, m \in BOOLEAN, N \in Nat :
         n = DoneUpto(id) /\ m = merged[id] /\ N = Total(id, merged[id], out[id]) /\ n <= N
  BY <1>1, <1>2, CountTypes DEF Counts, Amounts
<1>4. out \in [Id -> Nat]
  BY <1>1 DEF Shape
<1>5. Len(table[id]) = CeilDiv(n, BlockSize) /\ (m <=> HasDocs(id))
  BY <1>1, <1>3 DEF Counts, Fills, Truthful
<1>6. i \in Nat /\ i >= 1 /\ n >= 1
  <2>1. n = 0 => CeilDiv(n, BlockSize) = 0
    BY CeilGrows
  <2>2. CeilDiv(n, BlockSize) \in Nat
    BY CeilGrows
  <2> QED BY <1>3, <2>1, <2>2
<1>7. /\ Min({i * BlockSize, n}) = Reach(i, n)
      /\ Reach(i, n) \in Nat /\ Reach(i, n) >= 1 /\ Reach(i, n) <= n
  BY <1>6, ReachFacts
<1>8. PICK p \in Nat : p = Reach(i, n) /\ p >= 1 /\ p <= N
  BY <1>3, <1>7
<1>9. m = HasDocs(id)
  BY <1>5 DEF HasDocs
<1>10. TrueKey(id, m, p) = KeyAt(id, p)
  BY <1>3, <1>4, <1>2, <1>8, <1>9, TrueKeyIs
<1>11. content[table[id][i]] = KeyAt(id, Reach(i, n))
  BY <1>2, <1>3, <1>5 DEF Truthful
<1> QED BY <1>3, <1>7, <1>8, <1>10, <1>11

(* The table of a running request spells out its own context, through merging,  *)
(* cache hits, chunks, preemption and resumption: its documents in order, each  *)
(* as if alone, then its query and its output behind all of them.              *)
THEOREM SchedulerSpellsContext ==
    ASSUME DocumentsUnguided, DocumentsUncut, HitsWhole, QueriesFillBlock
    PROVE  Spec => []TableSpellsContext
<1>1. Cores /\ Truthful => TableSpellsContext
  BY SpellsHolds
<1> QED BY <1>1, TruthAlways, PTL

(* docs/design.md:155-157 and scheduler.py:436-445: equal queries behind other  *)
(* documents never alias and nothing poisoned is registered, under those        *)
(* conditions; the runs alias and drop_first break one of them each.            *)
THEOREM SchedulerNeverPoisoned ==
    ASSUME DocumentsUnguided, DocumentsUncut, HitsWhole, QueriesFillBlock
    PROVE  Spec => [](QueriesDoNotAlias /\ CacheNotPoisoned)
<1>1. Cores /\ Truthful => QueriesDoNotAlias /\ CacheNotPoisoned
  <2> SUFFICES ASSUME Cores, Truthful PROVE QueriesDoNotAlias /\ CacheNotPoisoned
    OBVIOUS
  <2>1. blockHash \in [Block -> Key \cup {NoKey}] /\ CacheSound
    BY DEF Cores, Writes, CacheTypes, Truthful
  <2>2. QueriesDoNotAlias
    BY <2>1 DEF QueriesDoNotAlias, CacheSound
  <2>3. CacheNotPoisoned
    BY <2>1, SchedulerAssumption DEF CacheNotPoisoned, CacheSound
  <2> QED BY <2>2, <2>3
<1> QED BY <1>1, TruthAlways, PTL
-----------------------------------------------------------------------------
(* How a request's slots change, as the cache's contract sees it.               *)
Grows(id, m, h, s, t, from, upto, f, u) ==
    /\ table' = [table EXCEPT ![id] = t] /\ hashes' = [hashes EXCEPT ![id] = h]
    /\ Effect(id, m, h, s, t, from, upto, f, u) /\ u <= Len(h)
    /\ table[id] # <<>> => Cache!Extends(hashes[id], h)
    /\ Len(table[id]) <= Len(s) /\ Len(s) <= Len(t)
    /\ \A i \in 1..Len(table[id]) : s[i] = table[id][i]
    /\ Len(s) > Len(table[id]) => table[id] = <<>> /\ Cache!HitBlocks(t, h, Len(s))
    /\ \A i \in 1..Len(s) : f < i => blockHash[s[i]] = NoKey /\ i <= Len(table[id])

LEMMA GrowsAllocates ==
    ASSUME table \in [Id -> Seq(Block)], hashes \in [Id -> Seq(Key)], CacheTypes', CacheSound', DOMAIN content' = Block,
           NEW id \in Id, NEW m, NEW h \in Seq(Key), NEW s \in Seq(Block), NEW t \in Seq(Block),
           NEW from, NEW upto, NEW f \in Nat, NEW u \in Nat, Grows(id, m, h, s, t, from, upto, f, u)
    PROVE  Cache!Allocate(id)
<1>1. /\ table' = [table EXCEPT ![id] = t] /\ hashes' = [hashes EXCEPT ![id] = h]
      /\ Effect(id, m, h, s, t, from, upto, f, u) /\ u <= Len(h)
      /\ table[id] # <<>> => Cache!Extends(hashes[id], h)
      /\ Len(table[id]) <= Len(s) /\ Len(s) <= Len(t)
      /\ \A i \in 1..Len(table[id]) : s[i] = table[id][i]
      /\ Len(s) > Len(table[id]) => table[id] = <<>> /\ Cache!HitBlocks(t, h, Len(s))
      /\ \A i \in 1..Len(s) : f < i => blockHash[s[i]] = NoKey /\ i <= Len(table[id])
  BY DEF Grows
<1>2. table'[id] = t /\ hashes'[id] = h
  BY <1>1
<1>3. PICK a \in Nat, g \in Nat, c \in Nat : a = Len(table[id]) /\ g = Len(s) /\ c = Len(t) /\ a <= g /\ g <= c
  BY <1>1
<1>4. /\ \A b \in Block : Same(b) \/ \E i \in 1..c : f < i /\ t[i] = b
      /\ \A i \in 1..g : i \in 1..c /\ t[i] = s[i]
      /\ \A i \in 1..c : i <= f => i <= g
      /\ \A i \in 1..c : f < i =>
            /\ i <= u => blockHash'[t[i]] = h[i]
            /\ u < i => blockHash'[t[i]] = IF i <= g THEN blockHash[s[i]] ELSE NoKey
            /\ \A j \in 1..c : t[j] = t[i] => j = i
            /\ \A jd \in Id \ {id} : \A j \in 1..Len(table[jd]) : table[jd][j] # t[i]
  BY <1>1, <1>3 DEF Effect
<1>5. Cache!Extends(table[id], t)
  <2>1. \A i \in 1..a : t[i] = table[id][i]
    BY <1>1, <1>3, <1>4
  <2> QED BY <1>3, <2>1 DEF Cache!Extends
<1>6. ASSUME NEW i \in g+1..c PROVE f < i /\ i \in 1..c
  <2>1. i \in 1..c /\ ~(i <= g)
    BY <1>3
  <2>2. i \in 1..c /\ i <= f => i <= g
    BY <1>4
  <2> QED BY <2>1, <2>2
<1>7. Cache!FreshBlocks(id, t, g)
  <2>1. ASSUME NEW i \in g+1..c, NEW jd \in Id, NEW j \in 1..Len(table[jd]), table[jd][j] = t[i] PROVE FALSE
    <3>1. f < i /\ i \in 1..c
      BY <1>6
    <3>2. CASE jd # id
      BY <1>4, <2>1, <3>1, <3>2
    <3>3. CASE jd = id
      <4>1. j \in 1..a /\ j \in 1..g
        BY <1>3, <2>1, <3>3
      <4>2. t[j] = t[i] /\ j \in 1..c
        BY <1>1, <1>3, <1>4, <2>1, <3>3, <4>1
      <4>3. j = i
        BY <1>4, <3>1, <4>2
      <4> QED BY <1>3, <4>1, <4>3
    <3> QED BY <3>2, <3>3
  <2>2. ASSUME NEW i \in g+1..c, t[i] \in Cache!Held PROVE FALSE
    <3>1. PICK jd \in Id : t[i] \in Cache!BlocksOf(jd)
      BY <2>2 DEF Cache!Held
    <3>2. PICK j \in DOMAIN table[jd] : table[jd][j] = t[i]
      BY <3>1 DEF Cache!BlocksOf
    <3>3. j \in 1..Len(table[jd])
      BY <3>2
    <3> QED BY <2>1, <3>2, <3>3
  <2>3. \A i \in g+1..c : \A j \in 1..c : t[i] = t[j] => i = j
    BY <1>4, <1>6
  <2> QED BY <1>3, <2>2, <2>3 DEF Cache!FreshBlocks
<1>8. PICK W : W = Cache!Unfinished(id) \cup {t[i] : i \in g+1..c}
  OBVIOUS
<1>9. \A b \in Block \ W : blockHash'[b] = blockHash[b] /\ content'[b] = content[b]
  <2> SUFFICES ASSUME NEW b \in Block, ~Same(b) PROVE b \in W
    BY DEF Same
  <2>1. PICK i \in 1..c : f < i /\ t[i] = b
    BY <1>4
  <2>2. CASE i <= g
    <3>1. i \in 1..g /\ s[i] = b
      BY <1>3, <1>4, <2>1, <2>2
    <3>2. blockHash[b] = NoKey /\ i <= a
      BY <1>1, <1>3, <2>1, <3>1
    <3>3. i \in 1..a
      BY <1>3, <3>2
    <3>4. table[id][i] = b /\ i \in DOMAIN table[id]
      BY <1>1, <1>3, <3>1, <3>3
    <3> QED BY <1>8, <3>2, <3>4 DEF Cache!Unfinished, Cache!BlocksOf
  <2>3. CASE ~(i <= g)
    <3>1. i \in g+1..c
      BY <1>3, <2>3
    <3> QED BY <1>8, <2>1, <3>1
  <2> QED BY <2>2, <2>3
<1>10. ASSUME NEW i \in 1..c, t[i] \in W
       PROVE  \/ blockHash'[t[i]] = NoKey
              \/ i <= Len(h) /\ blockHash'[t[i]] = h[i] /\ content'[t[i]] = h[i]
  <2>0. t[i] \in Block
    BY <1>3
  <2>1. CASE f < i /\ i <= u
    <3>1. blockHash'[t[i]] = h[i]
      BY <1>4, <2>1
    <3>2. i <= Len(h)
      <4>1. PICK n \in Nat : n = Len(h)
        OBVIOUS
      <4> QED BY <1>1, <2>1, <4>1
    <3>3. blockHash'[t[i]] # NoKey => content'[t[i]] = blockHash'[t[i]]
      BY <2>0 DEF CacheSound
    <3> QED BY <3>1, <3>2, <3>3
  <2>2. CASE f < i /\ u < i
    <3>1. blockHash'[t[i]] = IF i <= g THEN blockHash[s[i]] ELSE NoKey
      BY <1>4, <2>2
    <3>2. i <= g => blockHash[s[i]] = NoKey
      BY <1>1, <1>3, <2>2
    <3> QED BY <3>1, <3>2
  <2>3. CASE i <= f
    <3>1. Same(t[i])
      <4>1. Same(t[i]) \/ \E j \in 1..c : f < j /\ t[j] = t[i]
        BY <1>4, <2>0
      <4>2. ASSUME NEW j \in 1..c, f < j, t[j] = t[i] PROVE FALSE
        <5>1. i = j
          BY <1>4, <4>2
        <5> QED BY <2>3, <4>2, <5>1
      <4> QED BY <4>1, <4>2
    <3>2. t[i] \in Cache!Unfinished(id)
      <4>1. ASSUME NEW j \in g+1..c, t[j] = t[i] PROVE FALSE
        <5>1. f < j /\ j \in 1..c
          BY <1>6
        <5>2. i = j
          BY <1>4, <4>1, <5>1
        <5> QED BY <2>3, <5>1, <5>2
      <4> QED BY <1>8, <1>10, <4>1
    <3> QED BY <3>1, <3>2 DEF Same, Cache!Unfinished
  <2>4. i \in Nat
    OBVIOUS
  <2> QED BY <2>1, <2>2, <2>3, <2>4
<1>11. Cache!WrittenAt(t, W, h)
  BY <1>3, <1>9, <1>10 DEF Cache!WrittenAt
<1>12. /\ Cache!OnlyTable(id, t) /\ Cache!OnlyHashes(id, h)
       /\ blockHash' \in [Block -> Key \cup {NoKey}]
  BY <1>1 DEF Cache!OnlyTable, Cache!OnlyHashes, CacheTypes
<1>13. g \in Len(table[id])..Len(t)
  BY <1>3
<1>14. \E hit \in Len(table[id])..Len(t) :
          /\ hit > Len(table[id]) => table[id] = <<>> /\ Cache!HitBlocks(t, h, hit)
          /\ Cache!FreshBlocks(id, t, hit)
          /\ Cache!WrittenAt(t, Cache!Unfinished(id) \cup {t[i] : i \in hit+1..Len(t)}, h)
  BY <1>1, <1>3, <1>7, <1>8, <1>11, <1>13
<1>15. \E hit \in Len(table[id])..Len(table'[id]) :
          /\ hit > Len(table[id]) => table[id] = <<>> /\ Cache!HitBlocks(table'[id], hashes'[id], hit)
          /\ Cache!FreshBlocks(id, table'[id], hit)
          /\ Cache!WrittenAt(table'[id],
                Cache!Unfinished(id) \cup {table'[id][i] : i \in hit+1..Len(table'[id])}, hashes'[id])
  BY <1>2, <1>14
<1>16. /\ table'[id] \in Seq(Block) /\ hashes'[id] \in Seq(Key)
       /\ Cache!OnlyTable(id, table'[id]) /\ Cache!OnlyHashes(id, hashes'[id])
       /\ Cache!Extends(table[id], table'[id])
       /\ table[id] # <<>> => Cache!Extends(hashes[id], hashes'[id])
  BY <1>1, <1>2, <1>5, <1>12
<1> QED BY <1>12, <1>15, <1>16 DEF Cache!Allocate
-----------------------------------------------------------------------------
LEMMA CacheRun ==
    ASSUME Shape, Shape', Places, Counts, Writes, Writes', Spelled, Truthful, Truthful', RunningSchedule
    PROVE  Cache!Next
<1>1. PICK id \in Id, from \in Nat, upto \in Nat : Ran(id, from, upto)
  BY RunStep
<1>2. PICK m \in BOOLEAN : m = merged[id]
  BY DEF Shape
<1>3. PICK hs \in Seq(Key), t \in Seq(Block), f \in Nat, u \in Nat :
                 /\ hs = hashes[id] /\ t = table'[id] /\ f = from \div BlockSize /\ u = upto \div BlockSize
                 /\ Effect(id, merged[id], ExtendHashes(hs, Tokens(id, merged[id]), u), table[id], t,
                           from, upto, f, u)
                 /\ f <= u /\ DoneUpto(id) = from /\ DoneUpto(id)' = upto
                 /\ hashes' = [hashes EXCEPT ![id] = ExtendHashes(hs, Tokens(id, merged[id]), u)]
                 /\ \A jd \in Id : jd # id => table'[jd] = table[jd] /\ DoneUpto(jd)' = DoneUpto(jd)
  BY <1>1, WritesRun
<1>4. /\ upto <= Total(id, merged[id], out[id]) /\ out \in [Id -> Nat] /\ from <= upto
      /\ Allocate(id, merged[id], hashes[id], <<>>, from, upto)
      /\ table \in [Id -> Seq(Block)] /\ hashes \in [Id -> Seq(Key)] /\ id \in Range(running) /\ running' = running
  BY <1>1 DEF Ran, Shape, FreeExact, Writes, CacheTypes, queueVars
<1>5. PICK h : h = ExtendHashes(hs, Tokens(id, m), u)
  OBVIOUS
<1>6. PICK tk \in Seq(Int) : tk = Tokens(id, m) /\ Len(tk) = Total(id, m, out[id])
  <2>1. PICK n \in Nat : n = DocLen(id, m)
    BY BehindFacts DEF DocLen
  <2> QED BY <1>4, <2>1, TokensAt
<1>7. PICK N \in Nat : N = Len(tk) /\ upto <= N
  BY <1>2, <1>4, <1>6
<1>8. u * BlockSize <= N
  BY <1>3, <1>7, FullFits
<1>9. h \in Seq(Key) /\ u <= Len(h) /\ (\A i \in 1..Len(hs) : h[i] = hs[i]) /\ (u <= Len(hs) => h = hs)
  BY <1>5, <1>6, <1>7, <1>8, ExtendFacts
<1>10. Cache!Extends(hashes[id], h)
  <2>1. PICK a \in Nat, b \in Nat : a = Len(hs) /\ b = Len(h)
    BY <1>9
  <2>2. a <= b
    BY <1>9, <2>1
  <2> QED BY <1>3, <1>9, <2>1, <2>2 DEF Cache!Extends
<1>11. PICK s \in Seq(Block) : s = table[id]
  BY <1>4
<1>12. Effect(id, m, h, s, t, from, upto, f, u)
  BY <1>2, <1>3, <1>5, <1>11
<1>13. Len(s) <= Len(t)
  <2>1. Counts'
    BY CountsRun
  <2>2. Len(s) = CeilDiv(from, BlockSize) /\ Len(t) = CeilDiv(upto, BlockSize)
    BY <1>3, <1>4, <1>11, <2>1 DEF Counts, Fills
  <2> QED BY <1>4, <2>2, CeilGrows
<1>14. \A i \in 1..Len(s) : f < i => blockHash[s[i]] = NoKey /\ i <= Len(table[id])
  <2> SUFFICES ASSUME NEW i \in 1..Len(s), f < i PROVE blockHash[s[i]] = NoKey /\ i <= Len(table[id])
    OBVIOUS
  <2>1. i \in 1..Len(table[id]) /\ DoneUpto(id) \div BlockSize < i
    BY <1>3, <1>11
  <2> QED BY <1>11, <2>1 DEF Writes, Tails
<1>15. table' = [table EXCEPT ![id] = t] /\ hashes' = [hashes EXCEPT ![id] = h]
  <2>1. table' = [jd \in Id |-> table'[jd]]
    BY DEF Shape, FreeExact
  <2>2. \A jd \in Id : table'[jd] = IF jd = id THEN t ELSE table[jd]
    BY <1>3
  <2> QED BY <1>2, <1>3, <1>4, <1>5, <2>1, <2>2
<1>16. DOMAIN content' = Block
  BY <1>4 DEF Allocate
<1>17. Len(table[id]) <= Len(s) /\ ~(Len(s) > Len(table[id])) /\ \A i \in 1..Len(table[id]) : s[i] = table[id][i]
  BY <1>11
<1>18. Grows(id, m, h, s, t, from, upto, f, u)
  BY <1>9, <1>10, <1>12, <1>13, <1>14, <1>15, <1>17 DEF Grows
<1>19. CacheTypes' /\ CacheSound'
  BY DEF Writes, Truthful
<1>20. Cache!Allocate(id)
  BY <1>4, <1>9, <1>16, <1>18, <1>19, GrowsAllocates
<1> QED BY <1>20 DEF Cache!Next

LEMMA CacheAttempt ==
    ASSUME Shape, Shape', Places, Counts, Writes, Writes', Spelled, Truthful', HitsWhole, QueriesFillBlock,
           AttemptSucceeds
    PROVE  Cache!Next
<1>1. PICK id \in Id, hits \in Seq(Block), from \in Nat, upto \in Nat : Tried(id, hits, from, upto)
  BY AttemptStep
<1>2. PICK hs \in Seq(Key), t \in Seq(Block), f \in Nat, u \in Nat, m \in BOOLEAN :
                 /\ hs = AttemptHashes(id) /\ t = table'[id] /\ f = from \div BlockSize /\ u = upto \div BlockSize
                 /\ f = Len(hits) /\ m = HasDocs(id)
                 /\ Effect(id, m, ExtendHashes(hs, Tokens(id, m), u), hits, t, from, upto, f, u)
                 /\ f <= u /\ DoneUpto(id)' = upto
                 /\ hashes' = [hashes EXCEPT ![id] = ExtendHashes(hs, Tokens(id, m), u)]
                 /\ \A i \in 1..f : blockHash[hits[i]] = AttemptHit(id)[i]
                 /\ \A jd \in Id : jd # id => table'[jd] = table[jd] /\ DoneUpto(jd)' = DoneUpto(jd)
  BY <1>1, WritesAttempt
<1>3. /\ AtLookup(id) /\ from = f * BlockSize /\ f = Len(AttemptHit(id)) /\ from <= upto
      /\ upto <= Total(id, HasDocs(id), out[id]) /\ table[id] = <<>> /\ running' = Append(running, id)
      /\ Allocate(id, HasDocs(id), AttemptHashes(id), hits, from, upto)
      /\ out \in [Id -> Nat] /\ table \in [Id -> Seq(Block)] /\ hashes \in [Id -> Seq(Key)] /\ running \in Seq(Id)
  BY <1>1, <1>2 DEF Tried, Attempts, Shape, FreeExact, Writes, CacheTypes
<1>4. PICK h : h = ExtendHashes(hs, Tokens(id, m), u)
  OBVIOUS
<1>5. PICK tk \in Seq(Int) : tk = Tokens(id, m) /\ Len(tk) = Total(id, m, out[id])
  <2>1. PICK n \in Nat : n = DocLen(id, m)
    BY BehindFacts DEF DocLen
  <2> QED BY <1>3, <2>1, TokensAt
<1>6. PICK N \in Nat : N = Len(tk) /\ upto <= N
  BY <1>2, <1>3, <1>5
<1>7. u * BlockSize <= N
  BY <1>2, <1>6, FullFits
<1>8. h \in Seq(Key) /\ u <= Len(h) /\ \A i \in 1..Len(hs) : h[i] = hs[i]
  BY <1>4, <1>5, <1>6, <1>7, ExtendFacts
<1>9. f <= Len(hs) /\ \A i \in 1..f : AttemptHit(id)[i] = hs[i]
  <2>1. CacheTypes
    BY DEF Writes
  <2> QED BY <1>2, <1>3, <2>1, AttemptHitStarts
<1>10. Effect(id, m, h, hits, t, from, upto, f, u)
  BY <1>2, <1>4
<1>11. Len(hits) <= Len(t)
  <2>1. Counts'
    BY CountsAttempt
  <2>2. id \in Range(running')
    <3>1. PICK w \in Seq(Id) : w = <<id>> /\ Range(w) = {id}
      BY Singleton
    <3>2. PICK r \in Seq(Id) : r = running
      BY <1>3
    <3>3. r \o w = Append(r, id)
      BY <3>1
    <3>4. Range(r \o w) = Range(r) \cup Range(w)
      BY ConcatFacts
    <3> QED BY <1>3, <3>1, <3>2, <3>3, <3>4
  <2>3. Len(t) = CeilDiv(upto, BlockSize)
    BY <1>2, <2>1, <2>2 DEF Counts, Fills
  <2>4. CeilDiv(from, BlockSize) = f
    BY <1>3, CeilExact
  <2> QED BY <1>2, <1>3, <2>3, <2>4, CeilGrows
<1>12. Cache!HitBlocks(t, h, Len(hits))
  <2> SUFFICES ASSUME NEW i \in 1..f PROVE i <= Len(h) /\ blockHash[t[i]] = h[i]
    BY <1>2 DEF Cache!HitBlocks
  <2>1. t[i] = hits[i]
    BY <1>2, <1>10 DEF Effect
  <2>2. blockHash[hits[i]] = hs[i]
    BY <1>2, <1>9
  <2>a. Len(hs) \in Nat /\ Len(h) \in Nat
    BY <1>8
  <2>3. PICK a \in Nat, b \in Nat : a = Len(hs) /\ b = Len(h)
    BY <2>a
  <2>4. hs[i] = h[i]
    BY <1>8, <1>9, <2>3
  <2>5. i <= b
    BY <1>2, <1>8, <2>3
  <2> QED BY <2>1, <2>2, <2>3, <2>4, <2>5
<1>13. table' = [table EXCEPT ![id] = t] /\ hashes' = [hashes EXCEPT ![id] = h]
  <2>1. table' = [jd \in Id |-> table'[jd]]
    BY DEF Shape, FreeExact
  <2>2. \A jd \in Id : table'[jd] = IF jd = id THEN t ELSE table[jd]
    BY <1>2
  <2> QED BY <1>2, <1>3, <1>4, <2>1, <2>2
<1>14. DOMAIN content' = Block
  BY <1>3 DEF Allocate
<1>15. Len(table[id]) = 0 /\ Len(hits) \in Nat
  <2>1. Len(<<>>) = 0
    OBVIOUS
  <2> QED BY <1>3, <2>1
<1>16. \A i \in 1..Len(hits) : f < i => blockHash[hits[i]] = NoKey /\ i <= Len(table[id])
  BY <1>2
<1>17. Grows(id, m, h, hits, t, from, upto, f, u)
  BY <1>3, <1>8, <1>10, <1>11, <1>12, <1>13, <1>15, <1>16 DEF Grows
<1>18. CacheTypes' /\ CacheSound'
  BY DEF Writes, Truthful
<1>19. Cache!Allocate(id)
  BY <1>3, <1>8, <1>14, <1>17, <1>18, GrowsAllocates
<1> QED BY <1>19 DEF Cache!Next

LEMMA CacheRest ==
    ASSUME Shape, Places, Counts, NotAskedTwice, CacheTypes, CacheTypes',
           [Next]_vars, ~RunningSchedule, ~AttemptSucceeds
    PROVE  [Cache!Next]_(Cache!vars)
<1>0. running \in Seq(Id) /\ hashes' \in [Id -> Seq(Key)] /\ hashes \in [Id -> Seq(Key)]
  BY RangesInId DEF CacheTypes
<1>1. CASE RunningPreempt
  <2>1. running # <<>>
    <3>1. idx <= Len(running) /\ idx \in Nat \ {0}
      BY <1>1 DEF RunningPreempt, InRunningLoop, Shape
    <3>2. Len(<<>>) = 0
      OBVIOUS
    <3> QED BY <3>1, <3>2
  <2>2. PICK v \in Id : v = Last(running)
    BY <2>1, LastIsRunning, RangesInId
  <2>3. table' = [table EXCEPT ![v] = <<>>] /\ UNCHANGED <<hashes, blockHash, content>>
    BY <1>1, <2>2 DEF RunningPreempt, FreeBlocks
  <2>4. Cache!Free(v)
    BY <2>3 DEF Cache!Free, Cache!OnlyTable
  <2> QED BY <2>4 DEF Cache!Next
<1>2. CASE (\E r \in Request : Abort(r)) \/ FinishRequest
  <2>1. PICK v \in Id : Retire(v)
    <3>1. CASE \E r \in Request : Abort(r)
      <4>1. PICK r \in Request : Abort(r)
        BY <3>1
      <4>2. User(r) \in Id
        BY DEF Id, Users
      <4> QED BY <4>1, <4>2 DEF Abort
    <3>2. CASE FinishRequest
      <4>1. running[idx] \in Id
        BY <3>2, HeadFacts DEF FinishRequest
      <4> QED BY <3>2, <4>1 DEF FinishRequest
    <3> QED BY <1>2, <3>1, <3>2
  <2>2. /\ table' = [table EXCEPT ![v] = <<>>] /\ hashes' = [hashes EXCEPT ![v] = <<>>]
        /\ UNCHANGED <<blockHash, content>>
    BY <2>1 DEF Retire, FreeBlocks
  <2>3. Cache!Finish(v)
    BY <2>2 DEF Cache!Finish, Cache!OnlyTable, Cache!OnlyHashes
  <2> QED BY <2>3 DEF Cache!Next
<1>3. CASE DropCachedDocument \/ AttemptFails
  <2>1. PICK v, k : /\ v \in Id /\ AtLookup(v) /\ hashes' = [hashes EXCEPT ![v] = k]
                    /\ UNCHANGED <<table, blockHash, content>>
    BY <1>3 DEF DropCachedDocument, AttemptFails, Attempts
  <2>a. v \in Id /\ AtLookup(v)
    BY <2>1
  <2>2. table[v] = <<>>
    <3>1. waiting # <<>> /\ v = Head(waiting)
      BY <2>a DEF AtLookup, InWaitingLoop
    <3>2. v \in Range(waiting)
      BY <3>1, WaitingHead
    <3> QED BY <2>a, <3>2 DEF Places, Apart
  <2>3. hashes'[v] = k /\ hashes'[v] \in Seq(Key)
    BY <1>0, <2>a, <2>1
  <2>4. Cache!Rehash(v)
    <3>1. hashes' = [hashes EXCEPT ![v] = hashes'[v]]
      BY <2>1, <2>3
    <3>2. UNCHANGED <<table, blockHash, content>>
      BY <2>1
    <3>3. Cache!OnlyHashes(v, hashes'[v])
      BY <3>1 DEF Cache!OnlyHashes
    <3> QED BY <3>2, <3>3, <2>2, <2>3 DEF Cache!Rehash
  <2> QED BY <2>a, <2>4 DEF Cache!Next
<1>4. ASSUME \/ \E r \in Request : AddRequest(r) \/ CompileGrammar(r)
             \/ StartSchedule \/ EndRunning \/ SkipForGrammar \/ SpawnDocuments
             \/ FinishSchedule \/ EndUpdate \/ KeepRunning \/ UNCHANGED vars
      PROVE  UNCHANGED <<table, hashes, blockHash, content>>
  BY <1>4 DEF AddRequest, CompileGrammar, StartSchedule, EndRunning, SkipForGrammar, SpawnDocuments,
     FinishSchedule, EndUpdate, KeepRunning, vars, kvVars
<1>5. UNCHANGED <<table, hashes, blockHash, content>> => UNCHANGED Cache!vars
  BY DEF Cache!vars
<1> QED BY <1>1, <1>2, <1>3, <1>4, <1>5 DEF Next, Schedule, Update, Quiescent

(* The scheduler moves blocks, hashes and tables only as the contract of the    *)
(* KV cache allows.  The contract has a block registered only for what was      *)
(* really computed into it, which is why this needs what CacheSound needs.      *)
THEOREM SchedulerImplementsCache ==
    ASSUME DocumentsUnguided, DocumentsUncut, HitsWhole, QueriesFillBlock
    PROVE  Spec => ImplementsCache
<1>1. Init => Cache!Init
  BY DEF Init, Cache!Init
<1>2. Cores /\ Orders /\ Spelled /\ Truthful /\ (Cores /\ Orders /\ Spelled /\ Truthful)' /\ [Next]_vars
         => [Cache!Next]_(Cache!vars)
  <2> SUFFICES ASSUME Cores, Orders, Spelled, Truthful, Cores', Truthful', [Next]_vars
               PROVE  [Cache!Next]_(Cache!vars)
    OBVIOUS
  <2>1. /\ Shape /\ Shape' /\ Places /\ Counts /\ Writes /\ Writes' /\ CacheTypes /\ CacheTypes'
    BY DEF Cores, Writes
  <2>2. NotAskedTwice
    BY AskedOnce DEF Cores, Orders
  <2>3. CASE RunningSchedule
    BY <2>1, <2>3, CacheRun
  <2>4. CASE AttemptSucceeds
    BY <2>1, <2>4, CacheAttempt
  <2>5. CASE ~RunningSchedule /\ ~AttemptSucceeds
    BY <2>1, <2>2, <2>5, CacheRest
  <2> QED BY <2>3, <2>4, <2>5
<1> QED BY <1>1, <1>2, TruthAlways, PTL DEF Spec, ImplementsCache, Cache!Spec
-----------------------------------------------------------------------------
(* The contract together with what is proved of it, for the scheduler's state.  *)
Contract == INSTANCE KVCacheProofs WITH
    Id <- Id, Block <- Block, Key <- Key, NoKey <- NoKey,
    table <- table, hashes <- hashes, blockHash <- blockHash, content <- content

LEMMA ContractInit == Cache!Init => Contract!Init
BY DEF Cache!Init, Contract!Init

LEMMA ContractNext == Cache!Next => Contract!Next
<1> SUFFICES ASSUME NEW id \in Id, Cache!Rehash(id) \/ Cache!Allocate(id) \/ Cache!Free(id) \/ Cache!Finish(id)
             PROVE  Contract!Rehash(id) \/ Contract!Allocate(id) \/ Contract!Free(id) \/ Contract!Finish(id)
  BY DEF Cache!Next, Contract!Next
<1>1. Cache!Rehash(id) => Contract!Rehash(id)
  BY DEF Cache!Rehash, Contract!Rehash, Cache!OnlyHashes, Contract!OnlyHashes
<1>2. Cache!Free(id) => Contract!Free(id)
  BY DEF Cache!Free, Contract!Free, Cache!OnlyTable, Contract!OnlyTable
<1>3. Cache!Finish(id) => Contract!Finish(id)
  BY DEF Cache!Finish, Contract!Finish, Cache!OnlyTable, Contract!OnlyTable, Cache!OnlyHashes, Contract!OnlyHashes
<1>4. Cache!Allocate(id) => Contract!Allocate(id)
  BY DEF Cache!Allocate, Contract!Allocate, Cache!OnlyTable, Contract!OnlyTable, Cache!OnlyHashes,
         Contract!OnlyHashes, Cache!Extends, Contract!Extends, Cache!HitBlocks, Contract!HitBlocks,
         Cache!FreshBlocks, Contract!FreshBlocks, Cache!Held, Contract!Held, Cache!BlocksOf,
         Contract!BlocksOf, Cache!Unfinished, Contract!Unfinished, Cache!WrittenAt, Contract!WrittenAt
<1> QED BY <1>1, <1>2, <1>3, <1>4

(* What the contract promises, the scheduler keeps: no block of a table is      *)
(* recycled or registered anew under the request that holds it, nobody writes   *)
(* to a block that two positions share, and no step changes a registered block  *)
(* that is held, whoever is preempted, aborted, resumed or served meanwhile.    *)
THEOREM SchedulerHoldsBlocks ==
    ASSUME DocumentsUnguided, DocumentsUncut, HitsWhole, QueriesFillBlock
    PROVE  Spec => [](Cache!TableSound /\ Cache!WriterExclusive) /\ Cache!HeldBlocksStable
<1>1. NoKey \notin Key
  BY SchedulerAssumption
<1>2. Contract!Spec => [](Contract!TypeOK /\ Contract!CacheSound /\ Contract!TableSound /\ Contract!WriterExclusive)
  BY <1>1, Contract!KVCacheSafe
<1>3. Contract!Spec => Contract!HeldBlocksStable
  BY <1>1, Contract!HeldBlocksNeverChange
<1>4. Cache!Init => Contract!Init
  BY ContractInit
<1>5. [Cache!Next]_(Cache!vars) => [Contract!Next]_(Contract!vars)
  BY ContractNext DEF Cache!vars, Contract!vars
<1>6. Contract!TableSound /\ Contract!WriterExclusive => Cache!TableSound /\ Cache!WriterExclusive
  BY DEF Contract!TableSound, Contract!WriterExclusive, Cache!TableSound, Cache!WriterExclusive
<1>7. [Contract!KeepsHeldBlocks]_(Contract!vars) => [Cache!KeepsHeldBlocks]_(Cache!vars)
  BY DEF Contract!KeepsHeldBlocks, Cache!KeepsHeldBlocks, Contract!vars, Cache!vars, Contract!Extends, Cache!Extends
<1>8. Spec => Cache!Spec
  BY SchedulerImplementsCache DEF ImplementsCache
<1>9. Cache!Spec => Contract!Spec
  BY <1>4, <1>5, PTL DEF Cache!Spec, Contract!Spec
<1>a. Contract!HeldBlocksStable => Cache!HeldBlocksStable
  BY <1>7, PTL DEF Contract!HeldBlocksStable, Cache!HeldBlocksStable
<1> QED BY <1>2, <1>3, <1>6, <1>8, <1>9, <1>a, PTL
-----------------------------------------------------------------------------
(* SumFunction: g gives the sum of f over each subset of S, one element after   *)
(* the other.                                                                  *)
Pick(s) == CHOOSE x \in s : TRUE
SumsUp(g, f, S) ==
    g = [s \in SUBSET S |-> IF s = {} THEN 0 ELSE f[Pick(s)] + g[s \ {Pick(s)}]]

LEMMA PickFacts ==
    ASSUME NEW s, s # {}, IsFiniteSet(s)
    PROVE  /\ Pick(s) \in s /\ IsFiniteSet(s \ {Pick(s)})
           /\ Cardinality(s) \in Nat /\ Cardinality(s) >= 1
           /\ Cardinality(s \ {Pick(s)}) = Cardinality(s) - 1
<1>1. PICK x \in s : x = Pick(s)
  BY DEF Pick
<1>2. Cardinality(s) \in Nat /\ Cardinality(s) # 0
  BY FS_CardinalityType, FS_EmptySet
<1>3. IsFiniteSet(s \ {x}) /\ Cardinality(s \ {x}) = Cardinality(s) - 1
  BY <1>1, FS_RemoveElement
<1> QED BY <1>1, <1>2, <1>3

LEMMA SumsExist ==
    ASSUME NEW S, IsFiniteSet(S), NEW f \in [S -> Int]
    PROVE  \E g \in [SUBSET S -> Int] : SumsUp(g, f, S)
<1>1. PICK n \in Nat : n = Cardinality(S)
  BY FS_CardinalityType
<1>2. \A s \in SUBSET S : IsFiniteSet(s) /\ Cardinality(s) \in 0..n
  <2> TAKE s \in SUBSET S
  <2>1. IsFiniteSet(s) /\ Cardinality(s) <= Cardinality(S)
    BY FS_Subset
  <2>2. Cardinality(s) \in Nat
    BY <2>1, FS_CardinalityType
  <2> QED BY <1>1, <2>1, <2>2
<1> DEFINE Upto(g, k) ==
              /\ g \in [SUBSET S -> Int]
              /\ \A s \in SUBSET S : Cardinality(s) <= k =>
                    g[s] = IF s = {} THEN 0 ELSE f[Pick(s)] + g[s \ {Pick(s)}]
           P == {k \in 0..n : \E g : Upto(g, k)}
<1>3. 0 \in P
  <2>1. PICK g : g = [s \in SUBSET S |-> 0]
    OBVIOUS
  <2>2. \A s \in SUBSET S : Cardinality(s) <= 0 => s = {}
    BY <1>2, FS_EmptySet
  <2>3. Upto(g, 0)
    BY <2>1, <2>2
  <2>4. 0 \in 0..n
    OBVIOUS
  <2> HIDE DEF Upto
  <2> QED BY <2>3, <2>4
<1>4. ASSUME NEW k \in 0..n-1, k \in P PROVE k + 1 \in P
  <2>1. PICK g : Upto(g, k)
    BY <1>4
  <2>2. PICK h : h = [s \in SUBSET S |-> IF s = {} THEN 0 ELSE f[Pick(s)] + g[s \ {Pick(s)}]]
    OBVIOUS
  <2>3. ASSUME NEW s \in SUBSET S, s # {}
        PROVE  f[Pick(s)] \in Int /\ s \ {Pick(s)} \in SUBSET S /\ g[s \ {Pick(s)}] \in Int
    BY <1>2, <2>1, <2>3, PickFacts
  <2>4. h \in [SUBSET S -> Int]
    <3>1. ASSUME NEW s \in SUBSET S PROVE h[s] \in Int
      <4>1. CASE s = {}
        BY <2>2, <4>1
      <4>2. CASE s # {}
        <5>1. h[s] = f[Pick(s)] + g[s \ {Pick(s)}]
          BY <2>2, <4>2
        <5>2. f[Pick(s)] \in Int /\ g[s \ {Pick(s)}] \in Int
          BY <2>3, <4>2
        <5> QED BY <5>1, <5>2
      <4> QED BY <4>1, <4>2
    <3>2. DOMAIN h = SUBSET S /\ h = [s \in SUBSET S |-> h[s]]
      BY <2>2
    <3> QED BY <3>1, <3>2
  <2>5. ASSUME NEW s \in SUBSET S, Cardinality(s) <= k PROVE h[s] = g[s]
    BY <2>1, <2>2, <2>5
  <2>6. ASSUME NEW s \in SUBSET S, Cardinality(s) <= k + 1
        PROVE  h[s] = IF s = {} THEN 0 ELSE f[Pick(s)] + h[s \ {Pick(s)}]
    <3>1. CASE s = {}
      BY <2>2, <3>1
    <3>2. CASE s # {}
      <4>1. PICK r \in SUBSET S : r = s \ {Pick(s)}
        BY <2>3, <3>2
      <4>2. Cardinality(r) <= k
        BY <1>2, <2>6, <3>2, <4>1, PickFacts
      <4>3. h[r] = g[r]
        BY <2>5, <4>2
      <4> QED BY <2>2, <3>2, <4>1, <4>3
    <3> QED BY <3>1, <3>2
  <2>7. Upto(h, k + 1)
    BY <2>4, <2>6
  <2>8. k + 1 \in 0..n
    BY <1>2
  <2> HIDE DEF Upto
  <2> QED BY <2>7, <2>8
<1> HIDE DEF P
<1>5. \A k \in 0..n : k \in P
  BY <1>3, <1>4, BoundedInduction
<1>6. n \in P
  BY <1>5
<1>7. PICK g : Upto(g, n)
  BY <1>6 DEF P
<1>8. \A s \in SUBSET S : g[s] = IF s = {} THEN 0 ELSE f[Pick(s)] + g[s \ {Pick(s)}]
  <2> TAKE s \in SUBSET S
  <2>1. Cardinality(s) <= n
    BY <1>2
  <2> QED BY <1>7, <2>1
<1> QED BY <1>7, <1>8 DEF SumsUp

(* g sums f over the subsets of S, one element at a time.                       *)
SumsOver(g, f, S) == /\ SumFunction(f) = g[S] /\ g[{}] = 0
                     /\ \A s \in SUBSET S : s # {} => g[s] = f[Pick(s)] + g[s \ {Pick(s)}]

LEMMA SumIs ==
    ASSUME NEW S, IsFiniteSet(S), NEW f \in [S -> Int]
    PROVE  \E g : SumsOver(g, f, S)
<1>1. PICK h : SumsUp(h, f, S)
  BY SumsExist
<1> DEFINE g == CHOOSE e : SumsUp(e, f, S)
<1>2. SumsUp(g, f, S)
  BY <1>1
<1>3. SumFunction(f) = g[S]
  <2>1. DOMAIN f = S
    OBVIOUS
  <2> QED BY <2>1 DEF SumFunction, SumFunctionOnSet, FoldFunctionOnSet, MapThenFoldSet, SumsUp, Pick
<1> HIDE DEF g
<1>4. g[{}] = 0 /\ \A s \in SUBSET S : s # {} => g[s] = f[Pick(s)] + g[s \ {Pick(s)}]
  BY <1>2 DEF SumsUp
<1>5. SumsOver(g, f, S)
  BY <1>3, <1>4 DEF SumsOver
<1> QED BY <1>5

LEMMA SumOfZeros ==
    ASSUME NEW S, IsFiniteSet(S), NEW f \in [S -> Int], \A x \in S : f[x] = 0
    PROVE  SumFunction(f) = 0
<1>s. PICK g : SumsOver(g, f, S)
  BY SumIs
<1>1. /\ SumFunction(f) = g[S] /\ g[{}] = 0
      /\ \A s \in SUBSET S : s # {} => g[s] = f[Pick(s)] + g[s \ {Pick(s)}]
  BY <1>s DEF SumsOver
<1>2. PICK n \in Nat : n = Cardinality(S)
  BY FS_CardinalityType
<1> DEFINE P == {k \in 0..n : \A s \in SUBSET S : Cardinality(s) = k => g[s] = 0}
<1>3. 0 \in P
  BY <1>1, FS_Subset, FS_EmptySet
<1>4. ASSUME NEW k \in 0..n-1, k \in P PROVE k + 1 \in P
  <2> SUFFICES ASSUME NEW s \in SUBSET S, Cardinality(s) = k + 1 PROVE g[s] = 0
    OBVIOUS
  <2>1. IsFiniteSet(s) /\ s # {}
    BY FS_Subset, FS_EmptySet
  <2>z. Pick(s) \in s /\ Cardinality(s \ {Pick(s)}) = Cardinality(s) - 1
    BY <2>1, PickFacts
  <2>a. Pick(s) \in s /\ Cardinality(s \ {Pick(s)}) = k
    BY <2>z
  <2>b. PICK x \in s : x = Pick(s)
    BY <2>a
  <2>2. PICK r \in SUBSET S : x = Pick(s) /\ r = s \ {x} /\ Cardinality(r) = k
    BY <2>a, <2>b
  <2>3. g[s] = f[x] + g[r]
    BY <1>1, <2>1, <2>2
  <2> QED BY <1>4, <2>2, <2>3
<1> HIDE DEF P
<1>5. \A k \in 0..n : k \in P
  BY <1>3, <1>4, BoundedInduction
<1>6. n \in P
  BY <1>5
<1> QED BY <1>1, <1>2, <1>6 DEF P

(* e is f with v for the value of x.                                            *)
Changes(e, f, S, x, v) ==
    /\ IsFiniteSet(S) /\ f \in [S -> Int] /\ x \in S /\ v \in Int
    /\ e \in [S -> Int] /\ e = [f EXCEPT ![x] = v]

(* The sum of e is that of f with v for the value of x.                         *)
SumsApart(e, f, x, v) == SumFunction(f) \in Int /\ SumFunction(e) = SumFunction(f) + v - f[x]

LEMMA SumOfChange ==
    ASSUME NEW S, NEW f, NEW x, NEW v, NEW e, Changes(e, f, S, x, v)
    PROVE  SumsApart(e, f, x, v)
<1>a. IsFiniteSet(S) /\ f \in [S -> Int] /\ x \in S /\ v \in Int /\ e \in [S -> Int]
  BY DEF Changes
<1>b. e = [f EXCEPT ![x] = v]
  BY DEF Changes
<1>g. PICK g : SumsOver(g, f, S)
  BY <1>a, SumIs
<1>1. /\ SumFunction(f) = g[S] /\ g[{}] = 0
      /\ \A s \in SUBSET S : s # {} => g[s] = f[Pick(s)] + g[s \ {Pick(s)}]
  BY <1>g DEF SumsOver
<1>h. PICK h : SumsOver(h, e, S)
  BY <1>a, SumIs
<1>2. /\ SumFunction(e) = h[S] /\ h[{}] = 0
      /\ \A s \in SUBSET S : s # {} => h[s] = e[Pick(s)] + h[s \ {Pick(s)}]
  BY <1>h DEF SumsOver
<1>3. PICK n \in Nat : n = Cardinality(S)
  BY <1>a, FS_CardinalityType
<1> DEFINE D(s) == IF x \in s THEN v - f[x] ELSE 0
           P == {k \in 0..n : \A s \in SUBSET S : Cardinality(s) = k =>
                                 g[s] \in Int /\ h[s] = g[s] + D(s)}
<1>4. 0 \in P
  BY <1>1, <1>2, <1>a, FS_Subset, FS_EmptySet
<1>5. ASSUME NEW k \in 0..n-1, k \in P PROVE k + 1 \in P
  <2> SUFFICES ASSUME NEW s \in SUBSET S, Cardinality(s) = k + 1 PROVE g[s] \in Int /\ h[s] = g[s] + D(s)
    OBVIOUS
  <2>1. IsFiniteSet(s) /\ s # {}
    BY <1>a, FS_Subset, FS_EmptySet
  <2>z. Pick(s) \in s /\ Cardinality(s \ {Pick(s)}) = Cardinality(s) - 1
    BY <2>1, PickFacts
  <2>a. Pick(s) \in s /\ Cardinality(s \ {Pick(s)}) = k
    BY <2>z
  <2>b. PICK y \in s : y = Pick(s)
    BY <2>a
  <2>2. PICK r \in SUBSET S : y = Pick(s) /\ r = s \ {y} /\ Cardinality(r) = k
    BY <2>a, <2>b
  <2>3. g[s] = f[y] + g[r] /\ h[s] = e[y] + h[r]
    BY <1>1, <1>2, <2>1, <2>2
  <2>4. g[r] \in Int /\ h[r] = g[r] + D(r)
    BY <1>5, <2>2
  <2>5. CASE y = x
    <3>1. D(r) = 0 /\ D(s) = v - f[x] /\ e[y] = v
      BY <1>a, <1>b, <2>2, <2>5
    <3>2. f[x] \in Int
      BY <1>a
    <3> QED BY <1>a, <2>3, <2>4, <2>5, <3>1, <3>2
  <2>6. CASE y # x
    <3>1. D(r) = D(s) /\ e[y] = f[y] /\ f[y] \in Int /\ D(s) \in Int
      BY <1>a, <1>b, <2>2, <2>6
    <3> QED BY <2>3, <2>4, <3>1
  <2> QED BY <2>5, <2>6
<1>6. n \in P
  <2> HIDE DEF P
  <2>1. \A k \in 0..n : k \in P
    BY <1>4, <1>5, BoundedInduction
  <2> QED BY <2>1
<1>7. g[S] \in Int /\ h[S] = g[S] + D(S)
  BY <1>3, <1>6
<1> QED BY <1>1, <1>2, <1>7, <1>a DEF SumsApart
-----------------------------------------------------------------------------
(* Every query has a token.  It is needed: an empty query behind cached         *)
(* documents leaves an attempt nothing to compute (run empty_query).           *)
QueriesNonEmpty == \A r \in Request : Prompt[r] # <<>>

LEMMA OwnHitShort ==
    ASSUME Shape, QueriesNonEmpty, NEW id \in Id, ~FullyCachedDoc(id)
    PROVE  Len(OwnHit(id)) * BlockSize < NumTokens(id)
<1>1. PICK N \in Nat : N = NumTokens(id) /\ N = Total(id, merged[id], out[id])
  BY Totals DEF Shape
<1>2. PICK a \in Nat : a = Len(OwnHit(id)) /\ a * BlockSize <= N
  BY <1>1, OwnHitBound
<1>3. PICK p \in Nat : p = a * BlockSize
  BY Multiple
<1>4. CASE IsDoc(id)
  BY <1>1, <1>2, <1>3, <1>4 DEF FullyCachedDoc
<1>5. CASE ~IsDoc(id)
  <2>1. N >= 1
    <3>1. PromptOf(id) # <<>> /\ PromptOf(id) \in Seq(Int)
      BY <1>5, IdFacts, DocsFacts DEF PromptOf, QueriesNonEmpty, IsDoc
    <3>2. PICK d \in Nat, o \in Nat : d = DocLen(id, merged[id]) /\ o = out[id]
      BY BehindFacts DEF DocLen, Behind, Shape
    <3>3. PICK l \in Nat : l = Len(PromptOf(id)) /\ l >= 1
      BY <3>1
    <3> QED BY <1>1, <3>2, <3>3 DEF Total
  <2>2. PICK X : Key \subseteq X /\ hashes \in [Id -> Seq(X)]
    BY DEF Shape
  <2>3. HashesOf(id) \in Seq(X)
    BY <2>2, AttemptTypes DEF Shape
  <2>4. OwnHit(id) = LongestHit(HashesOf(id), N - 1)
    BY <1>1, <1>5 DEF OwnHit
  <2>5. N - 1 \in Int /\ N - 1 >= 0
    BY <2>1
  <2>6. PICK n \in 0..Len(HashesOf(id)) : Len(LongestHit(HashesOf(id), N - 1)) = n /\ n * BlockSize <= N - 1
    BY <2>3, <2>5, HitPrefix
  <2>7. a = n
    BY <1>2, <2>4, <2>6
  <2>8. p <= N - 1
    BY <1>3, <2>6, <2>7
  <2> QED BY <1>1, <1>2, <1>3, <2>8
<1> QED BY <1>4, <1>5

LEMMA AttemptLacks ==
    ASSUME Shape, QueriesNonEmpty, NEW id \in Id, merged[id] => HasDocs(id), ~FullyCachedDoc(id)
    PROVE  AttemptFrom(id) < Total(id, HasDocs(id), out[id])
<1>1. out[id] \in Nat /\ merged[id] \in BOOLEAN /\ HasDocs(id) \in BOOLEAN
  BY DEF Shape, HasDocs
<1>2. PICK N \in Nat : N = NumTokens(id) /\ N = Total(id, merged[id], out[id])
  BY Totals DEF Shape
<1>3. PICK a \in Nat, q \in Nat : a = Len(OwnHit(id)) /\ q = a * BlockSize /\ q < N
  <2>1. PICK a \in Nat : a = Len(OwnHit(id)) /\ a * BlockSize < N
    BY <1>2, OwnHitBound, OwnHitShort
  <2>2. PICK q \in Nat : q = a * BlockSize
    BY Multiple
  <2> QED BY <2>1, <2>2
<1>4. AttemptFrom(id) = Len(AttemptHit(id)) * BlockSize
  BY DEF AttemptFrom
<1>5. CASE JustMerges(id)
  <2>1. HasDocs(id) /\ ~merged[id] /\ merged[id] = FALSE /\ HasDocs(id) = TRUE
    BY <1>1, <1>5 DEF JustMerges
  <2>2. AttemptHit(id) = DocsHit(id) \o OwnHit(id)
    BY <1>5 DEF AttemptHit
  <2>3. PICK X : /\ Key \subseteq X /\ hashes \in [Id -> Seq(X)]
    BY DEF Shape
  <2>4. OwnHit(id) \in Seq(X) /\ DocsHit(id) \in Seq(X)
    BY <1>1, <2>3, AttemptTypes, DocsHitType, SeqMonotonic DEF Shape
  <2>5. PICK b \in Nat : b = Len(DocsHit(id))
    BY <2>4
  <2>6. Len(AttemptHit(id)) = b + a
    BY <1>3, <2>2, <2>4, <2>5
  <2>7. b * BlockSize <= Len(FlattenSeq(DocsOf(id)))
    BY <2>5, DocsHitBound
  <2>8. (b + a) * BlockSize = b * BlockSize + a * BlockSize
    BY Products
  <2>9. /\ Total(id, TRUE, out[id]) = Len(FlattenSeq(DocsOf(id))) + Total(id, FALSE, out[id])
        /\ Len(FlattenSeq(DocsOf(id))) \in Nat
    <3>1. PICK o \in Nat : o = out[id]
      BY <1>1
    <3>2. o <= o
      OBVIOUS
    <3> QED BY <3>1, <3>2, TotalGrows
  <2>10. PICK f \in Nat : f = Len(FlattenSeq(DocsOf(id)))
    BY <2>9
  <2>11. PICK p \in Nat : p = b * BlockSize
    BY Multiple
  <2>12. AttemptFrom(id) = p + q /\ p <= f
    BY <1>3, <1>4, <2>6, <2>7, <2>8, <2>10, <2>11
  <2>13. Total(id, HasDocs(id), out[id]) = f + N
    BY <1>2, <2>1, <2>9, <2>10
  <2> QED BY <1>3, <2>12, <2>13
<1>6. CASE ~JustMerges(id)
  <2>1. merged[id] = HasDocs(id)
    BY <1>1, <1>6 DEF JustMerges
  <2>2. AttemptHit(id) = OwnHit(id)
    BY <1>6 DEF AttemptHit
  <2> QED BY <1>2, <1>3, <1>4, <2>1, <2>2
<1> QED BY <1>5, <1>6

Lacking == \A id \in Id : Attempts(id) => AttemptFrom(id) < Total(id, HasDocs(id), out[id])

LEMMA AttemptsLack ==
    ASSUME Shape, Counts, QueriesNonEmpty
    PROVE  Lacking
<1> SUFFICES ASSUME NEW id \in Id, Attempts(id) PROVE AttemptFrom(id) < Total(id, HasDocs(id), out[id])
  BY DEF Lacking
<1>1. merged[id] => HasDocs(id)
  BY DEF Counts, Amounts
<1>2. ~FullyCachedDoc(id)
  BY DEF Attempts
<1> QED BY <1>1, <1>2, AttemptLacks

LEMMA AlwaysSomething ==
    ASSUME Shape, Counts, Lacking
    PROVE  SomethingToSchedule
<1> SUFFICES ASSUME NEW id \in Id, Attempts(id) PROVE AttemptUpto(id) > AttemptFrom(id)
  BY DEF SomethingToSchedule
<1>1. budget \in Nat /\ budget > 0
  BY CountTypes DEF Attempts, AtLookup, InWaitingLoop
<1>2. out[id] \in Nat /\ HasDocs(id) \in BOOLEAN /\ merged[id] \in BOOLEAN
  BY DEF Shape, HasDocs
<1>3. PICK N \in Nat : N = Total(id, HasDocs(id), out[id]) /\ N = Len(Tokens(id, HasDocs(id)))
  BY <1>2, Totals, TotalTokens DEF Shape
<1>4. PICK f \in Nat : f = AttemptFrom(id) /\ f < N
  BY <1>3, AttemptNumbers DEF Lacking
<1>5. PICK n \in Nat : n = N - f /\ n > 0
  BY <1>4
<1>6. NumNew(n) \in Nat /\ NumNew(n) > 0
  BY <1>1, <1>5, NumNewSplit
<1>7. AttemptUpto(id) = f + NumNew(n)
  BY <1>3, <1>4, <1>5 DEF AttemptUpto
<1> QED BY <1>4, <1>6, <1>7
-----------------------------------------------------------------------------
(* Whoever runs and was given nothing yet has tokens to compute; in the update, *)
(* so has everybody whose turn is over: what was computed was sampled from.    *)
Short(id) == computed[id] < Total(id, merged[id], out[id])
Wanting ==
    /\ \A id \in Range(running) : scheduled[id] = 0 => Short(id)
    /\ pc = "update" => \A i \in 1..Len(running) : i < idx => Short(running[i])

LEMMA WantingInit == Init => Wanting
BY EmptyRange DEF Init, Wanting

LEMMA WantingSame ==
    ASSUME Shape, Wanting, UNCHANGED <<running, computed, scheduled, out, idx>>,
           pc' = "update" => pc = "update",
           \A id \in Range(running) : merged'[id] = merged[id]
    PROVE  Wanting'
<1>1. \A id \in Range(running) : Short(id) <=> Short(id)'
  BY DEF Short, Total, DocLen
<1>2. \A i \in 1..Len(running) : running[i] \in Range(running)
  BY RangeHas DEF Shape
<1> QED BY <1>1, <1>2 DEF Wanting

LEMMA WantingRun ==
    ASSUME Shape, Places, Counts, Wanting, RunningSchedule
    PROVE  Wanting'
<1>1. PICK id \in Id, from \in Nat, upto \in Nat : Ran(id, from, upto)
  BY RunStep
<1>2. /\ running' = running /\ id \in Range(running) /\ pc' = pc /\ pc = "running"
      /\ UNCHANGED <<computed, merged, out>>
      /\ scheduled' = [scheduled EXCEPT ![id] = upto - from] /\ scheduled[id] = 0 /\ computed[id] = from
      /\ scheduled \in [Id -> Int] /\ Range(running) \subseteq Id
      /\ from < Total(id, merged[id], out[id]) => from < upto
  BY <1>1, RangesInId DEF Ran, queueVars, reqVars, Shape
<1>3. from < upto
  BY <1>2 DEF Wanting, Short
<1>4. ASSUME NEW jd \in Range(running), scheduled'[jd] = 0 PROVE Short(jd)
  <2>1. jd # id
    BY <1>2, <1>3, <1>4
  <2>2. scheduled[jd] = 0
    BY <1>2, <1>4, <2>1
  <2> QED BY <2>2 DEF Wanting
<1>5. \A jd \in Id : Short(jd) <=> Short(jd)'
  BY <1>2 DEF Short, Total, DocLen
<1> QED BY <1>2, <1>4, <1>5 DEF Wanting

LEMMA WantingAttempt ==
    ASSUME Shape, Places, Counts, Wanting, Lacking, AttemptSucceeds
    PROVE  Wanting'
<1>1. PICK id \in Id, hits \in Seq(Block), from \in Nat, upto \in Nat : Tried(id, hits, from, upto)
  BY AttemptStep
<1>2. /\ id \notin Range(running) /\ pc' = pc /\ pc = "waiting" /\ out' = out
      /\ merged' = [merged EXCEPT ![id] = HasDocs(id)]
      /\ computed' = [computed EXCEPT ![id] = from]
      /\ scheduled' = [scheduled EXCEPT ![id] = upto - from]
      /\ running' = Append(running, id) /\ running \in Seq(Id)
      /\ scheduled \in [Id -> Int] /\ computed \in [Id -> Int] /\ merged \in [Id -> BOOLEAN]
      /\ Range(running) \subseteq Id
  BY <1>1, RangesInId DEF Tried, Shape
<1>3. from < upto
  <2>1. Attempts(id) /\ from = AttemptFrom(id)
        /\ (from < Total(id, HasDocs(id), out[id]) => from < upto)
    BY <1>1 DEF Tried
  <2> QED BY <2>1 DEF Lacking
<1>4. Range(running') = Range(running) \cup {id}
  <2>1. PICK v \in Seq(Id) : v = <<id>> /\ Range(v) = {id}
    BY Singleton
  <2>2. PICK s \in Seq(Id) : s = running
    BY <1>2
  <2>3. Range(s \o v) = Range(s) \cup Range(v)
    BY ConcatFacts
  <2>4. s \o v = Append(s, id)
    BY <2>1
  <2> QED BY <1>2, <2>1, <2>2, <2>3, <2>4
<1>5. ASSUME NEW jd \in Range(running'), scheduled'[jd] = 0 PROVE Short(jd)'
  <2>1. jd # id
    BY <1>2, <1>3, <1>5
  <2>2. jd \in Range(running) /\ jd \in Id /\ scheduled[jd] = 0
    BY <1>2, <1>4, <1>5, <2>1
  <2>3. Short(jd)
    BY <2>2 DEF Wanting
  <2> QED BY <1>2, <2>1, <2>2, <2>3 DEF Short, Total, DocLen
<1> QED BY <1>2, <1>5 DEF Wanting

LEMMA WantingPreempt ==
    ASSUME Shape, Places, Wanting, RunningPreempt
    PROVE  Wanting'
<1>1. PICK s \in Seq(Id), v \in Id, r \in Seq(Id) :
          s = running /\ r = Front(s) /\ v = Last(s) /\ s # <<>>
  <2>1. running # <<>>
    BY DEF RunningPreempt, InRunningLoop, Shape
  <2>2. Front(running) \in Seq(Id) /\ Last(running) \in Id /\ running \in Seq(Id)
    BY <2>1, SeqParts DEF Shape
  <2> QED BY <2>1, <2>2
<1>2. /\ running' = r /\ computed' = [computed EXCEPT ![v] = 0] /\ pc = "running" /\ pc' \in {"running", "finish"}
      /\ UNCHANGED <<scheduled, merged, out>> /\ computed \in [Id -> Int]
  BY <1>1 DEF RunningPreempt, InRunningLoop, Shape
<1>3. Distinct(s)
  BY <1>1 DEF Places, Apart
<1>4. Range(s) = {v} \cup Range(r) /\ v \notin Range(r)
  BY <1>1, <1>3, FrontParts
<1>5. \A jd \in Range(r) : jd \in Range(running) /\ jd \in Id /\ jd # v
  BY <1>1, <1>4, RangesInId
<1>6. \A jd \in Range(r) : Short(jd) => Short(jd)'
  BY <1>2, <1>5 DEF Short, Total, DocLen
<1> QED BY <1>2, <1>5, <1>6 DEF Wanting

LEMMA WantingSpawn ==
    ASSUME Shape, Wanting, NotAskedTwice, SpawnDocuments
    PROVE  Wanting'
<1>1. PICK id \in Id : id = Head(waiting) /\ InWaitingLoop /\ ~NeedsGrammar(id)
  <2>1. waiting # <<>>
    BY DEF SpawnDocuments, InWaitingLoop
  <2>2. Head(waiting) \in Id
    BY <2>1, WaitingHead
  <2> QED BY <2>2 DEF SpawnDocuments
<1>2. PICK S : /\ S = {DocId(id, d) : d \in MissingDocs(id)}
               /\ computed' = [j \in Id |-> IF j \in S THEN 0 ELSE computed[j]]
               /\ out' = [j \in Id |-> IF j \in S THEN 0 ELSE out[j]]
  BY <1>1 DEF SpawnDocuments
<1>3. UNCHANGED <<running, scheduled, merged, pc>> /\ pc = "waiting" /\ Range(running) \subseteq Id
  BY RangesInId DEF SpawnDocuments, InWaitingLoop, stepVars
<1>4. \A jd \in Range(running) : jd \notin S
  BY <1>1, <1>2 DEF NotAskedTwice
<1>5. \A jd \in Range(running) : Short(jd) => Short(jd)'
  BY <1>2, <1>3, <1>4 DEF Short, Total, DocLen
<1> QED BY <1>3, <1>5 DEF Wanting

LEMMA WantingFinishSchedule ==
    ASSUME Shape, Wanting, FinishSchedule
    PROVE  Wanting'
<1>1. /\ UNCHANGED <<running, scheduled, merged, out>> /\ pc' = "update" /\ idx' = 1
      /\ computed' = [id \in Id |-> computed[id] + scheduled[id]]
      /\ Range(running) \subseteq Id /\ computed \in [Id -> Int]
  BY RangesInId DEF FinishSchedule, Shape
<1>2. \A jd \in Range(running) : scheduled[jd] = 0 => computed'[jd] = computed[jd]
  BY <1>1
<1>3. \A jd \in Range(running) : scheduled[jd] = 0 /\ Short(jd) => Short(jd)'
  BY <1>1, <1>2 DEF Short, Total, DocLen
<1> QED BY <1>1, <1>3 DEF Wanting

(* The scheduler's view of a token more: who had tokens to compute still has.  *)
LEMMA ShortGrows ==
    ASSUME Shape, Counts, KeepRunning, NEW id \in Id
    PROVE  /\ Short(id) => Short(id)'
           /\ id = running[idx] /\ (scheduled[id] = 0 => Short(id)) => Short(id)'
<1>1. pc = "update" /\ UNCHANGED <<computed, merged, running>>
  BY DEF KeepRunning, queueVars
<1>2. PICK h : h = running[idx] /\ out' = IF Samples(h) THEN [out EXCEPT ![h] = @ + 1] ELSE out
  BY DEF KeepRunning
<1>3. out \in [Id -> Nat] /\ merged \in [Id -> BOOLEAN] /\ computed[id] \in Nat /\ scheduled[id] \in Nat
  BY CountTypes
<1>4. PICK m \in BOOLEAN, o \in Nat, c \in Nat : m = merged[id] /\ o = out[id] /\ c = computed[id]
  BY <1>3
<1>5. PICK N \in Nat : N = Total(id, m, o)
  BY TotalTokens
<1>6. Total(id, m, o + 1) = N + 1
  <2>1. PICK d \in Nat : d = DocLen(id, m)
    BY BehindFacts DEF DocLen, Behind
  <2>2. PICK l \in Nat : l = Len(PromptOf(id))
    BY DocsFacts
  <2> QED BY <1>4, <1>5, <2>1, <2>2 DEF Total
<1>7. CASE id = h /\ Samples(h)
  <2>1. out'[id] = o + 1 /\ merged'[id] = m /\ computed'[id] = c
    BY <1>1, <1>2, <1>3, <1>4, <1>7
  <2>2. c <= N
    <3>1. DoneUpto(id) <= Total(id, merged[id], out[id])
      BY DEF Counts, Amounts
    <3> QED BY <1>1, <1>4, <1>5, <3>1 DEF DoneUpto
  <2>3. Short(id)' <=> c < Total(id, m, o + 1)
    BY <2>1 DEF Short, Total, DocLen
  <2> QED BY <1>6, <2>2, <2>3
<1>8. CASE ~(id = h /\ Samples(h))
  <2>1. out'[id] = o /\ merged'[id] = m /\ computed'[id] = c
    BY <1>1, <1>2, <1>3, <1>4, <1>8
  <2>2. Short(id)' <=> Short(id)
    BY <1>4, <2>1 DEF Short, Total, DocLen
  <2>3. id = h => scheduled[id] = 0 \/ Short(id)
    <3>1. NumTokens(id) = Total(id, merged[id], out[id])
      BY <1>3, Totals
    <3>2. ASSUME id = h, ~(scheduled[id] > 0 /\ computed[id] >= NumTokens(id))
          PROVE  scheduled[id] = 0 \/ computed[id] < N
      BY <1>3, <1>4, <1>5, <3>1, <3>2
    <3>3. id = h => ~(scheduled[id] > 0 /\ computed[id] >= NumTokens(id))
      BY <1>8 DEF Samples
    <3> QED BY <1>4, <1>5, <3>2, <3>3 DEF Short
  <2> QED BY <1>2, <2>2, <2>3
<1> QED BY <1>7, <1>8

LEMMA WantingKeep ==
    ASSUME Shape, Counts, Wanting, KeepRunning
    PROVE  Wanting'
<1>1. /\ UNCHANGED <<running, scheduled, pc>> /\ pc = "update" /\ idx' = idx + 1
      /\ Range(running) \subseteq Id /\ idx \in 1..Len(running)
  <2>1. UNCHANGED <<running, scheduled, pc>> /\ pc = "update" /\ idx' = idx + 1
    BY DEF KeepRunning, queueVars
  <2>2. idx \in 1..Len(running)
    BY DEF KeepRunning, Shape
  <2> QED BY <2>1, <2>2, RangesInId
<1>2. \A i \in 1..Len(running) : running[i] \in Range(running)
  BY RangeHas DEF Shape
<1>3. \A id \in Range(running) : Short(id) => Short(id)'
  BY <1>1, ShortGrows
<1>4. ASSUME NEW i \in 1..Len(running), i < idx + 1 PROVE Short(running[i])'
  <2>1. PICK id \in Id : id = running[i] /\ id \in Range(running)
    BY <1>1, <1>2
  <2>2. Short(id)'
    <3>1. CASE i = idx
      BY <2>1, <3>1, ShortGrows DEF Wanting
    <3>2. CASE i # idx
      <4>1. i < idx
        BY <1>1, <1>4, <3>2
      <4> QED BY <1>1, <1>3, <2>1, <4>1 DEF Wanting
    <3> QED BY <3>1, <3>2
  <2>3. running'[i] = id
    BY <1>1, <2>1
  <2> QED BY <1>1, <2>1, <2>2, <2>3 DEF Short
<1> QED BY <1>1, <1>3, <1>4 DEF Wanting

LEMMA WantingFinishRequest ==
    ASSUME Shape, Places, Wanting, FinishRequest
    PROVE  Wanting'
<1>a. PICK s \in Seq(Id) : s = running
  BY DEF Shape
<1>b. PICK k \in 1..Len(s) : k = idx
  BY <1>a DEF FinishRequest, Shape
<1>1. s = running /\ k = idx
  BY <1>a, <1>b
<1>2. /\ running' = RemoveAt(s, k) /\ UNCHANGED <<computed, scheduled, merged, pc, idx>> /\ pc = "update"
      /\ Distinct(s) /\ out' = [out EXCEPT ![s[k]] = @ + 1] /\ out \in [Id -> Nat]
  BY <1>1 DEF FinishRequest, stepVars, Places, Apart, Shape
<1>c. Distinct(s)
  BY <1>2
<1>d. /\ Range(RemoveAt(s, k)) = Range(s) \ {s[k]} /\ Len(RemoveAt(s, k)) = Len(s) - 1
      /\ \A i \in 1..Len(s)-1 : RemoveAt(s, k)[i] = IF i < k THEN s[i] ELSE s[i + 1]
  BY <1>c, RemovedDistinct
<1>3. /\ Range(RemoveAt(s, k)) = Range(s) \ {s[k]} /\ Len(RemoveAt(s, k)) = Len(s) - 1
      /\ \A i \in 1..Len(s)-1 : i < k => RemoveAt(s, k)[i] = s[i]
  BY <1>d
<1>4. \A i \in 1..Len(running') : i < idx => running'[i] = running[i] /\ i \in 1..Len(running)
  BY <1>1, <1>2, <1>3
<1>5. \A id \in Range(running') : id \in Range(running) /\ id # s[k] /\ id \in Id
  BY <1>1, <1>2, <1>3, RangesInId
<1>6. \A id \in Range(running') : Short(id) => Short(id)'
  BY <1>2, <1>5 DEF Short, Total, DocLen
<1>7. \A i \in 1..Len(running') : running'[i] \in Range(running')
  <2>1. PICK r \in Seq(Id) : r = RemoveAt(s, k)
    BY <1>b, RemovedDistinct, <1>2
  <2> QED BY <1>2, <2>1, RangeHas
<1> QED BY <1>2, <1>4, <1>5, <1>6, <1>7 DEF Wanting

LEMMA WantingEnd ==
    ASSUME Shape, Wanting, EndUpdate
    PROVE  Wanting'
<1>1. /\ UNCHANGED <<running, computed, merged, out>> /\ pc' = "idle" /\ pc = "update" /\ ~(idx <= Len(running))
      /\ running \in Seq(Id)
  BY DEF EndUpdate, queueVars, reqVars, Shape
<1>2. ASSUME NEW jd \in Range(running) PROVE Short(jd)'
  <2>1. PICK i \in 1..Len(running) : running[i] = jd
    BY <1>1, RangeHas
  <2>2. i < idx
    BY <1>1 DEF Shape
  <2>3. Short(jd)
    BY <1>1, <2>1, <2>2 DEF Wanting
  <2> QED BY <1>1, <2>3 DEF Short, Total, DocLen
<1> QED BY <1>1, <1>2 DEF Wanting

LEMMA WantingAbort ==
    ASSUME Shape, Wanting, NEW r \in Request, Abort(r)
    PROVE  Wanting'
<1>1. UNCHANGED <<computed, scheduled, merged, out, pc>> /\ pc = "idle" /\ running' = Only(running, Id \ {User(r)})
  BY DEF Abort, stepVars
<1>2. Range(running') \subseteq Range(running)
  BY <1>1, OnlyKeeps DEF Shape
<1>3. \A id \in Range(running') : Short(id) => Short(id)'
  BY <1>1 DEF Short, Total, DocLen
<1> QED BY <1>1, <1>2, <1>3 DEF Wanting

LEMMA WantingStep ==
    ASSUME Shape, Places, Counts, NotAskedTwice, Wanting, Lacking, [Next]_vars
    PROVE  Wanting'
<1>1. CASE RunningSchedule
  BY <1>1, WantingRun
<1>2. CASE AttemptSucceeds
  BY <1>2, WantingAttempt
<1>3. CASE AttemptFails
  <2>1. PICK id \in Id : Attempts(id) /\ merged' = [merged EXCEPT ![id] = HasDocs(id)]
    BY <1>3 DEF AttemptFails
  <2>2. UNCHANGED <<running, computed, scheduled, out, idx>> /\ pc' = "finish"
    BY <1>3 DEF AttemptFails, queueVars
  <2>3. id \in Range(waiting)
    <3>1. waiting # <<>> /\ id = Head(waiting)
      BY <2>1 DEF Attempts, AtLookup, InWaitingLoop
    <3> QED BY <3>1, WaitingHead
  <2>4. Range(running) \subseteq Id /\ id \notin Range(running) /\ merged \in [Id -> BOOLEAN]
    BY <2>3, RangesInId DEF Places, Apart, Shape
  <2>5. \A jd \in Range(running) : merged'[jd] = merged[jd]
    BY <2>1, <2>4
  <2> QED BY <2>2, <2>5, WantingSame
<1>4. CASE RunningPreempt
  BY <1>4, WantingPreempt
<1>5. CASE SpawnDocuments
  BY <1>5, WantingSpawn
<1>6. CASE FinishSchedule \/ EndUpdate
  BY <1>6, WantingFinishSchedule, WantingEnd
<1>7. CASE KeepRunning
  BY <1>7, WantingKeep
<1>8. CASE FinishRequest
  BY <1>8, WantingFinishRequest
<1>9. ASSUME NEW r \in Request, Abort(r) PROVE Wanting'
  BY <1>9, WantingAbort
<1>10. ASSUME \/ \E r \in Request : AddRequest(r) \/ CompileGrammar(r)
              \/ SkipForGrammar \/ DropCachedDocument \/ EndRunning \/ UNCHANGED vars
       PROVE  Wanting'
  <2>1. UNCHANGED <<running, computed, scheduled, out, idx, merged>> /\ (pc' = "update" => pc = "update")
    BY <1>10 DEF AddRequest, CompileGrammar, SkipForGrammar, DropCachedDocument, EndRunning,
                 vars, queueVars, reqVars, stepVars
  <2> QED BY <2>1, WantingSame
<1>11. CASE StartSchedule
  <2>1. UNCHANGED <<running, computed, scheduled, out, merged>> /\ pc' = "running"
    BY <1>11 DEF StartSchedule, queueVars, reqVars
  <2>2. \A id \in Range(running) : Short(id) => Short(id)'
    BY <2>1 DEF Short, Total, DocLen
  <2> QED BY <2>1, <2>2 DEF Wanting
<1> QED BY <1>1, <1>2, <1>3, <1>4, <1>5, <1>6, <1>7, <1>8, <1>9, <1>10, <1>11 DEF Next, Schedule, Update, Quiescent
-----------------------------------------------------------------------------
(* Finitely many requests: the tokens of a step can be added up.               *)
FiniteRequests == IsFiniteSet(Request)

LEMMA FiniteImage ==
    ASSUME NEW S, IsFiniteSet(S), NEW f, DOMAIN f = S
    PROVE  IsFiniteSet({f[x] : x \in S})
<1> DEFINE T == {f[x] : x \in S}
           M == [x \in S |-> f[x]]
<1>1. M \in [S -> T]
  OBVIOUS
<1>2. \A t \in T : \E s \in S : M[s] = t
  OBVIOUS
<1>3. M \in Surjection(S, T)
  BY <1>1, <1>2 DEF Surjection
<1> HIDE DEF M, T
<1>4. IsFiniteSet(T)
  BY <1>3, FS_Surjection
<1> QED BY <1>4 DEF T

LEMMA FiniteIds ==
    ASSUME FiniteRequests
    PROVE  IsFiniteSet(Id)
<1>1. IsFiniteSet(Users)
  <2>1. PICK f : f = [r \in Request |-> User(r)]
    OBVIOUS
  <2>2. IsFiniteSet({f[r] : r \in Request})
    BY <2>1, FiniteImage DEF FiniteRequests
  <2>3. Users = {f[r] : r \in Request}
    BY <2>1 DEF Users
  <2> QED BY <2>2, <2>3
<1>2. PICK g : g = [r \in Request |-> {DocId(User(r), d) : d \in DOMAIN Docs[r]}]
  OBVIOUS
<1>3. ASSUME NEW r \in Request PROVE IsFiniteSet(g[r])
  <2>1. PICK n \in Nat : DOMAIN Docs[r] = 1..n
    BY SchedulerAssumption
  <2>2. IsFiniteSet(1..n)
    BY FS_Interval
  <2>3. PICK f : f = [d \in 1..n |-> DocId(User(r), d)]
    OBVIOUS
  <2>4. IsFiniteSet({f[d] : d \in 1..n})
    BY <2>2, <2>3, FiniteImage
  <2>5. g[r] = {f[d] : d \in 1..n}
    BY <1>2, <2>1, <2>3
  <2> QED BY <2>4, <2>5
<1>4. IsFiniteSet({g[r] : r \in Request})
  <2>1. IsFiniteSet(Request) /\ DOMAIN g = Request
    BY <1>2 DEF FiniteRequests
  <2> QED BY <2>1, FiniteImage
<1>5. IsFiniteSet(UNION {g[r] : r \in Request})
  BY <1>3, <1>4, FS_UNION
<1>6. Id = Users \cup UNION {g[r] : r \in Request}
  BY <1>2 DEF Id
<1> QED BY <1>1, <1>5, <1>6, FS_Union

-----------------------------------------------------------------------------
(* The tokens granted are what is gone of the budget, and no request is taken   *)
(* in beyond max_num_running_reqs.                                             *)
Spent == pc \in {"running", "waiting", "finish"} => SumFunction(scheduled) = TokenBudget - budget
Bounded == Len(running) <= MaxRunning

LEMMA SpentAdds ==
    ASSUME FiniteRequests, Spent, pc \in {"running", "waiting"}, scheduled \in [Id -> Int],
           budget \in Int, NEW id \in Id, scheduled[id] = 0, NEW n \in Int,
           scheduled' = [scheduled EXCEPT ![id] = n], budget' = budget - n
    PROVE  Spent'
<1>1. IsFiniteSet(Id)
  BY FiniteIds
<1>2. PICK e \in [Id -> Int] : e = [scheduled EXCEPT ![id] = n]
  OBVIOUS
<1>3. PICK f \in [Id -> Int] : f = scheduled
  OBVIOUS
<1>4. SumFunction(f) \in Int /\ SumFunction(e) = SumFunction(f) + n - f[id]
  <2>1. Changes(e, f, Id, id, n)
    BY <1>1, <1>2, <1>3 DEF Changes
  <2>2. SumsApart(e, f, id, n)
    BY <2>1, SumOfChange
  <2> QED BY <2>2 DEF SumsApart
<1>5. SumFunction(f) = TokenBudget - budget
  BY <1>3 DEF Spent
<1>6. SumFunction(scheduled)' = SumFunction(e)
  BY <1>2
<1> QED BY <1>3, <1>4, <1>5, <1>6, SchedulerAssumption DEF Spent

LEMMA SpentStep ==
    ASSUME FiniteRequests, Shape, Places, Counts, Spent, Bounded, [Next]_vars
    PROVE  Spent' /\ Bounded'
<1>1. scheduled \in [Id -> Int] /\ budget \in Int /\ MaxRunning \in Nat /\ running \in Seq(Id)
  BY SchedulerAssumption DEF Shape
<1>2. CASE RunningSchedule
  <2>1. PICK id \in Id, from \in Nat, upto \in Nat : Ran(id, from, upto)
    BY <1>2, RunStep
  <2>2. PICK n \in Int : n = upto - from
    OBVIOUS
  <2>3. /\ pc = "running" /\ scheduled[id] = 0 /\ scheduled' = [scheduled EXCEPT ![id] = n]
        /\ budget' = budget - n /\ running' = running
    BY <2>1, <2>2 DEF Ran, queueVars
  <2>4. Spent'
    BY <1>1, <2>3, SpentAdds
  <2> QED BY <2>3, <2>4 DEF Bounded
<1>3. CASE AttemptSucceeds
  <2>1. PICK id \in Id, hits \in Seq(Block), from \in Nat, upto \in Nat : Tried(id, hits, from, upto)
    BY <1>3, AttemptStep
  <2>2. PICK n \in Int : n = upto - from
    OBVIOUS
  <2>3. /\ pc = "waiting" /\ scheduled[id] = 0 /\ scheduled' = [scheduled EXCEPT ![id] = n]
        /\ budget' = budget - n /\ running' = Append(running, id) /\ Len(running) # MaxRunning
    BY <2>1, <2>2 DEF Tried, Attempts, AtLookup, InWaitingLoop
  <2>4. Spent'
    BY <1>1, <2>3, SpentAdds
  <2>5. Len(running') = Len(running) + 1
    BY <1>1, <2>3
  <2> QED BY <1>1, <2>3, <2>4, <2>5 DEF Bounded
<1>4. CASE StartSchedule
  <2>1. pc = "idle" /\ UNCHANGED <<running, scheduled>> /\ budget' = TokenBudget
    BY <1>4 DEF StartSchedule, queueVars
  <2>2. \A id \in Id : scheduled[id] = 0
    BY <2>1, CountTypes DEF Counts, Marks
  <2>3. SumFunction(scheduled) = 0
    BY <1>1, <2>2, FiniteIds, SumOfZeros
  <2> QED BY <2>1, <2>3, SchedulerAssumption DEF Spent, Bounded
<1>5. CASE RunningPreempt
  <2>1. running # <<>> /\ running' = Front(running) /\ pc = "running" /\ UNCHANGED <<budget, scheduled>>
    BY <1>5 DEF RunningPreempt, InRunningLoop, Shape
  <2>2. Len(running') = Len(running) - 1
    BY <1>1, <2>1, FrontParts
  <2> QED BY <1>1, <2>1, <2>2 DEF Spent, Bounded
<1>6. CASE FinishSchedule \/ EndUpdate
  <2>1. running' = running /\ pc' \in {"update", "idle"}
    BY <1>6 DEF FinishSchedule, EndUpdate, queueVars
  <2> QED BY <2>1 DEF Spent, Bounded
<1>7. CASE KeepRunning
  <2>1. running' = running /\ pc' = "update"
    BY <1>7 DEF KeepRunning, queueVars
  <2> QED BY <2>1 DEF Spent, Bounded
<1>8. CASE FinishRequest
  <2>1. PICK s \in Seq(Id) : s = running
    BY <1>1
  <2>2. PICK k \in 1..Len(s) : k = idx
    BY <1>8, <2>1 DEF FinishRequest, Shape
  <2>3. running' = RemoveAt(s, k) /\ pc' = "update"
    BY <1>8, <2>1, <2>2 DEF FinishRequest, stepVars
  <2>4. Distinct(s)
    BY <2>1 DEF Places, Apart
  <2>5. Len(RemoveAt(s, k)) = Len(s) - 1
    BY <2>4, RemovedDistinct
  <2>6. Len(running') <= MaxRunning
    BY <1>1, <2>1, <2>3, <2>5 DEF Bounded
  <2> QED BY <2>3, <2>6 DEF Spent, Bounded
<1>9. ASSUME NEW r \in Request, Abort(r) PROVE Spent' /\ Bounded'
  <2>1. pc' = "idle" /\ running' = Only(running, Id \ {User(r)})
    BY <1>9 DEF Abort, stepVars
  <2>2. PICK s \in Seq(Id), t \in Seq(Id) : /\ s = running /\ t = running' /\ Distinct(s) /\ Distinct(t)
                                           /\ Range(t) \subseteq Range(s)
    BY <1>1, <2>1, OnlyKeeps DEF Places, Apart
  <2>3. /\ IsFiniteSet(Range(s)) /\ Cardinality(Range(s)) = Len(s)
        /\ Cardinality(Range(t)) = Len(t)
    BY <2>2, DistinctCount
  <2>4. Len(t) <= Len(s)
    BY <2>2, <2>3, FS_Subset
  <2>5. Len(running') <= MaxRunning
    BY <1>1, <2>2, <2>4 DEF Bounded
  <2> QED BY <2>1, <2>5 DEF Spent, Bounded
<1>10. ASSUME \/ \E r \in Request : AddRequest(r) \/ CompileGrammar(r)
              \/ SkipForGrammar \/ SpawnDocuments \/ DropCachedDocument \/ AttemptFails
              \/ EndRunning \/ UNCHANGED vars
       PROVE  Spent' /\ Bounded'
  <2>1. /\ UNCHANGED <<running, budget, scheduled>>
        /\ pc' = pc \/ pc \in {"running", "waiting"}
    BY <1>10 DEF AddRequest, CompileGrammar, SkipForGrammar, SpawnDocuments, DropCachedDocument,
                 AttemptFails, Attempts, AtLookup, InWaitingLoop, EndRunning, vars, queueVars, reqVars, stepVars
  <2> QED BY <2>1 DEF Spent, Bounded
<1> QED BY <1>2, <1>3, <1>4, <1>5, <1>6, <1>7, <1>8, <1>9, <1>10 DEF Next, Schedule, Update, Quiescent

-----------------------------------------------------------------------------
LEMMA AssertionsHere ==
    ASSUME HitsWhole, QueriesFillBlock, Cores, Spelled, Lacking, Wanting, Spent, Bounded
    PROVE  AssertionsHold
<1>1. Shape /\ Places /\ Counts /\ Writes /\ CacheTypes
  BY DEF Cores, Writes
<1>2. InRunningLoop => NumTokens(RunningHead) > computed[RunningHead]
  <2> SUFFICES ASSUME InRunningLoop PROVE NumTokens(RunningHead) > computed[RunningHead]
    OBVIOUS
  <2>1. pc = "running" /\ idx <= Len(running)
    BY DEF InRunningLoop
  <2>2. PICK id \in Id : id = RunningHead /\ id = running[idx] /\ idx \in 1..Len(running)
    BY <1>1, <2>1, HeadFacts DEF RunningHead
  <2>3. id \in Range(running)
    BY <1>1, <2>2, RangeHas DEF Shape
  <2>4. scheduled[id] = 0
    BY <1>1, <2>1, <2>2 DEF Counts, Marks
  <2>5. computed[id] < Total(id, merged[id], out[id])
    BY <2>3, <2>4 DEF Wanting, Short
  <2>6. NumTokens(id) = Total(id, merged[id], out[id]) /\ NumTokens(id) \in Nat /\ computed[id] \in Nat
    BY <1>1, Totals, CountTypes DEF Shape
  <2> QED BY <2>2, <2>5, <2>6
<1>3. SomethingToSchedule
  BY <1>1, AlwaysSomething
<1>4. ASSUME NEW id \in Id, Attempts(id)
      PROVE  /\ Cleared(id) \in {"WAITING", "PREEMPTED"}
             /\ table[id] = <<>>
             /\ merged[id] => AttemptFrom(id) >= DocLen(id, TRUE)
  <2>1. AtLookup(id) /\ waiting # <<>> /\ id = Head(waiting)
    BY <1>4 DEF Attempts, AtLookup, InWaitingLoop
  <2>2. id \in Range(waiting)
    BY <1>1, <2>1, WaitingHead
  <2>3. status[id] \in {"WAITING", "WAITING_FOR_FSM", "PREEMPTED"} /\ table[id] = <<>>
    BY <1>1, <2>2 DEF Places, Waits, Apart
  <2>4. PICK hs \in Seq(Key) : hs = AttemptHashes(id)
    BY <1>1, <2>1, AttemptSpells
  <2>5. PICK n \in Nat : n = Len(AttemptHit(id)) /\ AttemptFrom(id) = n * BlockSize
    <3>1. merged[id] => HasDocs(id)
      BY <1>1 DEF Counts, Amounts
    <3> QED BY <1>1, <3>1, AttemptBound
  <2>6. Behind(id) <= n * BlockSize
    BY <1>1, <2>1, <2>4, <2>5, AttemptHitStarts
  <2>7. DocLen(id, TRUE) = Behind(id) /\ Behind(id) \in Nat
    BY BehindFacts
  <2>8. PICK p \in Nat : p = n * BlockSize
    BY Multiple
  <2>9. AttemptFrom(id) >= DocLen(id, TRUE)
    BY <2>5, <2>6, <2>7, <2>8
  <2> QED BY <2>3, <2>9 DEF Cleared
<1>5. ASSUME pc = "finish"
      PROVE  /\ SumFunction(scheduled) <= TokenBudget
             /\ Len(running) <= MaxRunning
             /\ Cardinality({id \in Id : scheduled[id] > 0}) <= Len(running)
  <2>1. SumFunction(scheduled) <= TokenBudget
    BY <1>1, <1>5, CountTypes DEF Spent
  <2>2. PICK s \in Seq(Id) : s = running
    BY <1>1 DEF Shape
  <2>3. IsFiniteSet(Range(s)) /\ Cardinality(Range(s)) = Len(s)
    BY <1>1, <2>2, DistinctCount DEF Places, Apart
  <2>4. PICK S : S = {id \in Id : scheduled[id] > 0}
    OBVIOUS
  <2>5. S \in SUBSET Range(s)
    BY <1>1, <1>5, <2>2, <2>4 DEF Counts, Marks
  <2>6. Cardinality(S) <= Len(s)
    BY <2>3, <2>5, FS_Subset
  <2> QED BY <2>1, <2>2, <2>4, <2>6 DEF Bounded
<1> QED BY <1>2, <1>3, <1>4, <1>5 DEF AssertionsHold

(* scheduler.py:542, `assert num_new_tokens > 0`: whatever the cache holds, an   *)
(* attempt has something to compute, as long as no query is empty.             *)
THEOREM SchedulerAdvances ==
    ASSUME DocumentsUnguided, DocumentsUncut, QueriesNonEmpty
    PROVE  Spec => []SomethingToSchedule
<1>1. Cores => SomethingToSchedule
  BY AttemptsLack, AlwaysSomething DEF Cores
<1> QED BY <1>1, CoresAlways, PTL

(* The assertions of schedule(): who is tried has tokens left to compute and     *)
(* its documents whole in the cache, the token budget is not exceeded, however   *)
(* it is shared out, and no more than max_num_running_reqs run.                *)
THEOREM SchedulerAssertionsHold ==
    ASSUME DocumentsUnguided, DocumentsUncut, HitsWhole, QueriesFillBlock, FiniteRequests
    PROVE  Spec => []AssertionsHold
<1>1. QueriesNonEmpty
  BY SchedulerAssumption DEF QueriesFillBlock, QueriesNonEmpty
<1>2. Init => Wanting /\ Spent /\ Bounded
  <2>1. Init => Spent /\ Bounded
    BY SchedulerAssumption DEF Init, Spent, Bounded
  <2> QED BY <2>1, WantingInit
<1>3. Cores /\ Orders /\ Wanting /\ Spent /\ Bounded /\ [Next]_vars => Wanting' /\ Spent' /\ Bounded'
  <2> SUFFICES ASSUME Cores, Orders, Wanting, Spent, Bounded, [Next]_vars
               PROVE  Wanting' /\ Spent' /\ Bounded'
    OBVIOUS
  <2>1. Shape /\ Places /\ Counts /\ NotAskedTwice
    BY AskedOnce DEF Cores, Orders
  <2>2. Lacking
    BY <1>1, <2>1, AttemptsLack
  <2> QED BY <2>1, <2>2, WantingStep, SpentStep
<1>4. Cores /\ Spelled /\ Wanting /\ Spent /\ Bounded => AssertionsHold
  <2> SUFFICES ASSUME Cores, Spelled, Wanting, Spent, Bounded PROVE AssertionsHold
    OBVIOUS
  <2>1. Lacking
    BY <1>1, AttemptsLack DEF Cores
  <2> QED BY <2>1, AssertionsHere
<1> QED BY <1>2, <1>3, <1>4, TruthAlways, PTL DEF Spec
=============================================================================
