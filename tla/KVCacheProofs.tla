--------------------------- MODULE KVCacheProofs ---------------------------
(***************************************************************************)
(* The KV cache keeps its promises for any number of requests, blocks and  *)
(* keys.  CacheSound, TableSound and WriterExclusive are inductive only    *)
(* together: a hit is right because the cache is sound; the cache stays    *)
(* sound because a request writes to nobody else's blocks; and it writes   *)
(* to nobody else's because a block shared by two tables is registered.    *)
(***************************************************************************)
EXTENDS KVCache, TLAPS

(* The inductive invariant of the KV cache.                                   *)
IInv == TypeOK /\ CacheSound /\ TableSound /\ WriterExclusive

(* The empty cache satisfies the invariant.                                   *)
LEMMA InitIInv == Init => IInv
<1> SUFFICES ASSUME Init PROVE IInv
    OBVIOUS
<1>1. TypeOK
    BY DEF Init, TypeOK
<1>2. CacheSound
    BY DEF Init, CacheSound
<1>3. TableSound
    BY DEF Init, TableSound
<1>4. WriterExclusive
    BY DEF Init, WriterExclusive
<1> QED
    BY <1>1, <1>2, <1>3, <1>4 DEF IInv

(* Giving blocks back, or hashing a request that holds none, keeps it.        *)
LEMMA RehashIInv == ASSUME IInv, NEW id \in Id, Rehash(id) PROVE IInv'
<1> USE DEF IInv, Rehash, OnlyHashes
<1>1. TypeOK'
    BY DEF TypeOK
<1>2. CacheSound'
    BY DEF CacheSound
<1>3. TableSound'
  <2> SUFFICES ASSUME NEW who \in Id, NEW i \in 1..Len(table[who]),
                      blockHash[table[who][i]] # NoKey
               PROVE  i <= Len(hashes'[who]) /\ blockHash[table[who][i]] = hashes'[who][i]
      BY DEF TableSound
  <2>1. who # id
      OBVIOUS
  <2>2. hashes'[who] = hashes[who]
      BY <2>1 DEF TypeOK
  <2> QED
      BY <2>2 DEF TableSound
<1>4. WriterExclusive'
    BY DEF WriterExclusive
<1> QED
    BY <1>1, <1>2, <1>3, <1>4

LEMMA ReleaseIInv ==
    ASSUME IInv, NEW id \in Id, Free(id) \/ Finish(id) PROVE IInv'
<1> USE DEF IInv
<1>0. /\ table' = [table EXCEPT ![id] = <<>>]
      /\ hashes' = hashes \/ hashes' = [hashes EXCEPT ![id] = <<>>]
      /\ blockHash' = blockHash /\ content' = content
    BY DEF Free, Finish, OnlyTable, OnlyHashes
<1>1. TypeOK'
  <2>1. <<>> \in Seq(Block) /\ <<>> \in Seq(Key)
      OBVIOUS
  <2> QED
      BY <1>0, <2>1 DEF TypeOK
<1>2. /\ table'[id] = <<>>
      /\ \A who \in Id \ {id} : table'[who] = table[who] /\ hashes'[who] = hashes[who]
    BY <1>0 DEF TypeOK
<1>3. \A who \in Id : \A i \in 1..Len(table'[who]) : who # id
    BY <1>2
<1>4. CacheSound'
    BY <1>0 DEF CacheSound
<1>5. TableSound'
    BY <1>0, <1>2, <1>3 DEF TableSound
<1>6. WriterExclusive'
    BY <1>0, <1>2, <1>3 DEF WriterExclusive
<1> QED
    BY <1>1, <1>4, <1>5, <1>6

(* Taking cached and fresh blocks, writing and registering them, keeps it.    *)
LEMMA AllocateIInv == ASSUME IInv, NEW id \in Id, Allocate(id) PROVE IInv'
<1> DEFINE t == table'[id]
           h == hashes'[id]
           old == Len(table[id])
<1>1. /\ t \in Seq(Block) /\ h \in Seq(Key)
      /\ OnlyTable(id, t) /\ OnlyHashes(id, h)
      /\ Extends(table[id], t)
      /\ table[id] # <<>> => Extends(hashes[id], h)
      /\ blockHash' \in [Block -> Key \cup {NoKey}]
      /\ DOMAIN content' = Block
    BY DEF Allocate
<1>2. PICK hit \in old..Len(t) :
          /\ hit > old => table[id] = <<>> /\ HitBlocks(t, h, hit)
          /\ FreshBlocks(id, t, hit)
          /\ WrittenAt(t, Unfinished(id) \cup {t[i] : i \in hit+1..Len(t)}, h)
    BY DEF Allocate
<1> DEFINE fresh == {t[i] : i \in hit+1..Len(t)}
           W == Unfinished(id) \cup fresh
<1>3. TypeOK'
    BY <1>1 DEF TypeOK, IInv, OnlyTable, OnlyHashes
<1>4. /\ table \in [Id -> Seq(Block)] /\ table' \in [Id -> Seq(Block)]
      /\ hashes \in [Id -> Seq(Key)]
      /\ blockHash \in [Block -> Key \cup {NoKey}]
      /\ old \in Nat /\ Len(t) \in Nat /\ hit \in Nat /\ old <= hit
      /\ DOMAIN table[id] = 1..old
    BY <1>2, <1>3 DEF TypeOK, IInv
<1>5. \A other \in Id \ {id} : table'[other] = table[other]
                               /\ hashes'[other] = hashes[other]
    BY <1>1, <1>4 DEF OnlyTable, OnlyHashes
<1>6. old <= Len(t) /\ \A i \in 1..old : t[i] = table[id][i]
    BY <1>1 DEF Extends
<1>7. \A b \in W : \E i \in 1..Len(t) : t[i] = b
  <2>1. ASSUME NEW b \in Unfinished(id) PROVE \E i \in 1..Len(t) : t[i] = b
    <3>1. PICK i \in 1..old : table[id][i] = b
        BY <1>4 DEF Unfinished, BlocksOf
    <3>2. i \in 1..Len(t) /\ t[i] = b
        BY <3>1, <1>4, <1>6
    <3> QED
        BY <3>2
  <2> QED
      BY <2>1, <1>2, <1>4
<1>8. \A b \in Block \ W : blockHash'[b] = blockHash[b] /\ content'[b] = content[b]
    BY <1>2 DEF WrittenAt
<1>9. \A i \in 1..Len(t) : t[i] \in W =>
          \/ blockHash'[t[i]] = NoKey
          \/ i <= Len(h) /\ blockHash'[t[i]] = h[i] /\ content'[t[i]] = h[i]
    BY <1>2 DEF WrittenAt
<1>10. \A i \in 1..hit : i > old => blockHash[t[i]] = h[i] /\ i <= Len(h) /\ h[i] # NoKey
  <2> SUFFICES ASSUME NEW i \in 1..hit, i > old
               PROVE  blockHash[t[i]] = h[i] /\ i <= Len(h) /\ h[i] # NoKey
      OBVIOUS
  <2>1. HitBlocks(t, h, hit)
      BY <1>2, <1>4
  <2>2. i <= Len(h) /\ blockHash[t[i]] = h[i]
      BY <2>1 DEF HitBlocks
  <2>3. h[i] \in Key
      BY <2>2, <1>1, <1>4
  <2> QED
      BY <2>2, <2>3, NoKeyAssumption
(* A block other requests hold, or id holds at another position, is not written. *)
<1>11. ASSUME NEW other \in Id \ {id}, NEW i \in 1..Len(table[other])
       PROVE  table[other][i] \notin W
  <2>1. table[other][i] \in Held
      BY DEF Held, BlocksOf
  <2>2. table[other][i] \notin fresh
      BY <2>1, <1>2, <1>4 DEF FreshBlocks
  <2>3. ASSUME table[other][i] \in Unfinished(id) PROVE FALSE
    <3>1. PICK j \in 1..Len(table[id]) : table[id][j] = table[other][i]
        BY <2>3, <1>4 DEF Unfinished, BlocksOf
    <3>2. blockHash[table[other][i]] # NoKey
        BY <3>1 DEF IInv, WriterExclusive
    <3> QED
        BY <2>3, <3>2 DEF Unfinished
  <2> QED
      BY <2>2, <2>3
<1>12. CacheSound'
  <2> SUFFICES ASSUME NEW b \in Block, blockHash'[b] # NoKey
               PROVE  content'[b] = blockHash'[b]
      BY DEF CacheSound
  <2>1. CASE b \in W
      BY <2>1, <1>7, <1>9
  <2>2. CASE b \notin W
      BY <2>2, <1>8 DEF IInv, CacheSound
  <2> QED
      BY <2>1, <2>2
<1>13. TableSound'
  <2> SUFFICES ASSUME NEW who \in Id, NEW i \in 1..Len(table'[who]),
                      blockHash'[table'[who][i]] # NoKey
               PROVE  i <= Len(hashes'[who]) /\ blockHash'[table'[who][i]] = hashes'[who][i]
      BY DEF TableSound
  <2>0. table'[who][i] \in Block
      BY <1>4
  <2>1. CASE who # id
    <3>1. table'[who] = table[who] /\ hashes'[who] = hashes[who] /\ table[who][i] \notin W
        BY <2>1, <1>5, <1>11
    <3> QED
        BY <3>1, <2>0, <1>8 DEF IInv, TableSound
  <2>2. CASE who = id /\ t[i] \in W
      BY <2>2, <1>9
  <2>3. CASE who = id /\ t[i] \notin W /\ i <= old
    <3>1. /\ t[i] = table[id][i] /\ blockHash'[t[i]] = blockHash[t[i]]
          /\ i \in 1..old /\ blockHash[table[id][i]] # NoKey
        BY <2>3, <2>0, <1>6, <1>8, <1>4
    <3>2. i <= Len(hashes[id]) /\ blockHash[t[i]] = hashes[id][i]
        BY <3>1 DEF IInv, TableSound
    <3>3. Extends(hashes[id], h)
        BY <3>1, <1>1, <1>4
    <3>4. i <= Len(h) /\ h[i] = hashes[id][i]
        BY <3>1, <3>2, <3>3, <1>1, <1>4 DEF Extends
    <3> QED
        BY <2>3, <3>1, <3>2, <3>4
  <2>4. CASE who = id /\ t[i] \notin W /\ i > old
    <3>1. i <= hit
        BY <2>4, <1>4
    <3>2. blockHash'[t[i]] = blockHash[t[i]]
        BY <2>4, <2>0, <1>8
    <3> QED
        BY <2>4, <3>1, <3>2, <1>10, <1>4
  <2> QED
      BY <2>1, <2>2, <2>3, <2>4, <1>4
<1>14. WriterExclusive'
  <2> SUFFICES ASSUME NEW id1 \in Id, NEW id2 \in Id,
                      NEW i \in 1..Len(table'[id1]), NEW j \in 1..Len(table'[id2]),
                      table'[id1][i] = table'[id2][j], <<id1, i>> # <<id2, j>>
               PROVE  blockHash'[table'[id1][i]] # NoKey
      BY DEF WriterExclusive
  <2> DEFINE b == table'[id1][i]
  <2>0. b \in Block
      BY <1>4
  (* neither position is a fresh one *)
  <2>1. ~(id1 = id /\ i > hit)
    <3> SUFFICES ASSUME id1 = id, i > hit PROVE FALSE
        OBVIOUS
    <3>1. CASE id2 = id
        BY <3>1, <1>2, <1>4 DEF FreshBlocks
    <3>2. CASE id2 # id
        BY <3>2, <1>2, <1>4, <1>5 DEF FreshBlocks, Held, BlocksOf
    <3> QED
        BY <3>1, <3>2
  <2>2. ~(id2 = id /\ j > hit)
    <3> SUFFICES ASSUME id2 = id, j > hit PROVE FALSE
        OBVIOUS
    <3>1. CASE id1 = id
        BY <3>1, <1>2, <1>4 DEF FreshBlocks
    <3>2. CASE id1 # id
        BY <3>2, <1>2, <1>4, <1>5 DEF FreshBlocks, Held, BlocksOf
    <3> QED
        BY <3>1, <3>2
  <2>3. b \notin fresh
    <3> SUFFICES ASSUME NEW k \in hit+1..Len(t), t[k] = b PROVE FALSE
        OBVIOUS
    <3>1. CASE id1 = id
        BY <3>1, <2>1, <1>2, <1>4 DEF FreshBlocks
    <3>2. CASE id1 # id
        BY <3>2, <1>2, <1>4, <1>5 DEF FreshBlocks, Held, BlocksOf
    <3> QED
        BY <3>1, <3>2
  <2>4. blockHash[b] # NoKey
    <3>0. i \in Nat /\ i >= 1 /\ j \in Nat /\ j >= 1
      <4>1. Len(table'[id1]) \in Nat /\ Len(table'[id2]) \in Nat
          BY <1>4
      <4> QED
          BY <4>1
    <3>1. CASE id1 = id /\ i > old
      <4>1. i \in 1..hit /\ b = t[i]
          BY <3>0, <3>1, <2>1, <1>4
      <4> QED
          BY <3>1, <4>1, <1>10
    <3>2. CASE id2 = id /\ j > old
      <4>1. j \in 1..hit /\ b = t[j]
          BY <3>0, <3>2, <2>2, <1>4
      <4> QED
          BY <3>2, <4>1, <1>10
    <3>3. CASE ~(id1 = id /\ i > old) /\ ~(id2 = id /\ j > old)
      <4>0. \A k \in Nat : k >= 1 /\ k <= old => k \in 1..old /\ t[k] = table[id][k]
        <5>1. old \in Nat
            BY <1>4
        <5> QED
            BY <5>1, <1>6
      <4>1. i \in 1..Len(table[id1]) /\ table[id1][i] = b
        <5>1. CASE id1 = id
          <6>1. i <= old
              BY <5>1, <3>0, <3>3, <1>4
          <6> QED
              BY <5>1, <6>1, <3>0, <4>0
        <5>2. CASE id1 # id
            BY <5>2, <1>5
        <5> QED
            BY <5>1, <5>2
      <4>2. j \in 1..Len(table[id2]) /\ table[id2][j] = b
        <5>1. CASE id2 = id
          <6>1. j <= old
              BY <5>1, <3>0, <3>3, <1>4
          <6> QED
              BY <5>1, <6>1, <3>0, <4>0
        <5>2. CASE id2 # id
            BY <5>2, <1>5
        <5> QED
            BY <5>1, <5>2
      <4> QED
          BY <4>1, <4>2 DEF IInv, WriterExclusive
    <3> QED
        BY <3>1, <3>2, <3>3
  <2>5. b \notin W
      BY <2>3, <2>4 DEF Unfinished
  <2> QED
      BY <2>0, <2>4, <2>5, <1>8
<1> QED
    BY <1>3, <1>12, <1>13, <1>14 DEF IInv

(* Every step keeps the invariant.                                            *)
LEMMA NextIInv == IInv /\ [Next]_vars => IInv'
<1> SUFFICES ASSUME IInv, [Next]_vars PROVE IInv'
    OBVIOUS
<1>1. CASE UNCHANGED vars
  <2>1. table' = table /\ hashes' = hashes /\ blockHash' = blockHash /\ content' = content
      BY <1>1 DEF vars
  <2>2. TypeOK'
      BY <2>1 DEF IInv, TypeOK
  <2>3. CacheSound'
      BY <2>1 DEF IInv, CacheSound
  <2>4. TableSound'
      BY <2>1 DEF IInv, TableSound
  <2>5. WriterExclusive'
      BY <2>1 DEF IInv, WriterExclusive
  <2> QED
      BY <2>2, <2>3, <2>4, <2>5 DEF IInv
<1>2. ASSUME NEW id \in Id, Rehash(id) PROVE IInv'
    BY <1>2, RehashIInv
<1>3. ASSUME NEW id \in Id, Allocate(id) PROVE IInv'
    BY <1>3, AllocateIInv
<1>4. ASSUME NEW id \in Id, Free(id) \/ Finish(id) PROVE IInv'
    BY <1>4, ReleaseIInv
<1> QED
    BY <1>1, <1>2, <1>3, <1>4 DEF Next

(* The cache is always well typed, what can be hit is right, what a request   *)
(* holds stays right under it, and a block being written is never shared.     *)
THEOREM KVCacheSafe == Spec => [](TypeOK /\ CacheSound /\ TableSound /\ WriterExclusive)
<1>1. IInv => TypeOK /\ CacheSound /\ TableSound /\ WriterExclusive
    BY DEF IInv
<1> QED
    BY InitIInv, NextIInv, <1>1, PTL DEF Spec

(* A registered block that is held is neither unfinished nor fresh, and        *)
(* nothing else is written.                                                   *)
LEMMA StepKeepsHeld == IInv /\ [Next]_vars => [KeepsHeldBlocks]_vars
<1> SUFFICES ASSUME IInv, Next PROVE KeepsHeldBlocks
    OBVIOUS
<1> SUFFICES ASSUME NEW who \in Id, NEW i \in 1..Len(table[who]),
                    blockHash[table[who][i]] # NoKey
             PROVE  /\ blockHash'[table[who][i]] = blockHash[table[who][i]]
                    /\ content'[table[who][i]] = content[table[who][i]]
    BY DEF KeepsHeldBlocks
<1> DEFINE b == table[who][i]
<1>0. table \in [Id -> Seq(Block)] /\ b \in Block
    BY DEF IInv, TypeOK
<1>1. CASE UNCHANGED <<blockHash, content>>
    BY <1>1
<1>2. ASSUME NEW id \in Id, Allocate(id)
      PROVE  blockHash'[b] = blockHash[b] /\ content'[b] = content[b]
  <2> DEFINE t == table'[id]
  <2>1. PICK hit \in Len(table[id])..Len(t) :
            /\ FreshBlocks(id, t, hit)
            /\ WrittenAt(t, Unfinished(id) \cup {t[k] : k \in hit+1..Len(t)}, hashes'[id])
      BY <1>2 DEF Allocate
  <2>2. b \in Held
      BY DEF Held, BlocksOf
  <2>3. b \notin {t[k] : k \in hit+1..Len(t)}
      BY <2>1, <2>2 DEF FreshBlocks
  <2>4. b \notin Unfinished(id)
      BY DEF Unfinished
  <2> QED
      BY <1>0, <2>1, <2>3, <2>4 DEF WrittenAt
<1> QED
    BY <1>1, <1>2 DEF Next, Rehash, Free, Finish

(* What a request holds registered is never changed under it, by any step.    *)
THEOREM HeldBlocksNeverChange == Spec => HeldBlocksStable
<1> QED
    BY InitIInv, NextIInv, StepKeepsHeld, PTL DEF Spec, HeldBlocksStable
=============================================================================
