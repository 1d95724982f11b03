----------------------- MODULE LazySchedulerProofs --------------------------
(* For any requests, documents, pool and budget: what schedule() and the engine *)
(* steps behind it keep.                                                       *)
EXTENDS SchedulerLemmas

-----------------------------------------------------------------------------
(* What holds whatever is scheduled: the variables but the cache's have their   *)
(* kind of value, and every block is free or held.                             *)
Status == {"ABSENT", "WAITING", "WAITING_FOR_FSM", "RUNNING", "PREEMPTED", "FINISHED"}
Phase == {"idle", "running", "waiting", "finish", "update"}

Shape ==
    /\ waiting \in Seq(Id) /\ running \in Seq(Id) /\ skipped \in Seq(Id)
    /\ tracked \subseteq Id /\ grammar \subseteq Guided
    /\ status \in [Id -> Status]
    /\ computed \in [Id -> Int] /\ out \in [Id -> Nat] /\ merged \in [Id -> BOOLEAN]
    /\ \E X : Key \subseteq X /\ hashes \in [Id -> Seq(X)]
    /\ pc \in Phase /\ idx \in Nat \ {0} /\ budget \in Int /\ preempted \in BOOLEAN
    /\ scheduled \in [Id -> Int]
    /\ FreeExact

LEMMA ShapeInit == Init => Shape
<1> SUFFICES ASSUME Init PROVE Shape
  OBVIOUS
<1>1. PICK E : E = {}
  OBVIOUS
<1>2. <<>> \in Seq(Id) /\ <<>> \in Seq(Block) /\ <<>> \in Seq(Key) /\ Range(<<>>) = {}
  BY DEF Range
<1>3. free \in Seq(Block) /\ Distinct(free) /\ Range(free) = Block
  <2>1. NumBlocks \in Nat
    BY SchedulerAssumption
  <2>2. free = [b \in 1..NumBlocks |-> b]
    BY DEF Init, Block
  <2>3. free \in Seq(Block) /\ Len(free) = NumBlocks
    BY <2>1, <2>2 DEF Block
  <2> QED BY <2>2, <2>3 DEF Distinct, Range, Block
<1>4. Held = {}
  BY <1>2 DEF Held, Init
<1>5. FreeExact
  BY <1>2, <1>3, <1>4 DEF FreeExact, Init
<1>6. hashes \in [Id -> Seq(Key)]
  BY <1>2 DEF Init
<1>7. waiting \in Seq(Id) /\ running \in Seq(Id) /\ skipped \in Seq(Id) /\ tracked \subseteq Id
  BY <1>2 DEF Init
<1>8. status \in [Id -> Status] /\ grammar \subseteq Guided
  BY DEF Init, Status
<1>9. computed \in [Id -> Int] /\ out \in [Id -> Nat] /\ scheduled \in [Id -> Int]
  BY DEF Init
<1>10. merged \in [Id -> BOOLEAN] /\ preempted \in BOOLEAN
  BY Zenon DEF Init
<1>11. pc \in Phase /\ idx \in Nat \ {0} /\ budget \in Int
  BY DEF Init, Phase
<1>12. \E X : Key \subseteq X /\ hashes \in [Id -> Seq(X)]
  BY <1>6
<1> QED BY <1>5, <1>7, <1>8, <1>9, <1>10, <1>11, <1>12 DEF Shape

LEMMA NumNewType ==
    ASSUME NEW n \in Int, budget \in Int
    PROVE  NumNew(n) \in {n, budget, Threshold} /\ NumNew(n) <= n /\ NumNew(n) <= budget
<1>1. PICK c : c = IF Threshold > 0 THEN Threshold ELSE n
  OBVIOUS
<1>2. c \in Int /\ c \in {n, Threshold}
  BY <1>1, SchedulerAssumption
<1>3. NumNew(n) = Min({n, budget, c})
  BY <1>1 DEF NumNew
<1>4. PICK z : z = Min({n, budget, c})
  OBVIOUS
<1>5. z \in {n, budget, c} /\ z <= n /\ z <= budget
  BY <1>2, <1>4, MinOfThree
<1>6. z \in {n, budget, Threshold}
  BY <1>2, <1>5
<1> QED BY <1>3, <1>4, <1>5, <1>6

LEMMA NewBlocksType ==
    ASSUME NEW id \in Id, table[id] \in Seq(Block), NEW X, NEW hits \in Seq(X), NEW upto \in Int
    PROVE  /\ NewBlocks(id, hits, upto) \in Nat
           /\ NewBlocks(id, hits, upto) >= CeilDiv(upto, BlockSize) - Len(hits) - Len(table[id])
           /\ NewBlocks(id, hits, upto) \in {0, CeilDiv(upto, BlockSize) - Len(hits) - Len(table[id])}
<1>1. CeilDiv(upto, BlockSize) \in Int
  <2>1. upto + BlockSize - 1 \in Int
    BY SchedulerAssumption
  <2> QED BY <2>1, Division DEF CeilDiv
<1>2. PICK n : n = CeilDiv(upto, BlockSize) - Len(hits) - Len(table[id])
  OBVIOUS
<1>3. n \in Int
  BY <1>1, <1>2
<1>4. NewBlocks(id, hits, upto) = Max({0, n})
  BY <1>2 DEF NewBlocks
<1>5. Max({0, n}) = IF 0 >= n THEN 0 ELSE n
  BY <1>3, MaxOfTwo
<1> QED BY <1>2, <1>3, <1>4, <1>5

LEMMA ExtendHashesShape ==
    ASSUME NEW X, NEW hs \in Seq(X), NEW toks, NEW full \in Int
    PROVE  \E Y : X \subseteq Y /\ ExtendHashes(hs, toks, full) \in Seq(Y)
<1>1. PICK n \in Nat : n = Len(hs)
  OBVIOUS
<1>2. PICK last : last = IF n = 0 THEN [docs |-> <<>>, toks |-> <<>>] ELSE hs[n]
  OBVIOUS
<1>3. PICK k \in Nat : k = Max({0, full - n})
  <2>1. full - n \in Int
    OBVIOUS
  <2>2. Max({0, full - n}) = IF 0 >= full - n THEN 0 ELSE full - n
    BY <2>1, MaxOfTwo
  <2> QED BY <2>1, <2>2
<1>4. PICK e : e = [i \in 1..k |-> [docs |-> last.docs,
                       toks |-> last.toks \o SubSeq(toks, n * BlockSize + 1, (n + i) * BlockSize)]]
  OBVIOUS
<1>5. PICK E : E = {e[i] : i \in 1..k}
  OBVIOUS
<1>6. e \in Seq(E)
  <2>1. \A i \in 1..k : e[i] \in E
    BY <1>5
  <2>2. DOMAIN e = 1..k /\ e = [i \in 1..k |-> e[i]]
    BY <1>4
  <2> QED BY <2>1, <2>2
<1>7. hs \in Seq(X \cup E) /\ e \in Seq(X \cup E)
  BY <1>6, SeqMonotonic
<1>8. hs \o e \in Seq(X \cup E)
  BY <1>7
<1>9. ExtendHashes(hs, toks, full) = hs \o e
  BY <1>1, <1>2, <1>3, <1>4 DEF ExtendHashes
<1> QED BY <1>8, <1>9

LEMMA AllocateShape ==
    ASSUME Shape, NEW id \in Id, NEW m, NEW X, Key \subseteq X, hashes \in [Id -> Seq(X)],
           NEW hs \in Seq(X), NEW hits \in Seq(Block), NEW from, NEW upto \in Int,
           CanAllocate(id, hits, upto), Allocate(id, m, hs, hits, from, upto)
    PROVE  FreeExact' /\ (\E Y : Key \subseteq Y /\ hashes' \in [Id -> Seq(Y)])
<1>1. FreeExact
  BY DEF Shape
<1>2. NewBlocks(id, hits, upto) \in Nat
  BY <1>1, NewBlocksType DEF FreeExact
<1>3. FreeExact'
  BY <1>1, <1>2, AllocateKeepsExact
<1>4. PICK full : full = upto \div BlockSize
  OBVIOUS
<1>5. full \in Int
  BY <1>4, Division
<1>6. PICK Y : X \subseteq Y /\ ExtendHashes(hs, Tokens(id, m), full) \in Seq(Y)
  BY <1>5, ExtendHashesShape
<1>7. hashes \in [Id -> Seq(Y)]
  BY <1>6, SeqMonotonic
<1>8. hashes' = [hashes EXCEPT ![id] = ExtendHashes(hs, Tokens(id, m), full)]
  BY <1>4 DEF Allocate
<1>9. hashes' \in [Id -> Seq(Y)] /\ Key \subseteq Y
  BY <1>6, <1>7, <1>8
<1> QED BY <1>3, <1>9

LEMMA HeadFacts ==
    ASSUME Shape, idx <= Len(running)
    PROVE  RunningHead \in Id /\ running[idx] \in Id /\ idx \in 1..Len(running)
BY DEF Shape, RunningHead

LEMMA RunningUptoType ==
    ASSUME Shape, idx <= Len(running)
    PROVE  /\ RunningUpto \in Int /\ NumTokens(RunningHead) \in Nat
           /\ RunningUpto - computed[RunningHead] \in Int
<1>1. RunningHead \in Id
  BY HeadFacts
<1>2. PICK id \in Id : id = RunningHead
  BY <1>1
<1>3. computed[id] \in Int /\ out[id] \in Nat /\ merged[id] \in BOOLEAN /\ budget \in Int
  BY DEF Shape
<1>4. NumTokens(id) \in Nat
  BY <1>3, TokensFacts DEF NumTokens
<1>5. PICK n : n = NumTokens(id) - computed[id]
  OBVIOUS
<1>6. n \in Int
  BY <1>3, <1>4, <1>5
<1>7. NumNew(n) \in Int
  BY <1>3, <1>6, NumNewType, SchedulerAssumption
<1>8. RunningUpto = computed[id] + NumNew(n)
  BY <1>2, <1>5 DEF RunningUpto
<1> QED BY <1>2, <1>3, <1>4, <1>7, <1>8

LEMMA AttemptNumbers ==
    ASSUME Shape, NEW id \in Id
    PROVE  /\ AttemptFrom(id) \in Nat /\ AttemptUpto(id) \in Int
           /\ \E X : /\ Key \subseteq X /\ hashes \in [Id -> Seq(X)]
                     /\ AttemptHashes(id) \in Seq(X) /\ AttemptHit(id) \in Seq(X)
                     /\ HashesOf(id) \in Seq(X)
           /\ HasDocs(id) \in BOOLEAN
<1>1. PICK X : Key \subseteq X /\ hashes \in [Id -> Seq(X)]
  BY DEF Shape
<1>2. out[id] \in Nat /\ merged[id] \in BOOLEAN /\ budget \in Int
  BY DEF Shape
<1>3. AttemptHashes(id) \in Seq(X) /\ AttemptHit(id) \in Seq(X) /\ HashesOf(id) \in Seq(X)
  BY <1>1, <1>2, AttemptTypes
<1>4. HasDocs(id) \in BOOLEAN
  BY DEF HasDocs
<1>5. AttemptFrom(id) \in Nat
  <2>1. PICK n \in Nat : n = Len(AttemptHit(id))
    BY <1>3
  <2>2. n * BlockSize \in Nat
    <3>1. n \in Int /\ n >= 0
      OBVIOUS
    <3> QED BY <3>1, Products
  <2> QED BY <2>1, <2>2 DEF AttemptFrom
<1>6. PICK n \in Int : n = Len(Tokens(id, HasDocs(id))) - AttemptFrom(id)
  BY <1>2, <1>4, <1>5, TokensFacts
<1>7. NumNew(n) \in Int
  BY <1>2, NumNewType, SchedulerAssumption
<1>8. AttemptUpto(id) = AttemptFrom(id) + NumNew(n)
  BY <1>6 DEF AttemptUpto
<1> QED BY <1>1, <1>3, <1>4, <1>5, <1>7, <1>8

-----------------------------------------------------------------------------
(* The steps, one by one.                                                      *)
LEMMA RetireShape ==
    ASSUME Shape, NEW id \in Id, Retire(id)
    PROVE  /\ FreeExact' /\ (\E Y : Key \subseteq Y /\ hashes' \in [Id -> Seq(Y)])
           /\ tracked' \subseteq Id /\ status' \in [Id -> Status]
           /\ table' = [table EXCEPT ![id] = <<>>]
<1>1. PICK X : Key \subseteq X /\ hashes \in [Id -> Seq(X)]
  BY DEF Shape
<1>2. hashes' \in [Id -> Seq(X)]
  BY <1>1 DEF Retire
<1>3. FreeExact' /\ table' = [table EXCEPT ![id] = <<>>]
  BY FreeBlocksFrees DEF Retire, Shape
<1> QED BY <1>1, <1>2, <1>3 DEF Retire, Shape, Status

LEMMA SpawnedFacts ==
    ASSUME NEW id \in Id
    PROVE  LET missing == Only(Positions(DocsOf(id)), MissingDocs(id))
               reqs == [k \in 1..Len(missing) |-> DocId(id, missing[k])]
           IN  /\ reqs \in Seq(Id) /\ Distinct(reqs)
               /\ Range(reqs) = {DocId(id, d) : d \in MissingDocs(id)}
               /\ Enqueued(reqs) = Reverse(reqs) \o waiting
<1>1. PICK n \in Nat : n = Len(DocsOf(id)) /\ DOMAIN DocsOf(id) = 1..n
  BY DocsFacts
<1>2. PICK M : M = MissingDocs(id)
  OBVIOUS
<1>3. M \subseteq 1..n
  BY <1>1, <1>2 DEF MissingDocs
<1>4. PICK q : q = Positions(DocsOf(id))
  OBVIOUS
<1>5. q \in Seq(1..n) /\ Len(q) = n /\ \A i \in 1..n : q[i] = i
  BY <1>1, <1>4 DEF Positions
<1>6. Range(q) = 1..n /\ Distinct(q)
  <2>1. Range(q) = {q[i] : i \in 1..n}
    BY <1>5, DistinctCount
  <2> QED BY <1>5, <2>1 DEF Distinct
<1>7. PICK w : w = Only(q, M)
  OBVIOUS
<1>8. w \in Seq(1..n) /\ Range(w) = M /\ Distinct(w)
  <2>1. PICK T : T = 1..n
    OBVIOUS
  <2>2. q \in Seq(T)
    BY <1>5, <2>1
  <2>3. w \in Seq(T) /\ Range(w) = Range(q) \cap M /\ Distinct(w)
    BY <1>6, <1>7, <2>2, OnlyKeeps
  <2>4. Range(q) \cap M = M
    BY <1>3, <1>6
  <2> QED BY <2>1, <2>3, <2>4
<1>9. PICK k \in Nat : k = Len(w)
  BY <1>8
<1>10. PICK v : v = [i \in 1..k |-> DocId(id, w[i])]
  OBVIOUS
<1>11. \A i \in 1..k : w[i] \in 1..n /\ DocId(id, w[i]) \in Id
  <2> TAKE i \in 1..k
  <2>1. w[i] \in 1..n
    BY <1>8, <1>9
  <2> QED BY <1>1, <2>1, DocsFacts
<1>12. v \in Seq(Id) /\ Len(v) = k
  BY <1>10, <1>11
<1>13. Range(v) = {DocId(id, d) : d \in M}
  <2>1. Range(v) = {v[i] : i \in 1..k}
    BY <1>12, DistinctCount
  <2>2. Range(w) = {w[i] : i \in 1..k}
    BY <1>8, <1>9, DistinctCount
  <2> QED BY <1>8, <1>10, <2>1, <2>2
<1>14. Distinct(v)
  <2>1. \A i, j \in 1..k : DocId(id, w[i]) = DocId(id, w[j]) => w[i] = w[j]
    BY DEF DocId
  <2> QED BY <1>8, <1>9, <1>10, <1>12, <2>1 DEF Distinct
<1> QED BY <1>2, <1>4, <1>7, <1>9, <1>10, <1>12, <1>13, <1>14 DEF Enqueued

LEMMA ShapeRest ==
    ASSUME Shape, UNCHANGED <<table, free>>
    PROVE  FreeExact'
BY DEF Shape, FreeExact, Held, Distinct

LEMMA SpawnShape ==
    ASSUME Shape, SpawnDocuments
    PROVE  Shape'
<1>1. PICK id \in Id : id = Head(waiting)
  BY SeqParts DEF SpawnDocuments, InWaitingLoop, Shape
<1>2. PICK missing : missing = Only(Positions(DocsOf(id)), MissingDocs(id))
  OBVIOUS
<1>3. PICK reqs : reqs = [k \in 1..Len(missing) |-> DocId(id, missing[k])]
  OBVIOUS
<1>4. reqs \in Seq(Id) /\ Range(reqs) = {DocId(id, d) : d \in MissingDocs(id)}
  BY <1>2, <1>3, SpawnedFacts
<1>5. Enqueued(reqs) \in Seq(Id)
  <2>1. Reverse(reqs) \in Seq(Id)
    BY <1>4, ReverseFacts
  <2>2. Reverse(reqs) \o waiting \in Seq(Id)
    BY <2>1 DEF Shape
  <2> QED BY <2>2 DEF Enqueued
<1>6. waiting' \in Seq(Id)
  BY <1>1, <1>2, <1>3, <1>5 DEF SpawnDocuments
<1>7. tracked' \subseteq Id
  <2>1. tracked' = tracked \cup Range(reqs)
    BY <1>1, <1>4 DEF SpawnDocuments
  <2>2. Range(reqs) \subseteq Id
    BY <1>4, DistinctCount
  <2> QED BY <2>1, <2>2 DEF Shape
<1>8. status' \in [Id -> Status]
  <2>1. \A j \in Id : NewStatus(j) \in Status /\ Cleared(j) \in Status /\ status[j] \in Status
    BY DEF NewStatus, Cleared, Status, Shape
  <2>2. status' = [j \in Id |-> IF j \in Range(reqs) THEN NewStatus(j)
                               ELSE IF j = id THEN Cleared(id) ELSE status[j]]
    BY <1>1, <1>4 DEF SpawnDocuments
  <2> QED BY <2>1, <2>2
<1>9. computed' \in [Id -> Int] /\ out' \in [Id -> Nat]
  <2>1. /\ computed' = [j \in Id |-> IF j \in Range(reqs) THEN 0 ELSE computed[j]]
        /\ out' = [j \in Id |-> IF j \in Range(reqs) THEN 0 ELSE out[j]]
    BY <1>1, <1>4 DEF SpawnDocuments
  <2> QED BY <2>1 DEF Shape
<1>10. UNCHANGED <<running, skipped, merged, grammar, kvVars, stepVars>>
  BY DEF SpawnDocuments
<1>11. FreeExact'
  BY <1>10, ShapeRest DEF kvVars
<1> QED BY <1>6, <1>7, <1>8, <1>9, <1>10, <1>11 DEF Shape, kvVars, stepVars

LEMMA AttemptShape ==
    ASSUME Shape, AttemptSucceeds
    PROVE  Shape'
<1>1. PICK id \in Id :
          /\ Attempts(id)
          /\ \E hits \in BlocksWith(AttemptHit(id)) :
                /\ CanAllocate(id, hits, AttemptUpto(id))
                /\ Allocate(id, HasDocs(id), AttemptHashes(id), hits,
                            AttemptFrom(id), AttemptUpto(id))
          /\ merged' = [merged EXCEPT ![id] = HasDocs(id)]
          /\ status' = [status EXCEPT ![id] = "RUNNING"]
          /\ computed' = [computed EXCEPT ![id] = AttemptFrom(id)]
          /\ waiting' = Tail(waiting)
          /\ running' = Append(running, id)
          /\ scheduled' = [scheduled EXCEPT ![id] = AttemptUpto(id) - AttemptFrom(id)]
          /\ budget' = budget - (AttemptUpto(id) - AttemptFrom(id))
          /\ UNCHANGED <<skipped, tracked, out, grammar, pc, idx, preempted>>
  BY DEF AttemptSucceeds
<1>2. PICK X : /\ Key \subseteq X /\ hashes \in [Id -> Seq(X)]
               /\ AttemptHashes(id) \in Seq(X) /\ AttemptHit(id) \in Seq(X)
  BY AttemptNumbers
<1>3. AttemptFrom(id) \in Nat /\ AttemptUpto(id) \in Int /\ HasDocs(id) \in BOOLEAN
  BY AttemptNumbers
<1>4. PICK hits \in BlocksWith(AttemptHit(id)) :
                /\ CanAllocate(id, hits, AttemptUpto(id))
                /\ Allocate(id, HasDocs(id), AttemptHashes(id), hits,
                            AttemptFrom(id), AttemptUpto(id))
  BY <1>1
<1>5. hits \in Seq(Block)
  BY <1>2, <1>4, BlocksWithFacts
<1>6. FreeExact' /\ (\E Y : Key \subseteq Y /\ hashes' \in [Id -> Seq(Y)])
  <2>1. PICK hs \in Seq(X) : hs = AttemptHashes(id)
    BY <1>2
  <2>2. PICK from : from = AttemptFrom(id)
    OBVIOUS
  <2>3. PICK upto \in Int : upto = AttemptUpto(id)
    BY <1>3
  <2>4. CanAllocate(id, hits, upto) /\ Allocate(id, HasDocs(id), hs, hits, from, upto)
    BY <1>4, <2>1, <2>2, <2>3
  <2> QED BY <1>2, <1>5, <2>4, AllocateShape
<1>7. waiting \in Seq(Id) /\ waiting # <<>> /\ running \in Seq(Id)
  BY <1>1 DEF Attempts, AtLookup, InWaitingLoop, Shape
<1>8. waiting' \in Seq(Id)
  BY <1>1, <1>7, SeqParts
<1>9. running' \in Seq(Id)
  BY <1>1, <1>7
<1>10. status' \in [Id -> Status] /\ merged' \in [Id -> BOOLEAN]
  <2>1. status' \in [Id -> Status]
    BY <1>1 DEF Shape, Status
  <2>2. merged' \in [Id -> BOOLEAN]
    BY <1>1, <1>3 DEF Shape
  <2> QED BY <2>1, <2>2
<1>11. computed' \in [Id -> Int] /\ scheduled' \in [Id -> Int] /\ budget' \in Int
  <2>1. computed \in [Id -> Int] /\ scheduled \in [Id -> Int] /\ budget \in Int
    BY DEF Shape
  <2>2. computed' \in [Id -> Int]
    BY <1>1, <1>3, <2>1
  <2>3. scheduled' \in [Id -> Int]
    BY <1>1, <1>3, <2>1
  <2>4. budget' \in Int
    BY <1>1, <1>3, <2>1
  <2> QED BY <2>2, <2>3, <2>4
<1> QED BY <1>1, <1>6, <1>8, <1>9, <1>10, <1>11 DEF Shape

LEMMA RunningShape ==
    ASSUME Shape, RunningSchedule
    PROVE  Shape'
<1>1. idx <= Len(running)
  BY DEF RunningSchedule, InRunningLoop
<1>2. PICK id \in Id : id = RunningHead
  BY <1>1, HeadFacts
<1>3. PICK upto \in Int : upto = RunningUpto
  BY <1>1, RunningUptoType
<1>4. computed[id] \in Int
  BY DEF Shape
<1>5. FreeExact' /\ (\E Y : Key \subseteq Y /\ hashes' \in [Id -> Seq(Y)])
  <2>1. PICK X : Key \subseteq X /\ hashes \in [Id -> Seq(X)]
    BY DEF Shape
  <2>2. PICK hs \in Seq(X) : hs = hashes[id]
    BY <2>1
  <2>3. PICK hits \in Seq(Block) : hits = <<>>
    <3>1. <<>> \in Seq(Block)
      OBVIOUS
    <3> QED BY <3>1
  <2>4. CanAllocate(id, hits, upto) /\ Allocate(id, merged[id], hs, hits, computed[id], upto)
    BY <1>2, <1>3, <2>2, <2>3 DEF RunningSchedule
  <2> QED BY <2>1, <2>4, AllocateShape
<1>6. scheduled' \in [Id -> Int] /\ budget' \in Int /\ idx' \in Nat \ {0}
  <2>1. scheduled' = [scheduled EXCEPT ![id] = upto - computed[id]]
    BY <1>2, <1>3 DEF RunningSchedule
  <2>2. budget' = budget - (upto - computed[id]) /\ idx' = idx + 1
    BY <1>2, <1>3 DEF RunningSchedule
  <2> QED BY <1>4, <2>1, <2>2 DEF Shape
<1>7. UNCHANGED <<queueVars, reqVars, grammar, pc, preempted>>
  BY DEF RunningSchedule
<1> QED BY <1>5, <1>6, <1>7 DEF Shape, queueVars, reqVars

LEMMA PreemptShape ==
    ASSUME Shape, RunningPreempt
    PROVE  Shape'
<1>1. running \in Seq(Id) /\ running # <<>> /\ waiting \in Seq(Id)
  BY DEF RunningPreempt, InRunningLoop, Shape
<1>2. PICK victim \in Id : victim = Last(running)
  BY <1>1, SeqParts
<1>3. FreeExact'
  BY <1>2, FreeBlocksFrees DEF RunningPreempt, Shape
<1>4. status' \in [Id -> Status] /\ computed' \in [Id -> Int]
  BY <1>2 DEF RunningPreempt, Shape, Status
<1>5. running' \in Seq(Id) /\ waiting' \in Seq(Id)
  <2>1. running' \in Seq(Id)
    BY <1>1, SeqParts DEF RunningPreempt
  <2>2. waiting' = <<victim>> \o waiting
    BY <1>2 DEF RunningPreempt
  <2> QED BY <1>1, <2>1, <2>2
<1>6. pc' \in Phase /\ preempted' \in BOOLEAN
  BY DEF RunningPreempt, Phase
<1>7. UNCHANGED <<skipped, tracked, out, merged, grammar, hashes, idx, budget, scheduled>>
  BY DEF RunningPreempt
<1> QED BY <1>3, <1>4, <1>5, <1>6, <1>7 DEF Shape

LEMMA AbortShape ==
    ASSUME Shape, NEW r \in Request, Abort(r)
    PROVE  Shape'
<1>1. User(r) \in Id
  BY UserFacts
<1>2. PICK S : S = Id \ {User(r)}
  OBVIOUS
<1>3. /\ FreeExact' /\ (\E Y : Key \subseteq Y /\ hashes' \in [Id -> Seq(Y)])
      /\ tracked' \subseteq Id /\ status' \in [Id -> Status]
  BY <1>1, RetireShape DEF Abort
<1>4. waiting' \in Seq(Id) /\ running' \in Seq(Id)
  <2>1. waiting' = Only(waiting, S) /\ running' = Only(running, S)
    BY <1>2 DEF Abort
  <2>2. waiting' \in Seq(Id)
    BY <2>1, OnlyKeeps DEF Shape
  <2>3. running' \in Seq(Id)
    BY <2>1, OnlyKeeps DEF Shape
  <2> QED BY <2>2, <2>3
<1>5. UNCHANGED <<skipped, computed, out, merged, grammar, stepVars>>
  BY DEF Abort
<1> QED BY <1>3, <1>4, <1>5 DEF Shape, stepVars

LEMMA FinishRequestShape ==
    ASSUME Shape, FinishRequest
    PROVE  Shape'
<1>1. idx \in 1..Len(running) /\ running \in Seq(Id) /\ running # <<>>
  BY DEF FinishRequest, Shape
<1>2. PICK id \in Id : id = running[idx]
  BY <1>1
<1>3. /\ FreeExact' /\ (\E Y : Key \subseteq Y /\ hashes' \in [Id -> Seq(Y)])
      /\ tracked' \subseteq Id /\ status' \in [Id -> Status]
  BY <1>2, RetireShape DEF FinishRequest
<1>4. running' \in Seq(Id)
  BY <1>1, SeqParts DEF FinishRequest
<1>5. out' \in [Id -> Nat]
  <2>1. out \in [Id -> Nat]
    BY DEF Shape
  <2>2. PICK n \in Nat : n = out[id] + 1
    BY <2>1
  <2>3. out' = [out EXCEPT ![id] = n]
    BY <1>2, <2>2 DEF FinishRequest
  <2> QED BY <2>1, <2>3
<1>6. UNCHANGED <<waiting, skipped, computed, merged, grammar, stepVars>>
  BY DEF FinishRequest
<1> QED BY <1>3, <1>4, <1>5, <1>6 DEF Shape, stepVars

LEMMA ShapeStep == Shape /\ [Next]_vars => Shape'
<1> SUFFICES ASSUME Shape, [Next]_vars PROVE Shape'
  OBVIOUS
<1>1. CASE UNCHANGED vars
  <2>1. UNCHANGED <<queueVars, reqVars, grammar, kvVars, stepVars>>
    BY <1>1 DEF vars
  <2>2. FreeExact'
    BY <2>1, ShapeRest DEF kvVars
  <2> QED BY <2>1, <2>2 DEF Shape, queueVars, reqVars, kvVars, stepVars
<1>2. ASSUME NEW r \in Request, AddRequest(r) PROVE Shape'
  <2>1. User(r) \in Id
    BY UserFacts
  <2>2. waiting' \in Seq(Id) /\ tracked' \subseteq Id
    BY <1>2, <2>1 DEF AddRequest, Shape
  <2>3. status' \in [Id -> Status]
    <3>1. NewStatus(User(r)) \in Status
      BY DEF NewStatus, Status
    <3> QED BY <1>2, <2>1, <3>1 DEF AddRequest, Shape
  <2>4. UNCHANGED <<running, skipped, computed, out, merged, grammar, kvVars, stepVars>>
    BY <1>2 DEF AddRequest
  <2>5. FreeExact'
    BY <2>4, ShapeRest DEF kvVars
  <2> QED BY <2>2, <2>3, <2>4, <2>5 DEF Shape, kvVars, stepVars
<1>3. ASSUME NEW r \in Request, CompileGrammar(r) PROVE Shape'
  <2>1. grammar' \subseteq Guided /\ UNCHANGED <<queueVars, reqVars, kvVars, stepVars>>
    BY <1>3 DEF CompileGrammar, Shape
  <2>2. FreeExact'
    BY <2>1, ShapeRest DEF kvVars
  <2> QED BY <2>1, <2>2 DEF Shape, queueVars, reqVars, kvVars, stepVars
<1>4. ASSUME NEW r \in Request, Abort(r) PROVE Shape'
  BY <1>4, AbortShape
<1>5. CASE StartSchedule
  <2>1. UNCHANGED <<queueVars, reqVars, grammar, kvVars, preempted, scheduled>>
    BY <1>5 DEF StartSchedule
  <2>2. pc' \in Phase /\ idx' \in Nat \ {0} /\ budget' \in Int
    BY <1>5, SchedulerAssumption DEF StartSchedule, Phase
  <2>3. FreeExact'
    BY <2>1, ShapeRest DEF kvVars
  <2> QED BY <2>1, <2>2, <2>3 DEF Shape, queueVars, reqVars, kvVars
<1>6. CASE RunningSchedule
  BY <1>6, RunningShape
<1>7. CASE RunningPreempt
  BY <1>7, PreemptShape
<1>8. CASE EndRunning
  <2>1. UNCHANGED <<queueVars, reqVars, grammar, kvVars, idx, budget, preempted, scheduled>>
    BY <1>8 DEF EndRunning
  <2>2. pc' \in Phase
    BY <1>8 DEF EndRunning, Phase
  <2>3. FreeExact'
    BY <2>1, ShapeRest DEF kvVars
  <2> QED BY <2>1, <2>2, <2>3 DEF Shape, queueVars, reqVars, kvVars
<1>9. CASE SkipForGrammar
  <2>1. UNCHANGED <<running, tracked, reqVars, grammar, kvVars, stepVars>>
    BY <1>9 DEF SkipForGrammar
  <2>2. waiting \in Seq(Id) /\ waiting # <<>>
    BY <1>9 DEF SkipForGrammar, InWaitingLoop, Shape
  <2>3. Head(waiting) \in Id /\ Tail(waiting) \in Seq(Id)
    BY <2>2, SeqParts
  <2>4. waiting' \in Seq(Id) /\ skipped' \in Seq(Id)
    BY <1>9, <2>3 DEF SkipForGrammar, Shape
  <2>5. FreeExact'
    BY <2>1, ShapeRest DEF kvVars
  <2> QED BY <2>1, <2>4, <2>5 DEF Shape, reqVars, kvVars, stepVars
<1>10. CASE SpawnDocuments
  BY <1>10, SpawnShape
<1>11. CASE DropCachedDocument
  <2>1. PICK id \in Id :
            /\ AtLookup(id) /\ hashes' = [hashes EXCEPT ![id] = HashesOf(id)]
            /\ waiting' = Tail(waiting)
            /\ UNCHANGED <<running, skipped, tracked, reqVars, grammar,
                           table, blockHash, content, free, stepVars>>
    BY <1>11 DEF DropCachedDocument
  <2>2. waiting' \in Seq(Id)
    BY <2>1, SeqParts DEF AtLookup, InWaitingLoop, Shape
  <2>3. PICK X : Key \subseteq X /\ hashes \in [Id -> Seq(X)] /\ HashesOf(id) \in Seq(X)
    BY AttemptNumbers
  <2>4. hashes' \in [Id -> Seq(X)]
    BY <2>1, <2>3
  <2>5. FreeExact'
    BY <2>1, ShapeRest
  <2> QED BY <2>1, <2>2, <2>3, <2>4, <2>5 DEF Shape, reqVars, stepVars
<1>12. CASE AttemptFails
  <2>1. PICK id \in Id :
            /\ merged' = [merged EXCEPT ![id] = HasDocs(id)]
            /\ hashes' = [hashes EXCEPT ![id] = AttemptHashes(id)]
            /\ status' = [status EXCEPT ![id] = Cleared(id)]
            /\ pc' = "finish"
            /\ UNCHANGED <<queueVars, computed, out, grammar, table, blockHash, content, free,
                           idx, budget, preempted, scheduled>>
    BY <1>12 DEF AttemptFails
  <2>2. PICK X : /\ Key \subseteq X /\ hashes \in [Id -> Seq(X)]
                 /\ AttemptHashes(id) \in Seq(X)
    BY AttemptNumbers
  <2>3. hashes' \in [Id -> Seq(X)]
    BY <2>1, <2>2
  <2>4. merged' \in [Id -> BOOLEAN]
    <3>1. HasDocs(id) \in BOOLEAN
      BY AttemptNumbers
    <3> QED BY <2>1, <3>1 DEF Shape
  <2>5. status' \in [Id -> Status]
    <3>1. Cleared(id) \in Status
      BY DEF Cleared, Status, Shape
    <3> QED BY <2>1, <3>1 DEF Shape
  <2>6. FreeExact' /\ pc' \in Phase
    BY <2>1, ShapeRest DEF Phase
  <2> QED BY <2>1, <2>2, <2>3, <2>4, <2>5, <2>6 DEF Shape, queueVars
<1>13. CASE AttemptSucceeds
  BY <1>13, AttemptShape
<1>14. CASE FinishSchedule
  <2>1. /\ waiting' = PutBack /\ skipped' = <<>>
        /\ computed' = [id \in Id |-> computed[id] + scheduled[id]]
        /\ pc' = "update" /\ idx' = 1
        /\ UNCHANGED <<running, tracked, status, out, merged, grammar, kvVars,
                       budget, preempted, scheduled>>
    BY <1>14 DEF FinishSchedule
  <2>2. waiting' \in Seq(Id) /\ skipped' \in Seq(Id)
    BY <2>1 DEF PutBack, Shape
  <2>3. computed' \in [Id -> Int] /\ pc' \in Phase /\ idx' \in Nat \ {0}
    BY <2>1 DEF Shape, Phase
  <2>4. FreeExact'
    BY <2>1, ShapeRest DEF kvVars
  <2> QED BY <2>1, <2>2, <2>3, <2>4 DEF Shape, kvVars
<1>15. CASE KeepRunning
  <2>1. /\ idx' = idx + 1 /\ idx <= Len(running)
        /\ out' = IF Samples(running[idx]) THEN [out EXCEPT ![running[idx]] = @ + 1] ELSE out
        /\ UNCHANGED <<queueVars, status, computed, merged, grammar, kvVars,
                       pc, budget, preempted, scheduled>>
    BY <1>15 DEF KeepRunning
  <2>2. running[idx] \in Id
    BY <2>1, HeadFacts
  <2>3. out' \in [Id -> Nat] /\ idx' \in Nat \ {0}
    <3>1. PICK id \in Id : id = running[idx]
      BY <2>2
    <3>2. out' \in {[out EXCEPT ![id] = @ + 1], out}
      BY <2>1, <3>1
    <3>3. out \in [Id -> Nat] /\ out[id] + 1 \in Nat
      BY <3>1, SMTT(30) DEF Shape
    <3>4. [out EXCEPT ![id] = @ + 1] \in [Id -> Nat]
      BY <3>3
    <3>5. idx \in Nat \ {0} /\ idx' = idx + 1
      BY <2>1 DEF Shape
    <3>6. idx' \in Nat \ {0}
      BY <3>5
    <3> QED BY <3>2, <3>3, <3>4, <3>6
  <2>4. FreeExact'
    BY <2>1, ShapeRest DEF kvVars
  <2> QED BY <2>1, <2>3, <2>4 DEF Shape, queueVars, kvVars
<1>16. CASE FinishRequest
  BY <1>16, FinishRequestShape
<1>17. CASE EndUpdate
  <2>1. UNCHANGED <<queueVars, reqVars, grammar, kvVars>>
    BY <1>17 DEF EndUpdate
  <2>2. /\ pc' \in Phase /\ idx' \in Nat \ {0} /\ budget' \in Int /\ preempted' \in BOOLEAN
        /\ scheduled' \in [Id -> Int]
    <3>1. pc' = "idle" /\ idx' = 1 /\ budget' = 0 /\ preempted' = FALSE
      BY <1>17 DEF EndUpdate
    <3>2. scheduled' = [id \in Id |-> 0]
      BY <1>17 DEF EndUpdate
    <3>3. scheduled' \in [Id -> Int]
      BY <3>2
    <3>4. pc' \in Phase /\ idx' \in Nat \ {0} /\ budget' \in Int
      BY <3>1 DEF Phase
    <3>5. preempted' \in BOOLEAN
      BY Zenon, <3>1
    <3> QED BY <3>3, <3>4, <3>5
  <2>3. FreeExact'
    BY <2>1, ShapeRest DEF kvVars
  <2> QED BY <2>1, <2>2, <2>3 DEF Shape, queueVars, reqVars, kvVars
<1> QED
  BY <1>1, <1>2, <1>3, <1>4, <1>5, <1>6, <1>7, <1>8, <1>9, <1>10, <1>11, <1>12, <1>13, <1>14,
     <1>15, <1>16, <1>17 DEF Next, Schedule, Update, Quiescent

(* The scheduler's variables keep their shape, and every block stays free or    *)
(* held, whatever the requests, the pool and the budget.                        *)
THEOREM ShapeAlways == Spec => []Shape
BY ShapeInit, ShapeStep, PTL DEF Spec

(* Blocks neither leak nor are handed out while some request holds them: the    *)
(* free queue of LazyBlockPool names exactly the blocks of no table, each once. *)
THEOREM SchedulerFreeQueue == Spec => []FreeQueueExact
<1>1. Shape => FreeQueueExact
  <2> SUFFICES ASSUME Shape PROVE FreeQueueExact
    OBVIOUS
  <2>1. free \in Seq(Block) /\ Distinct(free) /\ Range(free) = Block \ Held
    BY DEF Shape, FreeExact
  <2>2. Cardinality(Range(free)) = Len(free)
    BY <2>1, DistinctCount
  <2> QED BY <2>1, <2>2 DEF FreeQueueExact, Held
<1> QED BY <1>1, ShapeAlways, PTL
-----------------------------------------------------------------------------
LEMMA QueuedRange ==
    ASSUME Shape
    PROVE  Range(Queued) = Range(waiting) \cup Range(skipped) \cup Range(running)
<1>1. waiting \in Seq(Id) /\ skipped \in Seq(Id) /\ running \in Seq(Id)
  BY DEF Shape
<1>2. PICK w : w = waiting \o skipped
  OBVIOUS
<1>3. w \in Seq(Id) /\ Range(w) = Range(waiting) \cup Range(skipped)
  BY <1>1, <1>2, ConcatFacts
<1>4. Range(w \o running) = Range(w) \cup Range(running)
  <2>1. w \in Seq(Id) /\ running \in Seq(Id)
    BY <1>1, <1>3
  <2>2. PICK z : z = w \o running
    OBVIOUS
  <2>3. Joined(z, w, running)
    BY <2>2 DEF Joined
  <2>4. Range(z) = Range(w) \cup Range(running)
    BY <2>1, <2>3, RangeJoined
  <2> QED BY <2>2, <2>4
<1>5. Queued = w \o running
  BY <1>2 DEF Queued
<1> QED BY <1>3, <1>4, <1>5

-----------------------------------------------------------------------------
(* What self.requests keeps: whoever is in a queue, and documents that were     *)
(* found cached.  A request that is told to run is in running.                 *)
Waits(id) == id \in Range(waiting) \/ id \in Range(skipped)
Left(id) == IsDoc(id) /\ status[id] \in {"WAITING", "PREEMPTED"}

Live ==
    /\ \A id \in tracked : Waits(id) \/ id \in Range(running) \/ Left(id)
    /\ \A id \in Id : status[id] = "RUNNING" => id \in Range(running)
    /\ \A id \in tracked : status[id] \notin {"ABSENT", "FINISHED"}

LEMMA LiveRest ==
    ASSUME Shape, Live,
           \A id \in Id : Waits(id) \/ id \in Range(running) => Waits(id)' \/ id \in Range(running)',
           UNCHANGED <<tracked, status, running>>
    PROVE  Live'
BY DEF Live, Left, IsDoc, Shape

LEMMA LiveSpawn ==
    ASSUME Shape, Live, SpawnDocuments
    PROVE  Live'
<1>1. PICK id \in Id : id = Head(waiting)
  BY SeqParts DEF SpawnDocuments, InWaitingLoop, Shape
<1>2. PICK missing : missing = Only(Positions(DocsOf(id)), MissingDocs(id))
  OBVIOUS
<1>3. PICK reqs : reqs = [k \in 1..Len(missing) |-> DocId(id, missing[k])]
  OBVIOUS
<1>4. /\ reqs \in Seq(Id) /\ Range(reqs) = {DocId(id, d) : d \in MissingDocs(id)}
      /\ Enqueued(reqs) = Reverse(reqs) \o waiting
  BY <1>2, <1>3, SpawnedFacts
<1>5. /\ waiting' = Reverse(reqs) \o waiting /\ tracked' = tracked \cup Range(reqs)
      /\ status' = [j \in Id |-> IF j \in Range(reqs) THEN NewStatus(j)
                               ELSE IF j = id THEN Cleared(id) ELSE status[j]]
      /\ UNCHANGED <<running, skipped>>
  BY <1>1, <1>2, <1>3, <1>4 DEF SpawnDocuments
<1>6. Range(waiting') = Range(reqs) \cup Range(waiting)
  <2>1. Reverse(reqs) \in Seq(Id) /\ Range(Reverse(reqs)) = Range(reqs)
    BY <1>4, ReverseFacts
  <2>2. Range(Reverse(reqs) \o waiting) = Range(Reverse(reqs)) \cup Range(waiting)
    BY <2>1, ConcatFacts DEF Shape
  <2> QED BY <1>5, <2>1, <2>2
<1>7. /\ \A j \in Id : NewStatus(j) \in {"WAITING", "WAITING_FOR_FSM"}
      /\ Cleared(id) \in {"WAITING", status[id]}
  BY DEF NewStatus, Cleared
<1>8. id \in Range(waiting)
  BY <1>1, RangeParts DEF SpawnDocuments, InWaitingLoop, Shape
<1>9. tracked' \subseteq Id
  <2>1. Range(reqs) \subseteq Id
    BY <1>4, DistinctCount
  <2> QED BY <1>5, <2>1 DEF Shape
<1>10. ASSUME NEW j \in tracked' PROVE Waits(j)' \/ j \in Range(running)' \/ Left(j)'
  <2>1. CASE j \in Range(reqs) \/ j = id
    BY <1>6, <1>8, <2>1 DEF Waits
  <2>2. CASE j \notin Range(reqs) /\ j # id
    <3>1. j \in tracked /\ j \in Id /\ status'[j] = status[j]
      BY <1>5, <1>9, <2>2
    <3>2. Waits(j) \/ j \in Range(running) \/ Left(j)
      BY <3>1 DEF Live
    <3> QED BY <1>5, <1>6, <3>1, <3>2 DEF Waits, Left, IsDoc
  <2> QED BY <2>1, <2>2
<1>11. ASSUME NEW j \in Id, status'[j] = "RUNNING" PROVE j \in Range(running')
  BY <1>5, <1>7, <1>11 DEF Live
<1>12. ASSUME NEW j \in tracked' PROVE status'[j] \notin {"ABSENT", "FINISHED"}
  <2>1. CASE j \in Range(reqs)
    BY <1>5, <1>7, <1>9, <2>1
  <2>2. CASE j \notin Range(reqs)
    <3>1. j \in tracked /\ j \in Id
      BY <1>5, <1>9, <2>2
    <3> QED BY <1>5, <1>7, <2>2, <3>1 DEF Live
  <2> QED BY <2>1, <2>2
<1> QED BY <1>10, <1>11, <1>12 DEF Live

LEMMA LiveRetire ==
    ASSUME Shape, Live, NEW id \in Id, Retire(id),
           \A j \in Id \ {id} : /\ Waits(j) => Waits(j)'
                                /\ j \in Range(running) => j \in Range(running)'
    PROVE  Live'
<1>1. /\ status' = [status EXCEPT ![id] = "FINISHED"]
      /\ tracked' = tracked \ {id}
  BY DEF Retire
<1>2. tracked \subseteq Id /\ \A j \in Id : j # id => status'[j] = status[j]
  BY <1>1 DEF Shape
<1>3. status'[id] = "FINISHED"
  BY <1>1 DEF Shape
<1>4. ASSUME NEW j \in tracked'
      PROVE  /\ Waits(j)' \/ j \in Range(running)' \/ Left(j)'
             /\ status'[j] \notin {"ABSENT", "FINISHED"}
  <2>1. j \in tracked /\ j \in Id \ {id} /\ status'[j] = status[j]
    BY <1>1, <1>2
  <2> QED BY <2>1 DEF Live, Left, IsDoc
<1>5. ASSUME NEW j \in Id, status'[j] = "RUNNING" PROVE j \in Range(running)'
  BY <1>2, <1>3, <1>5 DEF Live
<1> QED BY <1>4, <1>5 DEF Live

LEMMA LiveStep == Shape /\ Live /\ [Next]_vars => Live'
<1> SUFFICES ASSUME Shape, Live, [Next]_vars PROVE Live'
  OBVIOUS
<1>0. waiting \in Seq(Id) /\ running \in Seq(Id) /\ skipped \in Seq(Id) /\ tracked \subseteq Id
  BY DEF Shape
<1>1. CASE UNCHANGED queueVars /\ UNCHANGED status
  BY <1>1, LiveRest DEF queueVars, Waits
<1>2. ASSUME NEW r \in Request, AddRequest(r) PROVE Live'
  <2>1. PICK id \in Id : id = User(r)
    BY UserFacts
  <2>2. /\ status' = [status EXCEPT ![id] = NewStatus(id)] /\ waiting' = Append(waiting, id)
        /\ tracked' = tracked \cup {id} /\ UNCHANGED <<running, skipped>>
        /\ NewStatus(id) \in {"WAITING", "WAITING_FOR_FSM"}
    BY <1>2, <2>1 DEF AddRequest, NewStatus
  <2>3. Range(waiting') = Range(waiting) \cup {id}
    <3>1. PICK u \in Seq(Id) : u = <<id>> /\ Range(u) = {id}
      BY Singleton
    <3>2. Range(waiting \o u) = Range(waiting) \cup Range(u)
      <4>1. waiting \in Seq(Id) /\ u \in Seq(Id)
        BY <1>0
      <4>2. PICK z : z = waiting \o u
        OBVIOUS
      <4>3. Joined(z, waiting, u)
        BY <4>2 DEF Joined
      <4>4. Range(z) = Range(waiting) \cup Range(u)
        BY <4>1, <4>3, RangeJoined
      <4> QED BY <4>2, <4>4
    <3>3. waiting' = waiting \o u
      BY <1>0, <2>2, <3>1
    <3> QED BY <3>1, <3>2, <3>3
  <2>4. status'[id] = NewStatus(id) /\ \A j \in Id : j # id => status'[j] = status[j]
    BY <2>2 DEF Shape
  <2> QED BY <1>0, <2>2, <2>3, <2>4 DEF Live, Waits, Left, IsDoc
<1>3. ASSUME NEW r \in Request, Abort(r) PROVE Live'
  <2>1. PICK id \in Id : id = User(r)
    BY UserFacts
  <2>2. PICK S : S = Id \ {id}
    OBVIOUS
  <2>3. waiting' = Only(waiting, S) /\ running' = Only(running, S) /\ skipped' = skipped /\ Retire(id)
    BY <1>3, <2>1, <2>2 DEF Abort
  <2>4. Range(waiting') = Range(waiting) \cap S
    BY <1>0, <2>3, OnlyKeeps
  <2>5. Range(running') = Range(running) \cap S
    BY <1>0, <2>3, OnlyKeeps
  <2> QED BY <2>2, <2>3, <2>4, <2>5, LiveRetire DEF Waits
<1>4. CASE RunningPreempt
  <2>1. running # <<>>
    BY <1>4 DEF RunningPreempt, InRunningLoop, Shape
  <2>2. PICK id \in Id : id = Last(running)
    BY <1>0, <2>1, SeqParts
  <2>3. /\ status' = [status EXCEPT ![id] = "PREEMPTED"] /\ running' = Front(running)
        /\ waiting' = <<id>> \o waiting /\ UNCHANGED <<skipped, tracked>>
    BY <1>4, <2>2 DEF RunningPreempt
  <2>4. Range(running) = {id} \cup Range(running') /\ Range(waiting') = {id} \cup Range(waiting)
    <3>1. Range(running) = {id} \cup Range(running')
      BY <1>0, <2>1, <2>2, <2>3, RangeParts
    <3>2. PICK w : w = <<id>> \o waiting
      OBVIOUS
    <3>3. Range(w) = {id} \cup Range(waiting)
      BY <1>0, <3>2, RangePrepend
    <3> QED BY <2>3, <3>1, <3>2, <3>3
  <2>5. status'[id] = "PREEMPTED" /\ \A j \in Id : j # id => status'[j] = status[j]
    BY <2>3 DEF Shape
  <2> QED BY <1>0, <2>3, <2>4, <2>5 DEF Live, Waits, Left, IsDoc
<1>5. CASE SkipForGrammar
  <2>1. waiting # <<>> /\ waiting' = Tail(waiting) /\ skipped' = <<Head(waiting)>> \o skipped
        /\ UNCHANGED <<running, tracked, status>>
    BY <1>5 DEF SkipForGrammar, InWaitingLoop, reqVars
  <2>2. PICK id \in Id : id = Head(waiting)
    BY <1>0, <2>1, SeqParts
  <2>3. Range(waiting) = {id} \cup Range(waiting')
    BY <1>0, <2>1, <2>2, RangeParts
  <2>4. Range(skipped') = {id} \cup Range(skipped)
    <3>1. PICK w : w = <<id>> \o skipped
      OBVIOUS
    <3>2. Range(w) = {id} \cup Range(skipped)
      BY <1>0, <3>1, RangePrepend
    <3> QED BY <2>1, <2>2, <3>1, <3>2
  <2> QED BY <2>1, <2>3, <2>4, LiveRest DEF Waits
<1>6. CASE SpawnDocuments
  BY <1>6, LiveSpawn
<1>7. CASE DropCachedDocument
  <2>1. PICK id \in Id : /\ AtLookup(id) /\ FullyCachedDoc(id) /\ waiting' = Tail(waiting)
                         /\ UNCHANGED <<running, skipped, tracked, status>>
    BY <1>7 DEF DropCachedDocument, reqVars
  <2>2. waiting # <<>> /\ id = Head(waiting) /\ IsDoc(id) /\ status[id] # "WAITING_FOR_FSM"
    BY <2>1 DEF AtLookup, InWaitingLoop, FullyCachedDoc, NeedsGrammar, GrammarDone
  <2>3. Range(waiting) = {id} \cup Range(waiting')
    BY <1>0, <2>1, <2>2, RangeParts
  <2>4. ASSUME NEW j \in tracked PROVE Waits(j)' \/ j \in Range(running)' \/ Left(j)'
    <3>1. CASE j # id
      BY <2>1, <2>3, <3>1 DEF Live, Waits, Left, IsDoc
    <3>2. CASE j = id
      <4>1. status[id] \in Status /\ status[id] \notin {"ABSENT", "FINISHED", "WAITING_FOR_FSM"}
        BY <2>2, <3>2 DEF Live, Shape
      <4>2. status[id] = "RUNNING" \/ Left(id)
        BY <2>2, <4>1 DEF Status, Left
      <4> QED BY <2>1, <3>2, <4>2 DEF Live, Left, IsDoc
    <3> QED BY <3>1, <3>2
  <2> QED BY <2>1, <2>4 DEF Live
<1>8. CASE AttemptFails
  <2>1. PICK id \in Id : /\ AtLookup(id) /\ status' = [status EXCEPT ![id] = Cleared(id)]
                         /\ UNCHANGED queueVars
    BY <1>8 DEF AttemptFails, Attempts
  <2>2. id \in Range(waiting)
    BY <1>0, <2>1, RangeParts DEF AtLookup, InWaitingLoop
  <2>3. Cleared(id) \in {"WAITING", status[id]}
    BY DEF Cleared
  <2>4. status'[id] = Cleared(id) /\ \A j \in Id : j # id => status'[j] = status[j]
    BY <2>1 DEF Shape
  <2> QED BY <1>0, <2>1, <2>2, <2>3, <2>4 DEF Live, Waits, Left, IsDoc, queueVars
<1>9. CASE AttemptSucceeds
  <2>1. PICK id \in Id : /\ AtLookup(id) /\ status' = [status EXCEPT ![id] = "RUNNING"]
                         /\ waiting' = Tail(waiting) /\ running' = Append(running, id)
                         /\ UNCHANGED <<skipped, tracked>>
    BY <1>9 DEF AttemptSucceeds, Attempts
  <2>2. Range(waiting) = {id} \cup Range(waiting')
    BY <1>0, <2>1, RangeParts DEF AtLookup, InWaitingLoop
  <2>3. Range(running') = Range(running) \cup {id}
    <3>1. PICK u \in Seq(Id) : u = <<id>> /\ Range(u) = {id}
      BY Singleton
    <3>2. Range(running \o u) = Range(running) \cup Range(u)
      <4>1. running \in Seq(Id) /\ u \in Seq(Id)
        BY <1>0
      <4>2. PICK z : z = running \o u
        OBVIOUS
      <4>3. Joined(z, running, u)
        BY <4>2 DEF Joined
      <4>4. Range(z) = Range(running) \cup Range(u)
        BY <4>1, <4>3, RangeJoined
      <4> QED BY <4>2, <4>4
    <3>3. running' = running \o u
      BY <1>0, <2>1, <3>1
    <3> QED BY <3>1, <3>2, <3>3
  <2>4. status'[id] = "RUNNING" /\ \A j \in Id : j # id => status'[j] = status[j]
    BY <2>1 DEF Shape
  <2> QED BY <1>0, <2>1, <2>2, <2>3, <2>4 DEF Live, Waits, Left, IsDoc
<1>10. CASE FinishSchedule
  <2>1. /\ waiting' = skipped \o waiting /\ skipped' = <<>>
        /\ UNCHANGED <<running, tracked, status>>
    BY <1>10 DEF FinishSchedule, PutBack
  <2>2. Range(waiting') = Range(skipped) \cup Range(waiting)
    BY <1>0, <2>1, ConcatFacts
  <2> QED BY <2>1, <2>2, LiveRest DEF Waits
<1>11. CASE FinishRequest
  <2>1. idx \in 1..Len(running) /\ running # <<>>
    BY <1>11 DEF FinishRequest, Shape
  <2>2. PICK id \in Id : id = running[idx]
    BY <1>0, <2>1
  <2>3. Retire(id) /\ running' = RemoveAt(running, idx) /\ UNCHANGED <<waiting, skipped>>
    BY <1>11, <2>2 DEF FinishRequest
  <2>4. Range(running) = {id} \cup Range(running')
    BY <1>0, <2>1, <2>2, <2>3, RangeParts
  <2> QED BY <2>3, <2>4, LiveRetire DEF Waits
<1>12. ASSUME \/ \E r \in Request : CompileGrammar(r)
              \/ StartSchedule \/ RunningSchedule \/ EndRunning \/ KeepRunning \/ EndUpdate
              \/ UNCHANGED vars
       PROVE  Live'
  BY <1>1, <1>12 DEF CompileGrammar, StartSchedule, RunningSchedule, EndRunning, KeepRunning,
     EndUpdate, vars, reqVars
<1> QED
  BY <1>2, <1>3, <1>4, <1>5, <1>6, <1>7, <1>8, <1>9, <1>10, <1>11, <1>12
     DEF Next, Schedule, Update, Quiescent

(* Whoever self.requests knows is in a queue or running; only a document that   *)
(* was found cached before its turn may be in no queue.                         *)
THEOREM SchedulerForgets == Spec => []TrackedAreLive
<1>1. Init => Live
  BY DEF Init, Live
<1>2. Shape /\ Live => TrackedAreLive
  BY QueuedRange DEF Live, TrackedAreLive, Waits, Left
<1>3. Spec => []Live
  BY <1>1, LiveStep, ShapeAlways, PTL DEF Spec
<1> QED BY <1>2, <1>3, ShapeAlways, PTL
-----------------------------------------------------------------------------
(* The hypotheses about documents: a request with documents is not guided, and  *)
(* no document is cut by long_prefill_token_threshold.                         *)
DocumentsUnguided == \A r \in Guided : Docs[r] = <<>>
DocumentsUncut ==
    Threshold = 0 \/ \A r \in Request : \A d \in DOMAIN Docs[r] : Len(Docs[r][d]) <= Threshold

(* Who is where: each request in one queue, once, with the status of the queue; *)
(* only running requests hold blocks, and only guided ones are set aside.       *)
Apart ==
    /\ Distinct(waiting) /\ Distinct(skipped) /\ Distinct(running)
    /\ Range(waiting) \cap Range(skipped) = {}
    /\ Range(waiting) \cap Range(running) = {}
    /\ Range(skipped) \cap Range(running) = {}

Places ==
    /\ Apart
    /\ \A id \in Id : status[id] = "RUNNING" <=> id \in Range(running)
    /\ \A id \in Id : Waits(id) => status[id] \in {"WAITING", "WAITING_FOR_FSM", "PREEMPTED"}
    /\ \A id \in Id : status[id] = "WAITING_FOR_FSM" => id[1] \in Guided
    /\ \A id \in Id : table[id] # <<>> => id \in Range(running)
    /\ skipped # <<>> => pc \in {"waiting", "finish"}
    /\ \A id \in Range(skipped) : ~IsDoc(id) /\ id[1] \in Guided

(* A document that is about to be requested is in no queue.                     *)
NotAskedTwice ==
    InWaitingLoop /\ ~NeedsGrammar(Head(waiting)) =>
       \A d \in MissingDocs(Head(waiting)) :
          DocId(Head(waiting), d) \notin Range(waiting) \cup Range(running)

LEMMA RangesInId ==
    ASSUME Shape
    PROVE  /\ Range(waiting) \subseteq Id /\ Range(skipped) \subseteq Id /\ Range(running) \subseteq Id
           /\ waiting \in Seq(Id) /\ skipped \in Seq(Id) /\ running \in Seq(Id)
BY DistinctCount DEF Shape

LEMMA EmptyRange == Range(<<>>) = {} /\ Distinct(<<>>)
BY DEF Range, Distinct

LEMMA PlacesInit == Init => Places
BY EmptyRange DEF Init, Places, Apart, Waits

LEMMA PlacesSpawn ==
    ASSUME Shape, Places, NotAskedTwice, SpawnDocuments
    PROVE  Places'
<1>0. waiting \in Seq(Id) /\ waiting # <<>> /\ pc = "waiting"
  BY DEF SpawnDocuments, InWaitingLoop, Shape
<1>1. PICK id \in Id : id = Head(waiting)
  BY <1>0, SeqParts
<1>2. PICK missing : missing = Only(Positions(DocsOf(id)), MissingDocs(id))
  OBVIOUS
<1>3. PICK reqs : reqs = [k \in 1..Len(missing) |-> DocId(id, missing[k])]
  OBVIOUS
<1>4. /\ reqs \in Seq(Id) /\ Range(reqs) = {DocId(id, d) : d \in MissingDocs(id)}
      /\ Distinct(reqs) /\ Enqueued(reqs) = Reverse(reqs) \o waiting
  BY <1>2, <1>3, SpawnedFacts
<1>5. /\ waiting' = Reverse(reqs) \o waiting
      /\ status' = [j \in Id |-> IF j \in Range(reqs) THEN NewStatus(j)
                               ELSE IF j = id THEN Cleared(id) ELSE status[j]]
      /\ UNCHANGED <<running, skipped, table, pc>>
  BY <1>1, <1>2, <1>3, <1>4 DEF SpawnDocuments, kvVars, stepVars
<1>6. \A j \in Range(reqs) : j \in Id /\ j \notin Range(waiting) \cup Range(running) /\ IsDoc(j)
  <2> SUFFICES ASSUME NEW d \in MissingDocs(id)
               PROVE  /\ DocId(id, d) \in Id /\ IsDoc(DocId(id, d))
                      /\ DocId(id, d) \notin Range(waiting) \cup Range(running)
    BY <1>4
  <2>1. d \in DOMAIN DocsOf(id)
    BY DEF MissingDocs
  <2>2. DocId(id, d) \in Id /\ IsDoc(DocId(id, d))
    BY <2>1, DocsFacts
  <2> QED BY <1>1, <2>2 DEF NotAskedTwice, SpawnDocuments
<1>7. \A j \in Range(reqs) : j \notin Range(skipped)
  BY <1>6 DEF Places
<1>8. Distinct(waiting') /\ Range(waiting') = Range(reqs) \cup Range(waiting)
  <2>1. PICK u \in Seq(Id) : u = Reverse(reqs) /\ Range(u) = Range(reqs) /\ Distinct(u)
    BY <1>4, ReverseFacts
  <2>2. Range(u) \cap Range(waiting) = {}
    BY <1>6, <2>1
  <2>3. Range(u \o waiting) = Range(u) \cup Range(waiting) /\ Distinct(u \o waiting)
    BY <1>0, <2>1, <2>2, ConcatFacts DEF Places, Apart
  <2> QED BY <1>5, <2>1, <2>3
<1>9. Apart'
  BY <1>5, <1>6, <1>7, <1>8 DEF Places, Apart
<1>10. /\ \A j \in Id : NewStatus(j) \in {"WAITING", "WAITING_FOR_FSM"}
       /\ \A j \in Id : NewStatus(j) = "WAITING_FOR_FSM" => j[1] \in Guided
       /\ Cleared(id) \in {"WAITING", status[id]} /\ status[id] # "RUNNING"
       /\ Cleared(id) # "WAITING_FOR_FSM"
  <2>1. id \in Range(waiting)
    BY <1>0, <1>1, TailParts
  <2>2. status[id] # "RUNNING"
    BY <2>1 DEF Places, Apart
  <2> QED BY <2>2 DEF NewStatus, Cleared
<1>11. id \notin Range(running) /\ id \in Range(waiting)
  BY <1>0, <1>1, TailParts DEF Places, Apart
<1>12. ASSUME NEW j \in Id PROVE status'[j] = "RUNNING" <=> j \in Range(running')
  BY <1>5, <1>6, <1>10, <1>11 DEF Places
<1>13. ASSUME NEW j \in Id, Waits(j)'
       PROVE  status'[j] \in {"WAITING", "WAITING_FOR_FSM", "PREEMPTED"}
  <2>1. j \in Range(reqs) \/ Waits(j)
    BY <1>5, <1>8, <1>13 DEF Waits
  <2>2. Waits(id)
    BY <1>11 DEF Waits
  <2> QED BY <1>5, <1>10, <2>1, <2>2 DEF Places
<1>14. ASSUME NEW j \in Id, status'[j] = "WAITING_FOR_FSM" PROVE j[1] \in Guided
  BY <1>5, <1>10, <1>14 DEF Places
<1> QED BY <1>5, <1>9, <1>12, <1>13, <1>14 DEF Places

LEMMA PlacesKept ==
    ASSUME Shape, Places, UNCHANGED <<waiting, running, skipped, status, table>>,
           skipped # <<>> => pc' \in {"waiting", "finish"}
    PROVE  Places'
BY DEF Places, Apart, Waits

LEMMA PlacesStep ==
    ASSUME Shape, Places, NotAskedTwice, DocumentsUnguided, [Next]_vars
    PROVE  Places'
<1>0. /\ waiting \in Seq(Id) /\ running \in Seq(Id) /\ skipped \in Seq(Id)
      /\ Range(waiting) \subseteq Id /\ Range(skipped) \subseteq Id /\ Range(running) \subseteq Id
      /\ status \in [Id -> Status] /\ table \in [Id -> Seq(Block)] /\ pc \in Phase
  BY RangesInId DEF Shape, FreeExact
<1>a. Distinct(waiting) /\ Distinct(skipped) /\ Distinct(running)
  BY DEF Places, Apart
<1>1. ASSUME NEW r \in Request, AddRequest(r) PROVE Places'
  <2>1. PICK id \in Id : id = User(r) /\ id[1] = r
    BY UserFacts
  <2>2. /\ status' = [status EXCEPT ![id] = NewStatus(id)] /\ waiting' = Append(waiting, id)
        /\ UNCHANGED <<running, skipped, table, pc>> /\ status[id] = "ABSENT"
    BY <1>1, <2>1 DEF AddRequest, kvVars, stepVars
  <2>3. NewStatus(id) \in {"WAITING", "WAITING_FOR_FSM"}
        /\ (NewStatus(id) = "WAITING_FOR_FSM" => id[1] \in Guided)
    BY DEF NewStatus
  <2>4. ~Waits(id) /\ id \notin Range(running)
    BY <2>2 DEF Places
  <2>5. Range(waiting') = Range(waiting) \cup {id} /\ Distinct(waiting')
    <3>1. PICK u \in Seq(Id) : u = <<id>> /\ Range(u) = {id}
      BY Singleton
    <3>2. PICK w : w = waiting \o u
      OBVIOUS
    <3>3. waiting' = w
      BY <1>0, <2>2, <3>1, <3>2
    <3>4. id \notin Range(waiting)
      BY <2>4 DEF Waits
    <3>5. Range(w) = Range(waiting) \cup {id}
      <4>1. Range(waiting \o u) = Range(waiting) \cup Range(u)
        <5>1. waiting \in Seq(Id) /\ u \in Seq(Id)
          BY <1>0, <3>1
        <5>2. PICK z : z = waiting \o u
          OBVIOUS
        <5>3. Joined(z, waiting, u)
          BY <5>2 DEF Joined
        <5>4. Range(z) = Range(waiting) \cup Range(u)
          BY <5>1, <5>3, RangeJoined
        <5> QED BY <5>2, <5>4
      <4> QED BY <3>1, <3>2, <4>1
    <3>6. Distinct(w)
      BY <1>0, <1>a, <3>1, <3>2, <3>4, Appended
    <3> QED BY <3>3, <3>5, <3>6
  <2>6. status'[id] = NewStatus(id) /\ \A j \in Id : j # id => status'[j] = status[j]
    BY <1>0, <2>2
  <2>7. Apart'
    BY <2>2, <2>4, <2>5 DEF Places, Apart, Waits
  <2> QED BY <2>2, <2>3, <2>4, <2>5, <2>6, <2>7 DEF Places, Waits
<1>2. ASSUME NEW r \in Request, Abort(r) PROVE Places'
  <2>1. PICK id \in Id : id = User(r)
    BY UserFacts
  <2>2. PICK S : S = Id \ {id}
    OBVIOUS
  <2>3. /\ waiting' = Only(waiting, S) /\ running' = Only(running, S) /\ Retire(id)
        /\ UNCHANGED <<skipped, pc>> /\ pc = "idle"
    BY <1>2, <2>1, <2>2 DEF Abort, stepVars
  <2>4. Range(waiting') = Range(waiting) \cap S /\ Distinct(waiting')
    BY <1>0, <2>3, OnlyKeeps DEF Places, Apart
  <2>5. Range(running') = Range(running) \cap S /\ Distinct(running')
    BY <1>0, <2>3, OnlyKeeps DEF Places, Apart
  <2>6. skipped = <<>> /\ Range(skipped) = {}
    BY <2>3, EmptyRange DEF Places
  <2>7. status' = [status EXCEPT ![id] = "FINISHED"] /\ table' = [table EXCEPT ![id] = <<>>]
    BY <2>3, RetireShape DEF Retire
  <2>8. /\ status'[id] = "FINISHED" /\ table'[id] = <<>>
        /\ \A j \in Id : j # id => status'[j] = status[j] /\ table'[j] = table[j]
    BY <1>0, <2>7
  <2>9. Apart'
    BY <2>3, <2>4, <2>5, <2>6 DEF Places, Apart
  <2> QED BY <2>2, <2>3, <2>4, <2>5, <2>6, <2>8, <2>9 DEF Places, Waits
<1>3. CASE RunningPreempt
  <2>1. running # <<>> /\ pc = "running"
    BY <1>3 DEF RunningPreempt, InRunningLoop, Shape
  <2>2. PICK id \in Id : id = Last(running)
    BY <1>0, <2>1, SeqParts
  <2>3. /\ status' = [status EXCEPT ![id] = "PREEMPTED"] /\ running' = Front(running)
        /\ waiting' = <<id>> \o waiting /\ UNCHANGED skipped /\ FreeBlocks(id)
    BY <1>3, <2>2 DEF RunningPreempt
  <2>4. table' = [table EXCEPT ![id] = <<>>]
    BY <2>3 DEF FreeBlocks
  <2>5. /\ Range(running) = {id} \cup Range(running') /\ Distinct(running') /\ id \notin Range(running')
    BY <1>0, <2>1, <2>2, <2>3, FrontParts DEF Places, Apart
  <2>6. id \notin Range(waiting) /\ id \notin Range(skipped)
    BY <2>5 DEF Places, Apart
  <2>7. Range(waiting') = {id} \cup Range(waiting) /\ Distinct(waiting')
    <3>1. PICK w : w = <<id>> \o waiting
      OBVIOUS
    <3>2. Range(w) = {id} \cup Range(waiting)
      BY <1>0, <3>1, PrependRange
    <3>3. Distinct(w)
      BY <1>0, <1>a, <2>6, <3>1, PrependDistinct
    <3> QED BY <2>3, <3>1, <3>2, <3>3
  <2>8. /\ status'[id] = "PREEMPTED" /\ table'[id] = <<>>
        /\ \A j \in Id : j # id => status'[j] = status[j] /\ table'[j] = table[j]
    BY <1>0, <2>3, <2>4
  <2>9. skipped = <<>>
    BY <2>1 DEF Places
  <2>10. Apart'
    BY <2>3, <2>5, <2>6, <2>7 DEF Places, Apart
  <2> QED BY <2>3, <2>5, <2>6, <2>7, <2>8, <2>9, <2>10 DEF Places, Waits
<1>4. CASE SkipForGrammar
  <2>1. /\ waiting # <<>> /\ waiting' = Tail(waiting) /\ skipped' = <<Head(waiting)>> \o skipped
        /\ UNCHANGED <<running, status, table, pc>> /\ NeedsGrammar(Head(waiting)) /\ pc = "waiting"
    BY <1>4 DEF SkipForGrammar, InWaitingLoop, reqVars, kvVars, stepVars
  <2>2. PICK id \in Id : id = Head(waiting)
    BY <1>0, <2>1, SeqParts
  <2>3. Range(waiting) = {id} \cup Range(waiting') /\ Distinct(waiting') /\ id \notin Range(waiting')
    BY <1>0, <2>1, <2>2, TailParts DEF Places, Apart
  <2>4. id \notin Range(running) /\ id \notin Range(skipped)
    BY <2>3 DEF Places, Apart
  <2>5. Range(skipped') = {id} \cup Range(skipped) /\ Distinct(skipped')
    <3>1. PICK w : w = <<id>> \o skipped
      OBVIOUS
    <3>2. Range(w) = {id} \cup Range(skipped)
      BY <1>0, <3>1, PrependRange
    <3>3. Distinct(w)
      BY <1>0, <1>a, <2>4, <3>1, PrependDistinct
    <3> QED BY <2>1, <2>2, <3>1, <3>2, <3>3
  <2>6. id[1] \in Guided /\ ~IsDoc(id)
    <3>1. id[1] \in Guided
      BY <2>1, <2>2 DEF NeedsGrammar, Places
    <3>2. Docs[id[1]] = <<>>
      BY <3>1 DEF DocumentsUnguided
    <3>3. DOMAIN Docs[id[1]] = {}
      BY <3>2
    <3> QED BY <3>1, <3>3, IdFacts
  <2>7. Apart'
    BY <2>1, <2>3, <2>4, <2>5 DEF Places, Apart
  <2> QED BY <2>1, <2>3, <2>5, <2>6, <2>7 DEF Places, Waits
<1>5. CASE SpawnDocuments
  BY <1>5, PlacesSpawn
<1>6. CASE DropCachedDocument
  <2>1. /\ waiting # <<>> /\ waiting' = Tail(waiting)
        /\ UNCHANGED <<running, skipped, status, table, pc>>
    BY <1>6 DEF DropCachedDocument, AtLookup, InWaitingLoop, reqVars, stepVars
  <2>2. Range(waiting) = {Head(waiting)} \cup Range(waiting') /\ Distinct(waiting')
    BY <1>0, <2>1, TailParts DEF Places, Apart
  <2>3. Apart'
    BY <2>1, <2>2 DEF Places, Apart
  <2> QED BY <2>1, <2>2, <2>3 DEF Places, Waits
<1>7. CASE AttemptFails
  <2>1. PICK id \in Id : /\ AtLookup(id) /\ status' = [status EXCEPT ![id] = Cleared(id)]
                         /\ UNCHANGED <<waiting, running, skipped, table>> /\ pc' = "finish"
    BY <1>7 DEF AttemptFails, Attempts, queueVars
  <2>2. id \in Range(waiting) /\ id \notin Range(running)
    BY <1>0, <2>1, TailParts DEF AtLookup, InWaitingLoop, Places, Apart
  <2>3. Cleared(id) \in {"WAITING", status[id]} /\ Cleared(id) # "WAITING_FOR_FSM"
    BY DEF Cleared
  <2>4. status'[id] = Cleared(id) /\ \A j \in Id : j # id => status'[j] = status[j]
    BY <1>0, <2>1
  <2>5. Waits(id) /\ status[id] # "RUNNING"
    BY <2>2 DEF Waits, Places
  <2>6. Apart'
    BY <2>1 DEF Places, Apart
  <2> QED BY <2>1, <2>2, <2>3, <2>4, <2>5, <2>6 DEF Places, Waits
<1>8. CASE AttemptSucceeds
  <2>1. PICK id \in Id :
            /\ AtLookup(id) /\ status' = [status EXCEPT ![id] = "RUNNING"]
            /\ waiting' = Tail(waiting) /\ running' = Append(running, id)
            /\ UNCHANGED <<skipped, pc>>
            /\ \E hits : Allocate(id, HasDocs(id), AttemptHashes(id), hits,
                                  AttemptFrom(id), AttemptUpto(id))
    BY <1>8 DEF AttemptSucceeds, Attempts
  <2>t. PICK t : table' = [table EXCEPT ![id] = t]
    BY <2>1 DEF Allocate
  <2>2. waiting # <<>> /\ id = Head(waiting) /\ pc = "waiting"
    BY <2>1 DEF AtLookup, InWaitingLoop
  <2>3. Range(waiting) = {id} \cup Range(waiting') /\ Distinct(waiting') /\ id \notin Range(waiting')
    BY <1>0, <2>1, <2>2, TailParts DEF Places, Apart
  <2>4. id \notin Range(running) /\ id \notin Range(skipped)
    BY <2>3 DEF Places, Apart
  <2>5. Range(running') = Range(running) \cup {id} /\ Distinct(running')
    <3>1. PICK u \in Seq(Id) : u = <<id>> /\ Range(u) = {id}
      BY Singleton
    <3>2. PICK w : w = running \o u
      OBVIOUS
    <3>3. running' = w
      BY <1>0, <2>1, <3>1, <3>2
    <3>5. Range(w) = Range(running) \cup {id}
      <4>1. Range(running \o u) = Range(running) \cup Range(u)
        <5>1. running \in Seq(Id) /\ u \in Seq(Id)
          BY <1>0, <3>1
        <5>2. PICK z : z = running \o u
          OBVIOUS
        <5>3. Joined(z, running, u)
          BY <5>2 DEF Joined
        <5>4. Range(z) = Range(running) \cup Range(u)
          BY <5>1, <5>3, RangeJoined
        <5> QED BY <5>2, <5>4
      <4> QED BY <3>1, <3>2, <4>1
    <3>6. Distinct(w)
      BY <1>0, <1>a, <2>4, <3>1, <3>2, Appended
    <3> QED BY <3>3, <3>5, <3>6
  <2>6. /\ status'[id] = "RUNNING" /\ \A j \in Id : j # id => status'[j] = status[j]
        /\ \A j \in Id : j # id => table'[j] = table[j]
    BY <1>0, <2>1, <2>t
  <2>7. Apart'
    BY <2>1, <2>3, <2>4, <2>5 DEF Places, Apart
  <2> QED BY <2>1, <2>2, <2>3, <2>4, <2>5, <2>6, <2>7 DEF Places, Waits
<1>9. CASE FinishSchedule
  <2>1. /\ waiting' = skipped \o waiting /\ skipped' = <<>>
        /\ UNCHANGED <<running, status, table>>
    BY <1>9 DEF FinishSchedule, PutBack, kvVars
  <2>2. Range(waiting') = Range(skipped) \cup Range(waiting) /\ Distinct(waiting')
    BY <1>0, <2>1, ConcatFacts DEF Places, Apart
  <2>3. Apart' /\ Range(skipped') = {}
    BY <2>1, <2>2, EmptyRange DEF Places, Apart
  <2> QED BY <2>1, <2>2, <2>3 DEF Places, Waits
<1>10. CASE FinishRequest
  <2>1. idx \in 1..Len(running) /\ pc = "update"
    BY <1>10 DEF FinishRequest, Shape
  <2>2. PICK id \in Id : id = running[idx]
    BY <1>0, <2>1
  <2>3. Retire(id) /\ running' = RemoveAt(running, idx) /\ UNCHANGED <<waiting, skipped, pc>>
    BY <1>10, <2>2 DEF FinishRequest, stepVars
  <2>4. Range(running') = Range(running) \ {id} /\ Distinct(running')
    <3>1. PICK k \in 1..Len(running) : k = idx
      BY <2>1
    <3>2. /\ Range(RemoveAt(running, k)) = Range(running) \ {running[k]}
          /\ Distinct(RemoveAt(running, k))
      BY <1>0, <1>a, RemovedDistinct
    <3> QED BY <2>2, <2>3, <3>1, <3>2
  <2>5. status' = [status EXCEPT ![id] = "FINISHED"] /\ table' = [table EXCEPT ![id] = <<>>]
    BY <2>3, RetireShape DEF Retire
  <2>6. /\ status'[id] = "FINISHED" /\ table'[id] = <<>>
        /\ \A j \in Id : j # id => status'[j] = status[j] /\ table'[j] = table[j]
    BY <1>0, <2>5
  <2>7. id \in Range(running)
    BY <1>0, <2>1, <2>2, RangeHas
  <2>8. ~Waits(id)
    BY <2>7 DEF Places, Apart, Waits
  <2>9. Apart'
    BY <2>3, <2>4 DEF Places, Apart
  <2> QED BY <2>3, <2>4, <2>6, <2>8, <2>9 DEF Places, Waits
<1>11. CASE RunningSchedule
  <2>1. idx <= Len(running) /\ UNCHANGED <<waiting, running, skipped, status, pc>>
    BY <1>11 DEF RunningSchedule, InRunningLoop, queueVars, reqVars
  <2>2. PICK id \in Id : id = RunningHead /\ id = running[idx] /\ idx \in 1..Len(running)
    BY <2>1, HeadFacts DEF RunningHead
  <2>3. \E t : table' = [table EXCEPT ![id] = t]
    BY <1>11, <2>2 DEF RunningSchedule, Allocate
  <2>4. id \in Range(running)
    BY <1>0, <2>2, RangeHas
  <2>5. \A j \in Id : j # id => table'[j] = table[j]
    BY <1>0, <2>3
  <2>6. Apart'
    BY <2>1 DEF Places, Apart
  <2> QED BY <2>1, <2>4, <2>5, <2>6 DEF Places, Waits
<1>12. ASSUME \/ \E r \in Request : CompileGrammar(r)
              \/ StartSchedule \/ EndRunning \/ KeepRunning \/ EndUpdate
              \/ UNCHANGED vars
       PROVE  Places'
  <2>1. UNCHANGED <<waiting, running, skipped, status, table>>
    BY <1>12 DEF CompileGrammar, StartSchedule, EndRunning, KeepRunning,
       EndUpdate, vars, reqVars, queueVars, kvVars
  <2>2. pc' = pc \/ pc \in {"idle", "running", "update"}
    BY <1>12 DEF CompileGrammar, StartSchedule, EndRunning, KeepRunning,
       EndUpdate, vars, stepVars
  <2> QED BY <2>1, <2>2, PlacesKept DEF Places
<1> QED
  BY <1>1, <1>2, <1>3, <1>4, <1>5, <1>6, <1>7, <1>8, <1>9, <1>10, <1>11, <1>12
     DEF Next, Schedule, Update, Quiescent
-----------------------------------------------------------------------------
(* How many tokens a request has, and how many of them are scheduled.           *)
Total(id, m, o) == DocLen(id, m) + Len(PromptOf(id)) + o

LEMMA TotalTokens ==
    ASSUME NEW id \in Id, NEW m \in BOOLEAN, NEW o \in Nat
    PROVE  /\ Total(id, m, o) \in Nat
           /\ Len((IF m THEN FlattenSeq(DocsOf(id)) ELSE <<>>)
                     \o PromptOf(id) \o [i \in 1..o |-> GenToken]) = Total(id, m, o)
<1>1. FlattenSeq(DocsOf(id)) \in Seq(Int) /\ PromptOf(id) \in Seq(Int)
  BY DocsFacts, FlattenStep
<1>2. PICK g : g = [i \in 1..o |-> GenToken]
  OBVIOUS
<1>3. g \in Seq(Int) /\ Len(g) = o
  BY <1>2, SchedulerAssumption
<1>4. PICK p : p = IF m THEN FlattenSeq(DocsOf(id)) ELSE <<>>
  OBVIOUS
<1>5. p \in Seq(Int) /\ Len(p) = DocLen(id, m)
  <2>1. <<>> \in Seq(Int) /\ Len(<<>>) = 0
    OBVIOUS
  <2> QED BY <1>1, <1>4, <2>1 DEF DocLen
<1>7. (p \o PromptOf(id)) \in Seq(Int) /\ Len(p \o PromptOf(id)) = Len(p) + Len(PromptOf(id))
  BY <1>1, <1>5, ConcatProperties
<1>8. Len((p \o PromptOf(id)) \o g) = Len(p \o PromptOf(id)) + Len(g)
  BY <1>3, <1>7, ConcatProperties
<1>9. Len(p) \in Nat /\ Len(PromptOf(id)) \in Nat
  BY <1>1, <1>5
<1>10. Total(id, m, o) \in Nat
  BY <1>5, <1>9 DEF Total
<1>11. Len((p \o PromptOf(id)) \o g) = Total(id, m, o)
  BY <1>3, <1>5, <1>7, <1>8, <1>9 DEF Total
<1> QED BY <1>2, <1>4, <1>10, <1>11

LEMMA Totals ==
    ASSUME merged \in [Id -> BOOLEAN], out \in [Id -> Nat], NEW id \in Id
    PROVE  /\ NumTokens(id) = Total(id, merged[id], out[id]) /\ NumTokens(id) \in Nat
           /\ \A m \in BOOLEAN : Len(Tokens(id, m)) = Total(id, m, out[id])
<1>1. PICK o \in Nat : o = out[id]
  OBVIOUS
<1>2. \A m \in BOOLEAN : Len(Tokens(id, m)) = Total(id, m, out[id])
  BY <1>1, TotalTokens DEF Tokens
<1>3. merged[id] \in BOOLEAN
  OBVIOUS
<1>4. \A m \in BOOLEAN : Total(id, m, out[id]) \in Nat
  BY <1>1, TotalTokens
<1> QED BY <1>2, <1>3, <1>4 DEF NumTokens

LEMMA TotalsNext ==
    ASSUME merged' \in [Id -> BOOLEAN], out' \in [Id -> Nat], NEW id \in Id
    PROVE  NumTokens(id)' = Total(id, merged'[id], out'[id])
<1>1. PICK o \in Nat : o = out'[id]
  OBVIOUS
<1>2. PICK m \in BOOLEAN : m = merged'[id]
  OBVIOUS
<1>3. NumTokens(id)' = Len((IF m THEN FlattenSeq(DocsOf(id)) ELSE <<>>)
                             \o PromptOf(id) \o [i \in 1..o |-> GenToken])
  BY <1>1, <1>2 DEF NumTokens, Tokens
<1> QED BY <1>1, <1>2, <1>3, TotalTokens

LEMMA TotalGrows ==
    ASSUME NEW id \in Id, NEW o \in Nat, NEW p \in Nat, o <= p
    PROVE  /\ \A m \in BOOLEAN : Total(id, m, o) <= Total(id, m, p)
           /\ Total(id, FALSE, o) <= Total(id, TRUE, o)
           /\ \A m \in BOOLEAN : Total(id, m, o) \in Nat
           /\ Total(id, TRUE, o) = Len(FlattenSeq(DocsOf(id))) + Total(id, FALSE, o)
           /\ Len(FlattenSeq(DocsOf(id))) \in Nat
<1>1. FlattenSeq(DocsOf(id)) \in Seq(Int) /\ PromptOf(id) \in Seq(Int)
  BY DocsFacts, FlattenStep
<1>2. Len(FlattenSeq(DocsOf(id))) \in Nat /\ Len(PromptOf(id)) \in Nat
  BY <1>1
<1> QED BY <1>2 DEF Total, DocLen

LEMMA TotalMono ==
    ASSUME NEW id \in Id, NEW m \in BOOLEAN, NEW n \in BOOLEAN, m => n, NEW o \in Nat
    PROVE  Total(id, m, o) <= Total(id, n, o)
<1>1. FlattenSeq(DocsOf(id)) \in Seq(Int) /\ PromptOf(id) \in Seq(Int)
  BY DocsFacts, FlattenStep
<1>2. Len(FlattenSeq(DocsOf(id))) \in Nat /\ Len(PromptOf(id)) \in Nat
  BY <1>1
<1>3. CASE m
  BY <1>2, <1>3 DEF Total, DocLen
<1>4. CASE ~m
  BY <1>2, <1>4 DEF Total, DocLen
<1> QED BY <1>3, <1>4

LEMMA NumNewSplit ==
    ASSUME NEW n \in Nat, budget \in Nat, budget > 0
    PROVE  /\ NumNew(n) \in 0..n /\ NumNew(n) <= budget /\ NumNew(n) \in Nat
           /\ n > 0 => NumNew(n) > 0
           /\ NumNew(n) < budget /\ (Threshold = 0 \/ n <= Threshold) => NumNew(n) = n
<1>1. PICK c : c = IF Threshold > 0 THEN Threshold ELSE n
  OBVIOUS
<1>2. Threshold \in Nat
  BY SchedulerAssumption
<1>3. c \in Nat /\ (Threshold = 0 => c = n) /\ (Threshold # 0 => c = Threshold /\ c > 0)
  BY <1>1, <1>2
<1>4. NumNew(n) = Min({n, budget, c})
  BY <1>1 DEF NumNew
<1>5. PICK z : z = Min({n, budget, c})
  OBVIOUS
<1>6. z \in {n, budget, c} /\ z <= n /\ z <= budget /\ z <= c
  <2>1. n \in Int /\ budget \in Int /\ c \in Int
    BY <1>3
  <2>2. /\ Min({n, budget, c}) \in {n, budget, c}
        /\ Min({n, budget, c}) <= n /\ Min({n, budget, c}) <= budget /\ Min({n, budget, c}) <= c
    BY <2>1, MinOfThree
  <2> QED BY <1>5, <2>2
<1> QED BY <1>2, <1>3, <1>4, <1>5, <1>6

LEMMA CeilGrows ==
    ASSUME NEW a \in Nat, NEW b \in Nat, a <= b
    PROVE  /\ CeilDiv(a, BlockSize) <= CeilDiv(b, BlockSize)
           /\ CeilDiv(a, BlockSize) \in Nat /\ CeilDiv(b, BlockSize) \in Nat
           /\ CeilDiv(0, BlockSize) = 0
<1>1. PICK x \in Nat, y \in Nat : x = CeilDiv(a, BlockSize) /\ y = CeilDiv(b, BlockSize)
  BY Ceil
<1>2. b <= y * BlockSize /\ x * BlockSize < a + BlockSize
  BY <1>1, Ceil
<1>3. /\ x * BlockSize \in Int /\ y * BlockSize \in Int
      /\ y < x => y * BlockSize + BlockSize <= x * BlockSize
  BY Products
<1>4. BlockSize \in Nat /\ BlockSize >= 1
  BY SchedulerAssumption
<1>5. x <= y
  BY <1>2, <1>3, <1>4
<1>6. CeilDiv(0, BlockSize) = 0
  <2>1. PICK z \in Nat : z = CeilDiv(0, BlockSize)
    BY Ceil
  <2>2. z * BlockSize < 0 + BlockSize
    BY <2>1, Ceil
  <2>3. z * BlockSize \in Int /\ 0 * BlockSize = 0 /\ (0 < z => 0 * BlockSize + BlockSize <= z * BlockSize)
    BY <1>4, Products
  <2> QED BY <1>4, <2>1, <2>2, <2>3
<1> QED BY <1>1, <1>5, <1>6

LEMMA CeilExact ==
    ASSUME NEW n \in Nat
    PROVE  n * BlockSize \in Nat /\ CeilDiv(n * BlockSize, BlockSize) = n
<1>1. PICK a \in Nat : a = n * BlockSize
  <2>1. n * BlockSize \in Nat
    BY Products
  <2> QED BY <2>1
<1>2. PICK x \in Nat : x = CeilDiv(a, BlockSize)
  BY Ceil
<1>3. a <= x * BlockSize /\ x * BlockSize < a + BlockSize
  BY <1>2, Ceil
<1>4. /\ x * BlockSize \in Int
      /\ x < n => x * BlockSize + BlockSize <= n * BlockSize
      /\ n < x => n * BlockSize + BlockSize <= x * BlockSize
  BY Products
<1>5. BlockSize \in Nat /\ BlockSize >= 1
  BY SchedulerAssumption
<1> QED BY <1>1, <1>2, <1>3, <1>4, <1>5

(* The blocks a request finds in the cache are no more than it has tokens.      *)
LEMMA OwnHitBound ==
    ASSUME Shape, NEW id \in Id
    PROVE  Len(OwnHit(id)) \in Nat /\ Len(OwnHit(id)) * BlockSize <= NumTokens(id)
<1>1. PICK X : Key \subseteq X /\ hashes \in [Id -> Seq(X)]
  BY DEF Shape
<1>2. HashesOf(id) \in Seq(X) /\ OwnHit(id) \in Seq(X) /\ NumTokens(id) \in Nat
  BY <1>1, AttemptTypes DEF Shape
<1>3. PICK max : max = IF IsDoc(id) THEN NumTokens(id) ELSE NumTokens(id) - 1
  OBVIOUS
<1>4. OwnHit(id) = LongestHit(HashesOf(id), max) /\ max \in Int /\ max <= NumTokens(id)
  BY <1>2, <1>3 DEF OwnHit
<1>5. CASE max >= 0
  <2>1. PICK n \in 0..Len(HashesOf(id)) :
            Len(LongestHit(HashesOf(id), max)) = n /\ n * BlockSize <= max
    BY <1>2, <1>4, <1>5, HitPrefix
  <2>2. n \in Nat /\ n * BlockSize \in Int
    <3>1. n \in Nat
      BY <1>2
    <3> QED BY <3>1, Products
  <2> QED BY <1>2, <1>4, <2>1, <2>2
<1>6. CASE ~(max >= 0)
  <2>1. max = -1 /\ max \in Int
    BY <1>2, <1>3, <1>4, <1>6
  <2>2. PICK m : m = max \div BlockSize
    OBVIOUS
  <2>3. m = -1
    <3>1. BlockSize \in Nat /\ BlockSize >= 1
      BY SchedulerAssumption
    <3>2. (-1) * BlockSize <= max /\ max < (-1) * BlockSize + BlockSize /\ -1 \in Int /\ max \in Int
      BY <2>1, <3>1
    <3> QED BY <2>2, <3>2, DivisionUnique
  <2>4. Len(HashesOf(id)) \in Nat
    BY <1>2
  <2>5. PICK l : l = Min({Len(HashesOf(id)), m})
    OBVIOUS
  <2>6. l = -1
    BY <2>3, <2>4, <2>5, MinOfTwo
  <2>7. {i \in 1..l : ~Cached(HashesOf(id)[i])} = {}
    BY <2>6
  <2>8. LongestHit(HashesOf(id), max) = SubSeq(HashesOf(id), 1, l)
    BY <2>2, <2>5, <2>7 DEF LongestHit
  <2>9. SubSeq(HashesOf(id), 1, l) = <<>>
    BY <2>6
  <2>10. Len(OwnHit(id)) = 0 /\ 0 * BlockSize = 0
    <3>0. Len(<<>>) = 0
      OBVIOUS
    <3>1. Len(OwnHit(id)) = 0
      BY <1>4, <2>8, <2>9, <3>0
    <3> QED BY <3>1, SchedulerAssumption
  <2> QED BY <1>2, <2>10
<1> QED BY <1>5, <1>6

LEMMA DocsHitBound ==
    ASSUME NEW id \in Id
    PROVE  Len(DocsHit(id)) * BlockSize <= Len(FlattenSeq(DocsOf(id)))
<1> DEFINE Hit(d) == LongestHit(DocHashes(id)[d], Len(DocsOf(id)[d]))
<1>1. PICK n \in Nat : n = Len(DocsOf(id)) /\ DOMAIN DocsOf(id) = 1..n
  BY DocsFacts
<1>2. PICK h : h = [d \in DOMAIN DocsOf(id) |->
                       IF DropFirst /\ Hit(d) # <<>> THEN Tail(Hit(d)) ELSE Hit(d)]
  OBVIOUS
<1>3. \A d \in 1..n : /\ h[d] \in Seq(Key) /\ Len(h[d]) * BlockSize <= Len(DocsOf(id)[d])
                      /\ DocsOf(id)[d] \in Seq(Int)
  <2> TAKE d \in 1..n
  <2>1. /\ Hit(d) \in Seq(Key) /\ DocHashes(id)[d] \in Seq(Key) /\ DocsOf(id)[d] \in Seq(Int)
    BY <1>1, DocHit, DocsFacts
  <2>2. PICK k \in 0..Len(DocHashes(id)[d]) : Len(Hit(d)) = k /\ k * BlockSize <= Len(DocsOf(id)[d])
    <3>1. Len(DocsOf(id)[d]) \in Int /\ Len(DocsOf(id)[d]) >= 0
      BY <2>1
    <3> QED BY <2>1, <3>1, HitPrefix
  <2> HIDE DEF Hit
  <2>3. h[d] = IF DropFirst /\ Hit(d) # <<>> THEN Tail(Hit(d)) ELSE Hit(d)
    BY <1>1, <1>2
  <2>4. h[d] \in Seq(Key) /\ Len(h[d]) \in 0..k /\ k \in Nat
    BY <2>1, <2>2, <2>3
  <2>5. PICK j \in 0..k : j = Len(h[d])
    BY <2>4
  <2>6. j * BlockSize <= k * BlockSize /\ j * BlockSize \in Int /\ k * BlockSize \in Int
    <3>1. j \in Int /\ k \in Int /\ j <= k
      BY <2>4, <2>5
    <3> QED BY <3>1, Products
  <2>7. Len(DocsOf(id)[d]) \in Int
    BY <2>1
  <2> QED BY <2>1, <2>2, <2>4, <2>5, <2>6, <2>7
<1> HIDE DEF Hit
<1>4. h \in Seq(Seq(Key)) /\ Len(h) = n /\ DocsOf(id) \in Seq(Seq(Int))
  BY <1>1, <1>2, <1>3, DocsFacts
<1>5. DocsHit(id) = FlattenSeq(h)
  BY <1>2 DEF DocsHit, Hit
<1>6. PICK D \in Seq(Seq(Int)) : D = DocsOf(id)
  BY <1>4
<1> DEFINE A(i) == FlattenSeq(SubSeq(h, 1, i))
           B(i) == FlattenSeq(SubSeq(D, 1, i))
           Fits(i) == /\ A(i) \in Seq(Key) /\ B(i) \in Seq(Int)
                      /\ Len(A(i)) * BlockSize <= Len(B(i))
           T == {i \in 0..n : Fits(i)}
<1>7. /\ \A i \in 1..n : A(i) = A(i - 1) \o h[i]
      /\ \A i \in 1..n : B(i) = B(i - 1) \o D[i]
      /\ FlattenSeq(<<>>) = <<>>
  BY <1>1, <1>4, <1>6, FlattenStep
<1>8. A(0) = <<>> /\ B(0) = <<>> /\ A(n) = FlattenSeq(h) /\ B(n) = FlattenSeq(D)
  <2>1. SubSeq(h, 1, 0) = <<>> /\ SubSeq(D, 1, 0) = <<>>
    OBVIOUS
  <2>2. SubSeq(h, 1, n) = h
    BY <1>4
  <2>3. SubSeq(D, 1, n) = D
    BY <1>1, <1>6
  <2> QED BY <1>7, <2>1, <2>2, <2>3
<1> HIDE DEF A, B
<1>9. 0 \in T
  <2>1. <<>> \in Seq(Key) /\ <<>> \in Seq(Int) /\ Len(<<>>) = 0 /\ 0 * BlockSize = 0
    BY SchedulerAssumption
  <2>2. A(0) \in Seq(Key) /\ B(0) \in Seq(Int) /\ Len(A(0)) = 0 /\ Len(B(0)) = 0
    BY <1>8, <2>1
  <2>3. Len(A(0)) * BlockSize <= Len(B(0))
    BY <2>1, <2>2
  <2>4. Fits(0)
    BY <2>2, <2>3
  <2> QED BY <1>1, <2>4
<1>10. ASSUME NEW i \in 0..n-1, i \in T PROVE i + 1 \in T
  <2>1. A(i) \in Seq(Key) /\ B(i) \in Seq(Int) /\ Len(A(i)) * BlockSize <= Len(B(i))
    BY <1>10
  <2>2. PICK j \in 1..n : j = i + 1 /\ j - 1 = i
    OBVIOUS
  <2>3. /\ h[j] \in Seq(Key) /\ D[j] \in Seq(Int) /\ Len(h[j]) * BlockSize <= Len(D[j])
    BY <1>3, <1>6
  <2>4. A(j) = A(i) \o h[j] /\ B(j) = B(i) \o D[j]
    BY <1>7, <2>2
  <2>5. A(j) \in Seq(Key) /\ Len(A(j)) = Len(A(i)) + Len(h[j])
    BY <2>1, <2>3, <2>4
  <2>6. B(j) \in Seq(Int) /\ Len(B(j)) = Len(B(i)) + Len(D[j])
    BY <2>1, <2>3, <2>4
  <2>7. PICK a \in Nat, c \in Nat : a = Len(A(i)) /\ c = Len(h[j])
    BY <2>1, <2>3
  <2>8. (a + c) * BlockSize = a * BlockSize + c * BlockSize /\ a * BlockSize \in Int /\ c * BlockSize \in Int
    <3>1. a \in Int /\ c \in Int
      OBVIOUS
    <3> QED BY <3>1, Products
  <2>9. Len(B(i)) \in Nat /\ Len(D[j]) \in Nat
    BY <2>1, <2>3
  <2>10. Len(A(j)) * BlockSize <= Len(B(j))
    BY <2>1, <2>3, <2>5, <2>6, <2>7, <2>8, <2>9, SMTT(30)
  <2> QED BY <2>2, <2>5, <2>6, <2>10
<1>11. \A i \in 0..n : i \in T
  <2> HIDE DEF T
  <2> QED BY <1>9, <1>10, BoundedInduction
<1>12. Fits(n)
  BY <1>1, <1>11
<1> QED BY <1>5, <1>6, <1>8, <1>12

LEMMA AttemptBound ==
    ASSUME Shape, NEW id \in Id, merged[id] => HasDocs(id)
    PROVE  /\ AttemptFrom(id) \in Nat /\ AttemptFrom(id) <= Total(id, HasDocs(id), out[id])
           /\ Len(AttemptHit(id)) \in Nat /\ AttemptFrom(id) = Len(AttemptHit(id)) * BlockSize
<1>1. out[id] \in Nat /\ merged[id] \in BOOLEAN /\ HasDocs(id) \in BOOLEAN
  BY DEF Shape, HasDocs
<1>2. NumTokens(id) = Total(id, merged[id], out[id]) /\ NumTokens(id) \in Nat
  BY Totals DEF Shape
<1>3. Len(OwnHit(id)) \in Nat /\ Len(OwnHit(id)) * BlockSize <= NumTokens(id)
  BY OwnHitBound
<1>4. AttemptFrom(id) \in Nat
  BY AttemptNumbers
<1>5. PICK a \in Nat : a = Len(OwnHit(id))
  BY <1>3
<1>6. AttemptFrom(id) = Len(AttemptHit(id)) * BlockSize
  BY DEF AttemptFrom
<1>7. CASE JustMerges(id)
  <2>1. HasDocs(id) /\ ~merged[id] /\ merged[id] = FALSE /\ HasDocs(id) = TRUE
    BY <1>1, <1>7 DEF JustMerges
  <2>2. AttemptHit(id) = DocsHit(id) \o OwnHit(id)
    BY <1>7 DEF AttemptHit
  <2>3. PICK X : /\ Key \subseteq X /\ hashes \in [Id -> Seq(X)]
    BY DEF Shape
  <2>4. OwnHit(id) \in Seq(X) /\ DocsHit(id) \in Seq(X)
    BY <1>1, <2>3, AttemptTypes, DocsHitType, SeqMonotonic
  <2>5. PICK b \in Nat : b = Len(DocsHit(id))
    BY <2>4
  <2>6. Len(AttemptHit(id)) = b + a
    BY <1>5, <2>2, <2>4, <2>5
  <2>7. b * BlockSize <= Len(FlattenSeq(DocsOf(id)))
    BY <2>5, DocsHitBound
  <2>8. (b + a) * BlockSize = b * BlockSize + a * BlockSize /\ b * BlockSize \in Int /\ a * BlockSize \in Int
    BY Products
  <2>9. /\ Total(id, TRUE, out[id]) = Len(FlattenSeq(DocsOf(id))) + Total(id, FALSE, out[id])
        /\ Len(FlattenSeq(DocsOf(id))) \in Nat /\ Total(id, FALSE, out[id]) \in Nat
    <3>1. PICK o \in Nat : o = out[id]
      BY <1>1
    <3>2. o <= o
      OBVIOUS
    <3> QED BY <3>1, <3>2, TotalGrows
  <2>10. Total(id, FALSE, out[id]) = NumTokens(id) /\ Total(id, HasDocs(id), out[id]) = Total(id, TRUE, out[id])
    BY <1>2, <2>1
  <2>11. AttemptFrom(id) = b * BlockSize + a * BlockSize /\ Len(AttemptHit(id)) \in Nat
    BY <1>6, <2>6, <2>8
  <2>12. a * BlockSize <= NumTokens(id)
    BY <1>3, <1>5
  <2>13. PICK f \in Nat, p \in Int, q \in Int :
            f = Len(FlattenSeq(DocsOf(id))) /\ p = b * BlockSize /\ q = a * BlockSize
    BY <2>8, <2>9
  <2>14. /\ AttemptFrom(id) = p + q /\ p <= f /\ q <= NumTokens(id)
         /\ Total(id, HasDocs(id), out[id]) = f + NumTokens(id)
    BY <2>7, <2>9, <2>10, <2>11, <2>12, <2>13
  <2>15. AttemptFrom(id) <= Total(id, HasDocs(id), out[id])
    BY <1>2, <2>13, <2>14
  <2> QED BY <1>4, <1>6, <2>11, <2>15
<1>8. CASE ~JustMerges(id)
  <2>1. merged[id] = HasDocs(id)
    BY <1>1, <1>8 DEF JustMerges
  <2>2. AttemptHit(id) = OwnHit(id)
    BY <1>8 DEF AttemptHit
  <2> QED BY <1>2, <1>3, <1>4, <1>6, <2>1, <2>2
<1> QED BY <1>7, <1>8
-----------------------------------------------------------------------------
(* How far each request is: what is scheduled is within the budget and part of  *)
(* what the request lacks, it belongs to a running request the loop has passed, *)
(* and the blocks are those its tokens fill.                                   *)
Amounts ==
    /\ budget \in 0..TokenBudget
    /\ \A id \in Id : /\ computed[id] \in Nat /\ scheduled[id] \in 0..TokenBudget
                      /\ merged[id] => HasDocs(id)
                      /\ DoneUpto(id) <= Total(id, merged[id], out[id])

Marks ==
    /\ \A id \in Id : scheduled[id] > 0 => /\ pc # "idle"
                                           /\ pc # "update" => id \in Range(running)
    /\ pc = "running" => \A i \in 1..Len(running) : i >= idx => scheduled[running[i]] = 0

Fills == \A id \in Range(running) : Len(table[id]) = CeilDiv(DoneUpto(id), BlockSize)

Counts == Amounts /\ Marks /\ Fills

LEMMA CountTypes ==
    ASSUME Shape, Counts
    PROVE  /\ budget \in Nat /\ budget <= TokenBudget /\ TokenBudget \in Nat /\ TokenBudget > 0
           /\ computed \in [Id -> Nat] /\ scheduled \in [Id -> Nat] /\ out \in [Id -> Nat]
           /\ merged \in [Id -> BOOLEAN]
           /\ \A id \in Id : DoneUpto(id) \in Nat /\ Total(id, merged[id], out[id]) \in Nat
<1>1. /\ computed \in [Id -> Int] /\ scheduled \in [Id -> Int] /\ out \in [Id -> Nat]
      /\ merged \in [Id -> BOOLEAN]
  BY DEF Shape
<1>2. TokenBudget \in Nat /\ TokenBudget > 0
  BY SchedulerAssumption
<1>3. computed \in [Id -> Nat] /\ scheduled \in [Id -> Nat]
  BY <1>1, <1>2 DEF Counts, Amounts
<1>4. budget \in Nat /\ budget <= TokenBudget
  BY <1>2 DEF Counts, Amounts
<1>5. ASSUME NEW id \in Id PROVE DoneUpto(id) \in Nat
  BY <1>3 DEF DoneUpto
<1>6. ASSUME NEW id \in Id PROVE Total(id, merged[id], out[id]) \in Nat
  BY <1>1, TotalTokens
<1> QED BY <1>1, <1>2, <1>3, <1>4, <1>5, <1>6

(* One iteration of the running loop gives request id its next tokens.          *)
Ran(id, from, upto) ==
    /\ pc = "running" /\ budget > 0 /\ idx \in 1..Len(running) /\ id = running[idx]
    /\ id \in Range(running) /\ from = computed[id] /\ scheduled[id] = 0
    /\ from <= upto /\ upto <= Total(id, merged[id], out[id]) /\ upto - from <= budget
    /\ upto - from < budget /\ (Threshold = 0 \/ Total(id, merged[id], out[id]) - from <= Threshold)
          => upto = Total(id, merged[id], out[id])
    /\ from < Total(id, merged[id], out[id]) => from < upto
    /\ CanAllocate(id, <<>>, upto)
    /\ Allocate(id, merged[id], hashes[id], <<>>, from, upto)
    /\ scheduled' = [scheduled EXCEPT ![id] = upto - from]
    /\ budget' = budget - (upto - from)
    /\ idx' = idx + 1
    /\ UNCHANGED <<queueVars, reqVars, grammar, pc, preempted>>

LEMMA RunStep ==
    ASSUME Shape, Places, Counts, RunningSchedule
    PROVE  \E id \in Id, from \in Nat, upto \in Nat : Ran(id, from, upto)
<1>1. pc = "running" /\ budget > 0 /\ idx <= Len(running)
  BY DEF RunningSchedule, InRunningLoop
<1>2. PICK id \in Id : id = running[idx] /\ idx \in 1..Len(running) /\ id = RunningHead
  BY <1>1, HeadFacts DEF RunningHead
<1>3. PICK from \in Nat : from = computed[id]
  BY CountTypes
<1>4. PICK n \in Nat : n = Total(id, merged[id], out[id])
  BY CountTypes
<1>5. NumTokens(id) = n
  BY <1>4, CountTypes, Totals
<1>6. scheduled[id] = 0
  <2>1. idx \in Nat /\ idx >= idx
    BY DEF Shape
  <2> QED BY <1>1, <1>2, <2>1 DEF Counts, Marks
<1>7. from <= n
  <2>1. DoneUpto(id) = from
    BY <1>1, <1>3, <1>6 DEF DoneUpto
  <2>2. DoneUpto(id) <= n
    BY <1>4 DEF Counts, Amounts
  <2> QED BY <2>1, <2>2
<1>8. PICK m \in Nat : m = n - from
  BY <1>7
<1>9. /\ NumNew(m) \in 0..m /\ NumNew(m) <= budget /\ NumNew(m) \in Nat
      /\ m > 0 => NumNew(m) > 0
      /\ NumNew(m) < budget /\ (Threshold = 0 \/ m <= Threshold) => NumNew(m) = m
  BY <1>1, CountTypes, NumNewSplit
<1>10. PICK upto \in Nat : upto = RunningUpto /\ upto = from + NumNew(m)
  BY <1>2, <1>3, <1>5, <1>8, <1>9 DEF RunningUpto
<1>11. PICK k \in Nat : k = NumNew(m)
  BY <1>9
<1>12. /\ from <= upto /\ upto <= n /\ upto - from <= budget /\ upto - from = k
       /\ upto - from < budget /\ (Threshold = 0 \/ n - from <= Threshold) => upto = n
       /\ from < n => from < upto
  BY <1>7, <1>8, <1>9, <1>10, <1>11
<1>13. /\ CanAllocate(id, <<>>, upto)
       /\ Allocate(id, merged[id], hashes[id], <<>>, from, upto)
       /\ scheduled' = [scheduled EXCEPT ![id] = upto - from]
       /\ budget' = budget - (upto - from)
       /\ idx' = idx + 1
       /\ UNCHANGED <<queueVars, reqVars, grammar, pc, preempted>>
  BY <1>2, <1>3, <1>10 DEF RunningSchedule
<1>14. id \in Range(running)
  BY <1>2, RangeHas DEF Shape
<1> QED BY <1>1, <1>2, <1>3, <1>4, <1>6, <1>12, <1>13, <1>14 DEF Ran

(* One iteration of the waiting loop schedules request id, the head.            *)
Tried(id, hits, from, upto) ==
    /\ Attempts(id) /\ id = Head(waiting) /\ waiting # <<>> /\ pc = "waiting" /\ budget > 0
    /\ id \in Range(waiting) /\ id \notin Range(running) /\ table[id] = <<>> /\ scheduled[id] = 0
    /\ hits \in BlocksWith(AttemptHit(id))
    /\ from = AttemptFrom(id) /\ from = Len(hits) * BlockSize /\ Len(hits) = Len(AttemptHit(id))
    /\ from <= upto /\ upto <= Total(id, HasDocs(id), out[id]) /\ upto - from <= budget
    /\ upto - from < budget /\ (Threshold = 0 \/ Total(id, HasDocs(id), out[id]) - from <= Threshold)
          => upto = Total(id, HasDocs(id), out[id])
    /\ from < Total(id, HasDocs(id), out[id]) => from < upto
    /\ CanAllocate(id, hits, upto)
    /\ Allocate(id, HasDocs(id), AttemptHashes(id), hits, from, upto)
    /\ merged' = [merged EXCEPT ![id] = HasDocs(id)]
    /\ status' = [status EXCEPT ![id] = "RUNNING"]
    /\ computed' = [computed EXCEPT ![id] = from]
    /\ waiting' = Tail(waiting)
    /\ running' = Append(running, id)
    /\ scheduled' = [scheduled EXCEPT ![id] = upto - from]
    /\ budget' = budget - (upto - from)
    /\ UNCHANGED <<skipped, tracked, out, grammar, pc, idx, preempted>>

LEMMA AttemptStep ==
    ASSUME Shape, Places, Counts, AttemptSucceeds
    PROVE  \E id \in Id, hits \in Seq(Block), from \in Nat, upto \in Nat : Tried(id, hits, from, upto)
<1>1. PICK id \in Id :
          /\ Attempts(id)
          /\ \E hits \in BlocksWith(AttemptHit(id)) :
                /\ CanAllocate(id, hits, AttemptUpto(id))
                /\ Allocate(id, HasDocs(id), AttemptHashes(id), hits,
                            AttemptFrom(id), AttemptUpto(id))
          /\ merged' = [merged EXCEPT ![id] = HasDocs(id)]
          /\ status' = [status EXCEPT ![id] = "RUNNING"]
          /\ computed' = [computed EXCEPT ![id] = AttemptFrom(id)]
          /\ waiting' = Tail(waiting)
          /\ running' = Append(running, id)
          /\ scheduled' = [scheduled EXCEPT ![id] = AttemptUpto(id) - AttemptFrom(id)]
          /\ budget' = budget - (AttemptUpto(id) - AttemptFrom(id))
          /\ UNCHANGED <<skipped, tracked, out, grammar, pc, idx, preempted>>
  BY DEF AttemptSucceeds
<1>2. id = Head(waiting) /\ waiting # <<>> /\ pc = "waiting" /\ budget > 0
  BY <1>1 DEF Attempts, AtLookup, InWaitingLoop
<1>3. id \in Range(waiting) /\ id \notin Range(running)
  <2>1. waiting \in Seq(Id)
    BY DEF Shape
  <2>2. Range(waiting) = {id} \cup Range(Tail(waiting))
    BY <1>2, <2>1, TailParts
  <2> QED BY <2>2 DEF Places, Apart
<1>4. table[id] = <<>> /\ scheduled[id] = 0
  <2>1. table[id] = <<>>
    BY <1>3 DEF Places
  <2>2. scheduled[id] \in Nat
    BY CountTypes
  <2>3. ~(scheduled[id] > 0)
    BY <1>2, <1>3 DEF Counts, Marks
  <2> QED BY <2>1, <2>2, <2>3
<1>5. PICK hits \in BlocksWith(AttemptHit(id)) :
                /\ CanAllocate(id, hits, AttemptUpto(id))
                /\ Allocate(id, HasDocs(id), AttemptHashes(id), hits,
                            AttemptFrom(id), AttemptUpto(id))
  BY <1>1
<1>6. hits \in Seq(Block) /\ Len(hits) = Len(AttemptHit(id))
  <2>1. PICK X : AttemptHit(id) \in Seq(X)
    BY AttemptNumbers
  <2> QED BY <1>5, <2>1, BlocksWithFacts
<1>7. PICK n \in Nat : n = Total(id, HasDocs(id), out[id]) /\ n = Len(Tokens(id, HasDocs(id)))
  <2>1. out[id] \in Nat /\ HasDocs(id) \in BOOLEAN
    BY DEF Shape, HasDocs
  <2>2. Total(id, HasDocs(id), out[id]) \in Nat
    BY <2>1, TotalTokens
  <2>3. Len(Tokens(id, HasDocs(id))) = Total(id, HasDocs(id), out[id])
    BY <2>1, CountTypes, Totals
  <2> QED BY <2>2, <2>3
<1>8. PICK from \in Nat : from = AttemptFrom(id) /\ from <= n /\ from = Len(hits) * BlockSize
  <2>1. merged[id] => HasDocs(id)
    BY DEF Counts, Amounts
  <2>2. AttemptFrom(id) \in Nat /\ AttemptFrom(id) <= n /\ AttemptFrom(id) = Len(AttemptHit(id)) * BlockSize
    BY <1>7, <2>1, AttemptBound
  <2> QED BY <1>6, <2>2
<1>9. PICK m \in Nat : m = n - from
  BY <1>8
<1>10. /\ NumNew(m) \in 0..m /\ NumNew(m) <= budget /\ NumNew(m) \in Nat
       /\ m > 0 => NumNew(m) > 0
       /\ NumNew(m) < budget /\ (Threshold = 0 \/ m <= Threshold) => NumNew(m) = m
  BY <1>2, CountTypes, NumNewSplit
<1>11. PICK upto \in Nat : upto = AttemptUpto(id) /\ upto = from + NumNew(m)
  BY <1>7, <1>8, <1>9, <1>10 DEF AttemptUpto
<1>12. PICK k \in Nat : k = NumNew(m)
  BY <1>10
<1>13. /\ from <= upto /\ upto <= n /\ upto - from <= budget /\ upto - from = k
       /\ upto - from < budget /\ (Threshold = 0 \/ n - from <= Threshold) => upto = n
       /\ from < n => from < upto
  BY <1>8, <1>9, <1>10, <1>11, <1>12
<1>14. /\ computed' = [computed EXCEPT ![id] = from]
       /\ scheduled' = [scheduled EXCEPT ![id] = upto - from]
       /\ budget' = budget - (upto - from)
       /\ CanAllocate(id, hits, upto)
       /\ Allocate(id, HasDocs(id), AttemptHashes(id), hits, from, upto)
  BY <1>1, <1>5, <1>8, <1>11
<1>15. Tried(id, hits, from, upto)
  BY <1>1, <1>2, <1>3, <1>4, <1>5, <1>6, <1>7, <1>8, <1>13, <1>14 DEF Tried
<1> QED BY <1>6, <1>15

(* The table after an allocation holds what was there, the hits and the fresh   *)
(* blocks, and is as long as the tokens need.                                  *)
Asked(id, m, hs, hits, from, upto) ==
    /\ hits \in Seq(Block) /\ from <= upto
    /\ Len(table[id]) + Len(hits) = CeilDiv(from, BlockSize)
    /\ CanAllocate(id, hits, upto) /\ Allocate(id, m, hs, hits, from, upto)

Given(id, m, hs, hits, from, upto, fresh) ==
    /\ Taken(id, hits, upto, fresh) /\ Allocated(id, m, hs, hits, from, upto, fresh)
    /\ table[id] \o hits \o fresh \in Seq(Block)
    /\ Len(table[id] \o hits \o fresh) = CeilDiv(upto, BlockSize)
    /\ table' = [table EXCEPT ![id] = table[id] \o hits \o fresh]

LEMMA Grown ==
    ASSUME Shape, NEW id \in Id, NEW m, NEW hs, NEW hits,
           NEW from \in Nat, NEW upto \in Nat, Asked(id, m, hs, hits, from, upto)
    PROVE  \E fresh \in Seq(Block) : Given(id, m, hs, hits, from, upto, fresh)
<1>0. /\ hits \in Seq(Block) /\ from <= upto
      /\ Len(table[id]) + Len(hits) = CeilDiv(from, BlockSize)
      /\ CanAllocate(id, hits, upto) /\ Allocate(id, m, hs, hits, from, upto)
  BY DEF Asked
<1>1. table[id] \in Seq(Block) /\ free \in Seq(Block) /\ Distinct(free)
  BY DEF Shape, FreeExact
<1>2. PICK a \in Nat, b \in Nat : a = Len(table[id]) /\ b = Len(hits)
  BY <1>0, <1>1
<1>3. PICK c \in Nat, d \in Nat : c = CeilDiv(from, BlockSize) /\ d = CeilDiv(upto, BlockSize) /\ c <= d
  BY <1>0, CeilGrows
<1>4. PICK n \in Nat : n = NewBlocks(id, hits, upto) /\ n = d - a - b
  <2>1. upto \in Int
    OBVIOUS
  <2>2. /\ NewBlocks(id, hits, upto) \in Nat
        /\ NewBlocks(id, hits, upto) >= d - b - a
        /\ NewBlocks(id, hits, upto) \in {0, d - b - a}
    BY <1>0, <1>1, <1>2, <1>3, <2>1, NewBlocksType
  <2>3. a + b = c
    BY <1>0, <1>2, <1>3
  <2> QED BY <1>3, <2>2, <2>3
<1>5. PICK fresh : Taken(id, hits, upto, fresh) /\ Allocated(id, m, hs, hits, from, upto, fresh)
  BY <1>0, <1>1, <1>4, AllocateTakes
<1>6. fresh \in Seq(Block) /\ Len(fresh) = n
  BY <1>4, <1>5 DEF Taken
<1>7. table[id] \o hits \in Seq(Block) /\ Len(table[id] \o hits) = a + b
  BY <1>0, <1>1, <1>2, ConcatProperties
<1>8. table[id] \o hits \o fresh \in Seq(Block) /\ Len(table[id] \o hits \o fresh) = (a + b) + n
  <2>1. PICK u \in Seq(Block) : u = table[id] \o hits /\ Len(u) = a + b
    BY <1>7
  <2>2. u \o fresh \in Seq(Block) /\ Len(u \o fresh) = Len(u) + Len(fresh)
    BY <1>6, <2>1, ConcatProperties
  <2> QED BY <1>6, <2>1, <2>2
<1>9. Len(table[id] \o hits \o fresh) = d
  BY <1>4, <1>8
<1>10. table' = [table EXCEPT ![id] = table[id] \o hits \o fresh]
  BY <1>5 DEF Allocated
<1> QED BY <1>3, <1>5, <1>6, <1>8, <1>9, <1>10 DEF Given
LEMMA CountsInit == Init => Counts
<1> SUFFICES ASSUME Init PROVE Counts
  OBVIOUS
<1>1. \A id \in Id : Total(id, FALSE, 0) \in Nat
  BY TotalTokens
<1>2. TokenBudget \in Nat
  BY SchedulerAssumption
<1>3. \A id \in Id : computed[id] = 0 /\ scheduled[id] = 0 /\ merged[id] = FALSE /\ out[id] = 0
  BY DEF Init
<1>4. Amounts
  <2>1. budget = 0 /\ budget \in 0..TokenBudget
    BY <1>2 DEF Init
  <2>2. ASSUME NEW id \in Id PROVE DoneUpto(id) <= Total(id, merged[id], out[id])
    <3>1. DoneUpto(id) = 0
      BY <1>3 DEF DoneUpto
    <3>2. Total(id, merged[id], out[id]) \in Nat
      BY <1>1, <1>3
    <3> QED BY <3>1, <3>2
  <2>3. ASSUME NEW id \in Id PROVE /\ computed[id] \in Nat /\ scheduled[id] \in 0..TokenBudget
                                   /\ merged[id] => HasDocs(id)
    BY <1>2, <1>3
  <2> QED BY <2>1, <2>2, <2>3 DEF Amounts
<1>5. Marks
  BY <1>3 DEF Marks, Init
<1>6. Fills
  BY EmptyRange DEF Fills, Init
<1> QED BY <1>4, <1>5, <1>6 DEF Counts

(* Steps that leave the amounts alone.                                         *)
LEMMA CountsKept ==
    ASSUME Shape, Shape', Counts, UNCHANGED <<computed, scheduled, out, running, table, budget>>,
           \/ pc' = pc /\ idx' = idx
           \/ pc \in {"running", "waiting"} /\ pc' \in {"waiting", "finish"},
           \A id \in Id : (merged[id] => merged'[id]) /\ (merged'[id] => HasDocs(id))
    PROVE  Counts'
<1>1. /\ budget \in Nat /\ TokenBudget \in Nat /\ out \in [Id -> Nat]
      /\ computed \in [Id -> Nat] /\ scheduled \in [Id -> Nat]
      /\ merged \in [Id -> BOOLEAN] /\ merged' \in [Id -> BOOLEAN]
  BY CountTypes DEF Shape
<1>2. ASSUME NEW id \in Id PROVE DoneUpto(id)' = DoneUpto(id)
  BY DEF DoneUpto
<1>3. ASSUME NEW id \in Id PROVE DoneUpto(id)' <= Total(id, merged'[id], out'[id])
  <2>1. PICK o \in Nat : o = out[id]
    BY <1>1
  <2>2. merged[id] \in BOOLEAN /\ merged'[id] \in BOOLEAN
    BY <1>1
  <2>3. o <= o
    OBVIOUS
  <2>4. /\ Total(id, FALSE, o) <= Total(id, TRUE, o)
        /\ Total(id, FALSE, o) \in Nat /\ Total(id, TRUE, o) \in Nat
    BY <2>3, TotalGrows
  <2>5. Total(id, merged[id], o) <= Total(id, merged'[id], o)
    <3>1. PICK m \in BOOLEAN, n \in BOOLEAN : m = merged[id] /\ n = merged'[id] /\ (m => n)
      BY <2>2
    <3> QED BY <3>1, TotalMono
  <2>6. DoneUpto(id) <= Total(id, merged[id], o) /\ DoneUpto(id) \in Nat
    BY <2>1, CountTypes DEF Counts, Amounts
  <2>7. Total(id, merged[id], o) \in Nat /\ Total(id, merged'[id], o) \in Nat
    BY <2>2, <2>4
  <2> QED BY <1>2, <2>1, <2>5, <2>6, <2>7
<1>4. Amounts'
  BY <1>3 DEF Counts, Amounts
<1>5. Marks'
  BY DEF Counts, Marks
<1>6. Fills'
  <2>1. \A id \in Range(running) : id \in Id
    BY RangesInId
  <2> QED BY <1>2, <2>1 DEF Counts, Fills
<1> QED BY <1>4, <1>5, <1>6 DEF Counts

LEMMA CountsAbort ==
    ASSUME Shape, Shape', Places, Counts, NEW r \in Request, Abort(r)
    PROVE  Counts'
<1>0. /\ running \in Seq(Id) /\ Range(running) \subseteq Id /\ table \in [Id -> Seq(Block)]
  BY RangesInId DEF Shape, FreeExact
<1>1. PICK id \in Id : id = User(r)
  BY UserFacts
<1>2. PICK S : S = Id \ {id}
  OBVIOUS
<1>3. /\ running' = Only(running, S) /\ Retire(id)
      /\ UNCHANGED <<computed, out, merged, pc, idx, budget, scheduled>> /\ pc = "idle"
  BY <1>1, <1>2 DEF Abort, stepVars
<1>4. table' = [table EXCEPT ![id] = <<>>]
  BY <1>3, RetireShape
<1>5. Range(running') = Range(running) \cap S
  BY <1>0, <1>3, OnlyKeeps
<1>6. \A j \in Id : DoneUpto(j)' = DoneUpto(j)
  BY <1>3 DEF DoneUpto
<1>7. Amounts'
  BY <1>3, <1>6 DEF Counts, Amounts
<1>8. Marks'
  BY <1>3 DEF Counts, Marks
<1>9. Fills'
  <2> SUFFICES ASSUME NEW j \in Range(running') PROVE Len(table'[j]) = CeilDiv(DoneUpto(j)', BlockSize)
    BY DEF Fills
  <2>1. j \in Id /\ j # id /\ j \in Range(running)
    BY <1>0, <1>2, <1>5
  <2>2. table'[j] = table[j]
    BY <1>0, <1>4, <2>1
  <2> QED BY <1>6, <2>1, <2>2 DEF Counts, Fills
<1> QED BY <1>7, <1>8, <1>9 DEF Counts

LEMMA CountsStart ==
    ASSUME Shape, Shape', Counts, StartSchedule
    PROVE  Counts'
<1>1. /\ pc = "idle" /\ pc' = "running" /\ budget' = TokenBudget
      /\ UNCHANGED <<running, computed, out, merged, table, scheduled>>
  BY DEF StartSchedule, queueVars, reqVars, kvVars
<1>2. /\ TokenBudget \in Nat /\ scheduled \in [Id -> Nat]
  BY CountTypes
<1>3. \A id \in Id : scheduled[id] = 0
  BY <1>1, <1>2 DEF Counts, Marks
<1>4. \A id \in Id : DoneUpto(id)' = DoneUpto(id)
  BY <1>1 DEF DoneUpto
<1>5. Amounts'
  BY <1>1, <1>2, <1>4 DEF Counts, Amounts
<1>6. Marks'
  <2>1. \A i \in 1..Len(running) : running[i] \in Id
    BY DEF Shape
  <2>2. \A id \in Id : ~(scheduled'[id] > 0)
    BY <1>1, <1>3
  <2> QED BY <1>1, <1>3, <2>1, <2>2 DEF Marks
<1>7. Fills'
  <2>1. \A id \in Range(running) : id \in Id
    BY RangesInId
  <2> QED BY <1>1, <1>4, <2>1 DEF Counts, Fills
<1> QED BY <1>5, <1>6, <1>7 DEF Counts

LEMMA CountsRun ==
    ASSUME Shape, Shape', Places, Counts, RunningSchedule
    PROVE  Counts'
<1>1. PICK id \in Id, from \in Nat, upto \in Nat : Ran(id, from, upto)
  BY RunStep
<1>0. /\ running \in Seq(Id) /\ Range(running) \subseteq Id /\ table \in [Id -> Seq(Block)]
      /\ budget \in Nat /\ budget <= TokenBudget /\ TokenBudget \in Nat
      /\ computed \in [Id -> Nat] /\ scheduled \in [Id -> Nat] /\ idx \in Nat
  BY CountTypes, RangesInId DEF Shape, FreeExact
<1>2. /\ pc = "running" /\ budget > 0 /\ idx \in 1..Len(running) /\ id = running[idx]
      /\ id \in Range(running) /\ from = computed[id] /\ scheduled[id] = 0
      /\ from <= upto /\ upto <= Total(id, merged[id], out[id]) /\ upto - from <= budget
      /\ CanAllocate(id, <<>>, upto)
      /\ Allocate(id, merged[id], hashes[id], <<>>, from, upto)
      /\ scheduled' = [scheduled EXCEPT ![id] = upto - from]
      /\ budget' = budget - (upto - from)
      /\ idx' = idx + 1
      /\ UNCHANGED <<waiting, running, computed, out, merged, pc>>
  BY <1>1 DEF Ran, queueVars, reqVars
<1>b. PICK k \in Nat : k = upto - from
  BY <1>2
<1>3. k <= budget /\ budget' = budget - k /\ scheduled' = [scheduled EXCEPT ![id] = k]
  BY <1>2, <1>b
<1>a. idx' = idx + 1 /\ running' = running
  BY <1>2
<1>4. DoneUpto(id)' = upto /\ DoneUpto(id) = from
  <2>1. scheduled'[id] = upto - from /\ computed'[id] = from
    BY <1>0, <1>2
  <2> QED BY <1>2, <2>1 DEF DoneUpto
<1>5. \A j \in Id : j # id => scheduled'[j] = scheduled[j] /\ DoneUpto(j)' = DoneUpto(j)
  BY <1>0, <1>2 DEF DoneUpto
<1>6. Amounts'
  <2>1. budget' \in 0..TokenBudget
    BY <1>0, <1>3
  <2>2. scheduled'[id] \in 0..TokenBudget
    <3>1. scheduled'[id] = k
      BY <1>0, <1>3
    <3> QED BY <1>0, <1>3, <3>1
  <2>3. ASSUME NEW j \in Id PROVE DoneUpto(j)' <= Total(j, merged'[j], out'[j])
    BY <1>2, <1>4, <1>5 DEF Counts, Amounts
  <2>4. ASSUME NEW j \in Id PROVE /\ computed'[j] \in Nat /\ scheduled'[j] \in 0..TokenBudget
                                  /\ merged'[j] => HasDocs(j)
    BY <1>2, <1>5, <2>2 DEF Counts, Amounts
  <2> QED BY <2>1, <2>3, <2>4 DEF Amounts
<1>7. Marks'
  <2>1. ASSUME NEW j \in Id, scheduled'[j] > 0 PROVE j \in Range(running')
    BY <1>2, <1>5, <2>1 DEF Counts, Marks
  <2>2. ASSUME NEW i \in 1..Len(running'), i >= idx' PROVE scheduled'[running'[i]] = 0
    <3>1. i \in 1..Len(running) /\ i >= idx /\ i # idx
      <4>1. i \in 1..Len(running) /\ i >= idx + 1
        BY <1>a, <2>2
      <4> QED BY <1>0, <4>1
    <3>2. running[i] \in Id /\ running[i] # id
      BY <1>0, <1>2, <3>1 DEF Places, Apart, Distinct
    <3>3. scheduled[running[i]] = 0
      BY <1>2, <3>1 DEF Counts, Marks
    <3> QED BY <1>2, <1>5, <3>2, <3>3
  <2> QED BY <1>2, <2>1, <2>2 DEF Marks
<1>8. Fills'
  <2>1. PICK hits \in Seq(Block) : hits = <<>> /\ Len(hits) = 0
    <3>1. <<>> \in Seq(Block)
      OBVIOUS
    <3> QED BY <3>1
  <2>2. Len(table[id]) + Len(hits) = CeilDiv(from, BlockSize)
    <3>1. Len(table[id]) = CeilDiv(from, BlockSize)
      BY <1>2, <1>4 DEF Counts, Fills
    <3>2. Len(table[id]) \in Nat
      BY <1>0
    <3> QED BY <2>1, <3>1, <3>2
  <2>a. PICK m, hs : m = merged[id] /\ hs = hashes[id]
    OBVIOUS
  <2>3. Asked(id, m, hs, hits, from, upto)
    BY <1>2, <2>1, <2>2, <2>a DEF Asked
  <2>4. PICK fresh \in Seq(Block) : Given(id, m, hs, hits, from, upto, fresh)
    BY <2>3, Grown
  <2>5. Len(table'[id]) = CeilDiv(upto, BlockSize) /\ \A j \in Id : j # id => table'[j] = table[j]
    BY <1>0, <2>4 DEF Given
  <2>6. ASSUME NEW j \in Id, j \in Range(running) PROVE Len(table'[j]) = CeilDiv(DoneUpto(j)', BlockSize)
    BY <1>4, <1>5, <2>5, <2>6 DEF Counts, Fills
  <2> QED BY <1>0, <1>2, <2>6 DEF Fills
<1> QED BY <1>6, <1>7, <1>8 DEF Counts
LEMMA CountsPreempt ==
    ASSUME Shape, Shape', Places, Counts, RunningPreempt
    PROVE  Counts'
<1>0. /\ running \in Seq(Id) /\ Range(running) \subseteq Id /\ table \in [Id -> Seq(Block)]
      /\ budget \in Nat /\ TokenBudget \in Nat /\ out \in [Id -> Nat] /\ merged \in [Id -> BOOLEAN]
      /\ computed \in [Id -> Nat] /\ scheduled \in [Id -> Nat] /\ idx \in Nat \ {0}
      /\ \A j \in Id : Total(j, merged[j], out[j]) \in Nat
  BY CountTypes, RangesInId DEF Shape, FreeExact
<1>1. running # <<>> /\ pc = "running" /\ idx <= Len(running)
  BY <1>0 DEF RunningPreempt, InRunningLoop
<1>2. PICK id \in Id : id = Last(running)
  BY <1>0, <1>1, SeqParts
<1>3. /\ computed' = [computed EXCEPT ![id] = 0] /\ running' = Front(running) /\ FreeBlocks(id)
      /\ pc' \in {"finish", "running"} /\ UNCHANGED <<out, merged, idx, budget, scheduled>>
  BY <1>2 DEF RunningPreempt
<1>4. table' = [table EXCEPT ![id] = <<>>]
  BY <1>3 DEF FreeBlocks
<1>5. /\ Len(Front(running)) = Len(running) - 1 /\ Last(running) = running[Len(running)]
      /\ \A i \in 1..Len(running)-1 : Front(running)[i] = running[i]
      /\ Range(running) = {id} \cup Range(running')
      /\ Distinct(running) => Last(running) \notin Range(Front(running))
  <2>1. running \in Seq(Id) /\ running # <<>>
    BY <1>0, <1>1
  <2>2. /\ Len(Front(running)) = Len(running) - 1 /\ Last(running) = running[Len(running)]
        /\ \A i \in 1..Len(running)-1 : Front(running)[i] = running[i]
        /\ Range(running) = {Last(running)} \cup Range(Front(running))
        /\ Distinct(running) => Last(running) \notin Range(Front(running))
    BY ONLY <2>1, FrontParts
  <2>3. id = Last(running) /\ running' = Front(running)
    BY <1>2, <1>3
  <2> QED BY ONLY <2>2, <2>3
<1>6. id \notin Range(running')
  BY <1>2, <1>3, <1>5 DEF Places, Apart
<1>7. scheduled[id] = 0
  <2>1. Len(running) \in 1..Len(running) /\ Len(running) >= idx
    BY <1>0, <1>1
  <2> QED BY <1>1, <1>2, <1>5, <2>1 DEF Counts, Marks
<1>8. /\ DoneUpto(id)' = 0 /\ computed'[id] = 0
      /\ \A j \in Id : j # id => computed'[j] = computed[j] /\ DoneUpto(j)' = DoneUpto(j)
  BY <1>0, <1>1, <1>3, <1>7 DEF DoneUpto
<1>9. Amounts'
  <2>1. ASSUME NEW j \in Id PROVE DoneUpto(j)' <= Total(j, merged'[j], out'[j])
    <3>1. CASE j = id
      <4>1. Total(id, merged[id], out[id]) \in Nat
        BY <1>0
      <4> QED BY <1>3, <1>8, <3>1, <4>1
    <3>2. CASE j # id
      BY <1>3, <1>8, <3>2 DEF Counts, Amounts
    <3> QED BY <3>1, <3>2
  <2>2. ASSUME NEW j \in Id PROVE /\ computed'[j] \in Nat /\ scheduled'[j] \in 0..TokenBudget
                                  /\ merged'[j] => HasDocs(j)
    BY <1>3, <1>8 DEF Counts, Amounts
  <2>3. budget' \in 0..TokenBudget
    BY <1>3 DEF Counts, Amounts
  <2> QED BY <2>1, <2>2, <2>3 DEF Amounts
<1>10. Marks'
  <2>1. ASSUME NEW j \in Id, scheduled'[j] > 0 PROVE pc' # "idle" /\ j \in Range(running')
    <3>1. j \in Range(running)
      BY <1>1, <1>3, <2>1 DEF Counts, Marks
    <3>2. j # id
      BY <1>3, <1>7, <2>1
    <3> QED BY <1>3, <1>5, <3>1, <3>2
  <2>2. ASSUME NEW i \in 1..Len(running'), i >= idx' PROVE scheduled'[running'[i]] = 0
    <3>1. i \in 1..Len(running)-1 /\ i \in 1..Len(running) /\ i >= idx
      <4>1. Len(running') = Len(running) - 1 /\ Len(running) \in Nat
        BY <1>0, <1>3, <1>5
      <4> QED BY <1>3, <2>2, <4>1
    <3>2. scheduled[running[i]] = 0
      BY <1>1, <3>1 DEF Counts, Marks
    <3> QED BY <1>3, <1>5, <3>1, <3>2
  <2> QED BY <2>1, <2>2 DEF Marks
<1>11. Fills'
  <2> SUFFICES ASSUME NEW j \in Range(running') PROVE Len(table'[j]) = CeilDiv(DoneUpto(j)', BlockSize)
    BY DEF Fills
  <2>1. j \in Id /\ j # id /\ j \in Range(running)
    BY <1>0, <1>5, <1>6
  <2>2. table'[j] = table[j]
    BY <1>0, <1>4, <2>1
  <2> QED BY <1>8, <2>1, <2>2 DEF Counts, Fills
<1> QED BY <1>9, <1>10, <1>11 DEF Counts

LEMMA CountsSpawn ==
    ASSUME Shape, Shape', Places, Counts, NotAskedTwice, SpawnDocuments
    PROVE  Counts'
<1>0. /\ waiting \in Seq(Id) /\ waiting # <<>> /\ pc = "waiting" /\ Range(running) \subseteq Id
      /\ budget \in Nat /\ TokenBudget \in Nat /\ out \in [Id -> Nat] /\ merged \in [Id -> BOOLEAN]
      /\ computed \in [Id -> Nat] /\ scheduled \in [Id -> Nat]
  BY CountTypes, RangesInId DEF SpawnDocuments, InWaitingLoop, Shape
<1>1. PICK S : S = {DocId(Head(waiting), d) : d \in MissingDocs(Head(waiting))}
  OBVIOUS
<1>2. /\ computed' = [j \in Id |-> IF j \in S THEN 0 ELSE computed[j]]
      /\ out' = [j \in Id |-> IF j \in S THEN 0 ELSE out[j]]
      /\ UNCHANGED <<running, merged, table, pc, idx, budget, scheduled>>
  BY <1>1 DEF SpawnDocuments, kvVars, stepVars
<1>3. \A j \in S : j \notin Range(running)
  BY <1>1 DEF NotAskedTwice, SpawnDocuments
<1>4. \A j \in Id : j \in S => scheduled[j] = 0
  <2> SUFFICES ASSUME NEW j \in Id, j \in S PROVE scheduled[j] = 0
    OBVIOUS
  <2>1. scheduled[j] \in Nat
    BY <1>0
  <2>2. ~(scheduled[j] > 0)
    BY <1>0, <1>3 DEF Counts, Marks
  <2> QED BY <2>1, <2>2
<1>5. \A j \in Id : /\ j \in S => DoneUpto(j)' = 0 /\ computed'[j] = 0 /\ out'[j] = 0
                    /\ j \notin S => DoneUpto(j)' = DoneUpto(j) /\ computed'[j] = computed[j]
                                     /\ out'[j] = out[j]
  BY <1>0, <1>2, <1>4 DEF DoneUpto
<1>6. Amounts'
  <2>1. ASSUME NEW j \in Id PROVE DoneUpto(j)' <= Total(j, merged'[j], out'[j])
    <3>1. CASE j \in S
      <4>1. Total(j, merged'[j], out'[j]) \in Nat
        BY <1>0, <1>2, <1>5, <3>1, TotalTokens
      <4> QED BY <1>5, <3>1, <4>1
    <3>2. CASE j \notin S
      BY <1>2, <1>5, <3>2 DEF Counts, Amounts
    <3> QED BY <3>1, <3>2
  <2>2. ASSUME NEW j \in Id PROVE /\ computed'[j] \in Nat /\ scheduled'[j] \in 0..TokenBudget
                                  /\ merged'[j] => HasDocs(j)
    BY <1>2, <1>5 DEF Counts, Amounts
  <2>3. budget' \in 0..TokenBudget
    BY <1>2 DEF Counts, Amounts
  <2> QED BY <2>1, <2>2, <2>3 DEF Amounts
<1>7. Marks'
  BY <1>2 DEF Counts, Marks
<1>8. Fills'
  <2> SUFFICES ASSUME NEW j \in Range(running') PROVE Len(table'[j]) = CeilDiv(DoneUpto(j)', BlockSize)
    BY DEF Fills
  <2>1. j \in Id /\ j \notin S /\ j \in Range(running)
    BY <1>0, <1>2, <1>3
  <2> QED BY <1>2, <1>5, <2>1 DEF Counts, Fills
<1> QED BY <1>6, <1>7, <1>8 DEF Counts

LEMMA CountsAttempt ==
    ASSUME Shape, Shape', Places, Counts, AttemptSucceeds
    PROVE  Counts'
<1>1. PICK id \in Id, hits \in Seq(Block), from \in Nat, upto \in Nat : Tried(id, hits, from, upto)
  BY AttemptStep
<1>0. /\ running \in Seq(Id) /\ Range(running) \subseteq Id /\ table \in [Id -> Seq(Block)]
      /\ budget \in Nat /\ budget <= TokenBudget /\ TokenBudget \in Nat /\ out \in [Id -> Nat]
      /\ merged \in [Id -> BOOLEAN]
      /\ computed \in [Id -> Nat] /\ scheduled \in [Id -> Nat]
  BY CountTypes, RangesInId DEF Shape, FreeExact
<1>2. /\ pc = "waiting" /\ table[id] = <<>> /\ from = Len(hits) * BlockSize
      /\ from <= upto /\ upto <= Total(id, HasDocs(id), out[id]) /\ upto - from <= budget
      /\ merged' = [merged EXCEPT ![id] = HasDocs(id)]
      /\ computed' = [computed EXCEPT ![id] = from]
      /\ running' = Append(running, id)
      /\ scheduled' = [scheduled EXCEPT ![id] = upto - from]
      /\ budget' = budget - (upto - from)
      /\ UNCHANGED <<out, pc, idx>>
  BY <1>1 DEF Tried
<1>3. PICK k \in Nat : k = upto - from
  BY <1>2
<1>4. k <= budget /\ budget' = budget - k /\ scheduled' = [scheduled EXCEPT ![id] = k] /\ upto = from + k
  BY <1>2, <1>3
<1>5. Range(running') = Range(running) \cup {id}
  <2>1. PICK u \in Seq(Id) : u = <<id>> /\ Range(u) = {id}
    BY Singleton
  <2>2. Range(running \o u) = Range(running) \cup Range(u)
    <3>1. running \in Seq(Id) /\ u \in Seq(Id)
      BY <1>0
    <3>2. PICK z : z = running \o u
      OBVIOUS
    <3>3. Joined(z, running, u)
      BY <3>2 DEF Joined
    <3>4. Range(z) = Range(running) \cup Range(u)
      BY <3>1, <3>3, RangeJoined
    <3> QED BY <3>2, <3>4
  <2>3. running' = running \o u
    BY <1>0, <1>2, <2>1, SMTT(30)
  <2> QED BY <2>1, <2>2, <2>3
<1>6. computed'[id] = from /\ scheduled'[id] = k /\ merged'[id] = HasDocs(id)
  BY <1>0, <1>2, <1>4
<1>7. \A j \in Id : j # id => /\ computed'[j] = computed[j] /\ scheduled'[j] = scheduled[j]
                              /\ merged'[j] = merged[j]
  BY <1>0, <1>2, <1>4
<1>8. DoneUpto(id)' = upto /\ \A j \in Id : j # id => DoneUpto(j)' = DoneUpto(j)
  <2>1. DoneUpto(id)' = upto
    BY <1>2, <1>4, <1>6 DEF DoneUpto
  <2>2. \A j \in Id : j # id => DoneUpto(j)' = DoneUpto(j)
    BY <1>2, <1>7 DEF DoneUpto
  <2> QED BY <2>1, <2>2
<1>9. Amounts'
  <2>1. ASSUME NEW j \in Id PROVE DoneUpto(j)' <= Total(j, merged'[j], out'[j])
    <3>1. CASE j = id
      BY <1>2, <1>6, <1>8, <3>1
    <3>2. CASE j # id
      BY <1>2, <1>7, <1>8, <3>2 DEF Counts, Amounts
    <3> QED BY <3>1, <3>2
  <2>2. scheduled'[id] \in 0..TokenBudget
    BY <1>0, <1>3, <1>4, <1>6
  <2>3. ASSUME NEW j \in Id PROVE computed'[j] \in Nat /\ scheduled'[j] \in 0..TokenBudget
    BY <1>6, <1>7, <2>2 DEF Counts, Amounts
  <2>4. ASSUME NEW j \in Id, merged'[j] PROVE HasDocs(j)
    BY <1>6, <1>7, <2>4 DEF Counts, Amounts
  <2>5. budget' \in 0..TokenBudget
    BY <1>0, <1>4
  <2> QED BY <2>1, <2>3, <2>4, <2>5 DEF Amounts
<1>10. Marks'
  <2>1. ASSUME NEW j \in Id, scheduled'[j] > 0 PROVE j \in Range(running')
    <3>1. CASE j = id
      BY <1>5, <3>1
    <3>2. CASE j # id
      BY <1>2, <1>5, <1>7, <2>1, <3>2 DEF Counts, Marks
    <3> QED BY <3>1, <3>2
  <2> QED BY <1>2, <2>1 DEF Marks
<1>11. Fills'
  <2>1. PICK m, hs : m = HasDocs(id) /\ hs = AttemptHashes(id)
    OBVIOUS
  <2>2. Len(hits) \in Nat /\ CeilDiv(Len(hits) * BlockSize, BlockSize) = Len(hits)
    <3>1. PICK n \in Nat : n = Len(hits)
      OBVIOUS
    <3> QED BY <3>1, CeilExact
  <2>3. Len(table[id]) + Len(hits) = CeilDiv(from, BlockSize)
    <3>1. Len(table[id]) = 0
      BY <1>2
    <3> QED BY <1>2, <2>2, <3>1
  <2>4. Asked(id, m, hs, hits, from, upto)
    BY <1>1, <1>2, <2>1, <2>3 DEF Asked, Tried
  <2>5. PICK fresh \in Seq(Block) : Given(id, m, hs, hits, from, upto, fresh)
    BY <2>4, Grown
  <2>6. Len(table'[id]) = CeilDiv(upto, BlockSize) /\ \A j \in Id : j # id => table'[j] = table[j]
    BY <1>0, <2>5 DEF Given
  <2>7. ASSUME NEW j \in Range(running') PROVE Len(table'[j]) = CeilDiv(DoneUpto(j)', BlockSize)
    <3>1. CASE j = id
      BY <1>8, <2>6, <3>1
    <3>2. CASE j # id
      <4>1. j \in Range(running) /\ j \in Id
        BY <1>0, <1>5, <3>2
      <4> QED BY <1>8, <2>6, <3>2, <4>1 DEF Counts, Fills
    <3> QED BY <3>1, <3>2
  <2> QED BY <2>7 DEF Fills
<1> QED BY <1>9, <1>10, <1>11 DEF Counts

LEMMA CountsFinishSchedule ==
    ASSUME Shape, Shape', Counts, FinishSchedule
    PROVE  Counts'
<1>0. /\ budget \in Nat /\ TokenBudget \in Nat /\ computed \in [Id -> Nat] /\ scheduled \in [Id -> Nat]
      /\ Range(running) \subseteq Id
  BY CountTypes, RangesInId
<1>1. /\ pc # "update" /\ pc' = "update" /\ computed' = [id \in Id |-> computed[id] + scheduled[id]]
      /\ UNCHANGED <<running, out, merged, table, budget, scheduled>>
  BY DEF FinishSchedule, kvVars
<1>2. \A j \in Id : DoneUpto(j)' = DoneUpto(j)
  BY <1>1 DEF DoneUpto
<1>3. Amounts'
  <2>1. ASSUME NEW j \in Id PROVE computed'[j] \in Nat
    <3>1. computed[j] \in Nat /\ scheduled[j] \in Nat
      BY <1>0
    <3> QED BY <1>1, <3>1
  <2> QED BY <1>1, <1>2, <2>1 DEF Counts, Amounts
<1>4. Marks'
  BY <1>1 DEF Counts, Marks
<1>5. Fills'
  BY <1>0, <1>1, <1>2 DEF Counts, Fills
<1> QED BY <1>3, <1>4, <1>5 DEF Counts

LEMMA CountsEnd ==
    ASSUME Shape, Shape', Counts, EndUpdate
    PROVE  Counts'
<1>0. /\ budget \in Nat /\ TokenBudget \in Nat /\ computed \in [Id -> Nat] /\ scheduled \in [Id -> Nat]
      /\ Range(running) \subseteq Id
  BY CountTypes, RangesInId
<1>1. /\ pc = "update" /\ pc' = "idle" /\ budget' = 0 /\ scheduled' = [id \in Id |-> 0]
      /\ UNCHANGED <<running, computed, out, merged, table>>
  BY DEF EndUpdate, queueVars, reqVars, kvVars
<1>2. \A j \in Id : scheduled'[j] = 0 /\ DoneUpto(j)' = DoneUpto(j)
  BY <1>0, <1>1 DEF DoneUpto
<1>3. Amounts'
  BY <1>0, <1>1, <1>2 DEF Counts, Amounts
<1>4. Marks'
  BY <1>1, <1>2 DEF Marks
<1>5. Fills'
  BY <1>0, <1>1, <1>2 DEF Counts, Fills
<1> QED BY <1>3, <1>4, <1>5 DEF Counts

LEMMA CountsKeep ==
    ASSUME Shape, Shape', Counts, KeepRunning
    PROVE  Counts'
<1>0. /\ budget \in Nat /\ TokenBudget \in Nat /\ computed \in [Id -> Nat] /\ scheduled \in [Id -> Nat]
      /\ Range(running) \subseteq Id /\ out \in [Id -> Nat] /\ merged \in [Id -> BOOLEAN]
      /\ \A j \in Id : DoneUpto(j) \in Nat
  BY CountTypes, RangesInId
<1>1. /\ pc = "update" /\ pc' = pc
      /\ UNCHANGED <<running, computed, merged, table, budget, scheduled>>
  BY DEF KeepRunning, queueVars, kvVars
<1>2. PICK id \in Id : id = running[idx] /\ out' = IF Samples(id) THEN [out EXCEPT ![id] = @ + 1] ELSE out
  <2>1. running[idx] \in Id
    BY HeadFacts DEF KeepRunning
  <2> QED BY <2>1 DEF KeepRunning
<1>3. \A j \in Id : DoneUpto(j)' = DoneUpto(j)
  BY <1>1 DEF DoneUpto
<1>4. \A j \in Id : out'[j] \in Nat /\ out[j] <= out'[j]
  BY <1>0, <1>2
<1>5. Amounts'
  <2>1. ASSUME NEW j \in Id PROVE DoneUpto(j)' <= Total(j, merged'[j], out'[j])
    <3>1. PICK o \in Nat, p \in Nat : o = out[j] /\ p = out'[j] /\ o <= p
      BY <1>0, <1>4
    <3>2. PICK m \in BOOLEAN : m = merged[j]
      BY <1>0
    <3>3. Total(j, m, o) <= Total(j, m, p) /\ Total(j, m, o) \in Nat /\ Total(j, m, p) \in Nat
      BY <3>1, TotalGrows, TotalTokens
    <3>4. DoneUpto(j) <= Total(j, m, o)
      BY <3>1, <3>2 DEF Counts, Amounts
    <3> QED BY <1>0, <1>1, <1>3, <3>1, <3>2, <3>3, <3>4
  <2> QED BY <1>1, <2>1 DEF Counts, Amounts
<1>6. Marks'
  BY <1>1 DEF Counts, Marks
<1>7. Fills'
  BY <1>0, <1>1, <1>3 DEF Counts, Fills
<1> QED BY <1>5, <1>6, <1>7 DEF Counts

LEMMA CountsFinishRequest ==
    ASSUME Shape, Shape', Places, Counts, FinishRequest
    PROVE  Counts'
<1>0. /\ budget \in Nat /\ TokenBudget \in Nat /\ computed \in [Id -> Nat] /\ scheduled \in [Id -> Nat]
      /\ Range(running) \subseteq Id /\ out \in [Id -> Nat] /\ merged \in [Id -> BOOLEAN]
      /\ running \in Seq(Id) /\ table \in [Id -> Seq(Block)]
      /\ \A j \in Id : DoneUpto(j) \in Nat
  BY CountTypes, RangesInId DEF Shape, FreeExact
<1>1. PICK k \in 1..Len(running) : k = idx
  <2>1. idx \in 1..Len(running)
    BY DEF FinishRequest, Shape
  <2> QED BY <2>1
<1>2. PICK id \in Id : id = running[k]
  BY <1>0
<1>3. /\ pc = "update" /\ pc' = pc /\ out' = [out EXCEPT ![id] = @ + 1] /\ Retire(id)
      /\ running' = RemoveAt(running, k)
      /\ UNCHANGED <<computed, merged, budget, scheduled>>
  BY <1>1, <1>2 DEF FinishRequest, stepVars
<1>4. table' = [table EXCEPT ![id] = <<>>]
  BY <1>3, RetireShape
<1>5. Range(running') = Range(running) \ {id}
  <2>1. Distinct(running) /\ running \in Seq(Id)
    BY DEF Places, Apart, Shape
  <2>2. /\ Range(RemoveAt(running, k)) = Range(running) \ {running[k]}
        /\ Distinct(RemoveAt(running, k))
    BY <2>1, RemovedDistinct
  <2> QED BY <1>2, <1>3, <2>2
<1>6. \A j \in Id : DoneUpto(j)' = DoneUpto(j)
  BY <1>3 DEF DoneUpto
<1>7. \A j \in Id : out'[j] \in Nat /\ out[j] <= out'[j]
  <2>1. PICK f : f = [out EXCEPT ![id] = out[id] + 1] /\ out' = f
    BY <1>3
  <2>2. out \in [Id -> Nat]
    BY <1>0
  <2>3. \A j \in Id : f[j] = IF j = id THEN out[id] + 1 ELSE out[j]
    BY <2>1, <2>2
  <2>4. \A j \in Id : f[j] \in Nat /\ out[j] <= f[j]
    BY <2>2, <2>3
  <2> QED BY <2>1, <2>4
<1>8. Amounts'
  <2>1. ASSUME NEW j \in Id PROVE DoneUpto(j)' <= Total(j, merged'[j], out'[j])
    <3>1. PICK o \in Nat, p \in Nat : o = out[j] /\ p = out'[j] /\ o <= p
      BY <1>0, <1>7
    <3>2. PICK m \in BOOLEAN : m = merged[j]
      BY <1>0
    <3>3. Total(j, m, o) <= Total(j, m, p) /\ Total(j, m, o) \in Nat /\ Total(j, m, p) \in Nat
      BY <3>1, TotalGrows, TotalTokens
    <3>4. DoneUpto(j) <= Total(j, m, o)
      BY <3>1, <3>2 DEF Counts, Amounts
    <3> QED BY <1>0, <1>3, <1>6, <3>1, <3>2, <3>3, <3>4
  <2> QED BY <1>3, <2>1 DEF Counts, Amounts
<1>9. Marks'
  BY <1>3 DEF Counts, Marks
<1>10. Fills'
  <2> SUFFICES ASSUME NEW j \in Range(running') PROVE Len(table'[j]) = CeilDiv(DoneUpto(j)', BlockSize)
    BY DEF Fills
  <2>1. j \in Id /\ j # id /\ j \in Range(running)
    BY <1>0, <1>5
  <2>2. table'[j] = table[j]
    BY <1>0, <1>4, <2>1
  <2> QED BY <1>6, <2>1, <2>2 DEF Counts, Fills
<1> QED BY <1>8, <1>9, <1>10 DEF Counts

LEMMA CountsStep ==
    ASSUME Shape, Shape', Places, Counts, NotAskedTwice, [Next]_vars
    PROVE  Counts'
<1>0. /\ merged \in [Id -> BOOLEAN] /\ \A id \in Id : merged[id] => HasDocs(id)
  BY DEF Shape, Counts, Amounts
<1>1. ASSUME \/ \E r \in Request : AddRequest(r) \/ CompileGrammar(r)
             \/ SkipForGrammar \/ DropCachedDocument \/ EndRunning \/ UNCHANGED vars
      PROVE  Counts'
  <2>1. UNCHANGED <<computed, scheduled, out, running, table, budget, merged>>
    BY <1>1 DEF AddRequest, CompileGrammar, SkipForGrammar, DropCachedDocument, EndRunning, vars,
       queueVars, reqVars, kvVars, stepVars
  <2>2. \/ pc' = pc /\ idx' = idx
        \/ pc \in {"running", "waiting"} /\ pc' \in {"waiting", "finish"}
    BY <1>1 DEF AddRequest, CompileGrammar, SkipForGrammar, DropCachedDocument, EndRunning, vars,
       stepVars
  <2>3. \A id \in Id : (merged[id] => merged'[id]) /\ (merged'[id] => HasDocs(id))
    BY <1>0, <2>1
  <2> QED BY <2>1, <2>2, <2>3, CountsKept
<1>2. CASE AttemptFails
  <2>1. PICK id \in Id : /\ merged' = [merged EXCEPT ![id] = HasDocs(id)]
                         /\ UNCHANGED <<computed, scheduled, out, running, table, budget>>
                         /\ pc = "waiting" /\ pc' = "finish"
    BY <1>2 DEF AttemptFails, Attempts, AtLookup, InWaitingLoop, queueVars
  <2>2. ASSUME NEW j \in Id PROVE (merged[j] => merged'[j]) /\ (merged'[j] => HasDocs(j))
    <3>1. CASE j = id
      BY <1>0, <2>1, <3>1
    <3>2. CASE j # id
      BY <1>0, <2>1, <3>2
    <3> QED BY <3>1, <3>2
  <2> QED BY <2>1, <2>2, CountsKept
<1> QED
  BY <1>1, <1>2, CountsAbort, CountsStart, CountsRun, CountsPreempt, CountsSpawn, CountsAttempt,
     CountsFinishSchedule, CountsKeep, CountsFinishRequest, CountsEnd
     DEF Next, Schedule, Update, Quiescent
-----------------------------------------------------------------------------
(* Whose block it is: the i-th of id's table and nobody else's.                 *)
Exclusive(id, i) ==
    \A jd \in Id : \A j \in 1..Len(table[jd]) : table[jd][j] = table[id][i] => jd = id /\ j = i

Same(b) == blockHash'[b] = blockHash[b] /\ content'[b] = content[b]

(* What an allocation for request id, whose table was s and is t, does to the   *)
(* blocks: only the positions behind the first f, which are nobody else's, are  *)
(* written; those up to the u-th are registered under the hashes h.            *)
Effect(id, m, h, s, t, from, upto, f, u) ==
    /\ \A b \in Block : Same(b) \/ \E i \in 1..Len(t) : f < i /\ t[i] = b
    /\ \A i \in 1..Len(s) : i \in 1..Len(t) /\ t[i] = s[i]
    /\ \A i \in 1..Len(t) : i <= f => i <= Len(s)
    /\ \A i \in 1..Len(t) : f < i =>
          /\ content'[t[i]] = ComputedState(id, m, t, from, upto, i)
          /\ i <= u => blockHash'[t[i]] = h[i]
          /\ u < i => blockHash'[t[i]] = IF i <= Len(s) THEN blockHash[s[i]] ELSE NoKey
          /\ \A j \in 1..Len(t) : t[j] = t[i] => j = i
          /\ \A jd \in Id \ {id} : \A j \in 1..Len(table[jd]) : table[jd][j] # t[i]

(* The blocks a request already had behind the first f are its own.             *)
Clean(id, hits, f) ==
    /\ \A i \in 1..Len(table[id]) : f < i => Exclusive(id, i)
    /\ hits = <<>> \/ (table[id] = <<>> /\ Len(hits) <= f)

LEMMA DivGrows ==
    ASSUME NEW a \in Nat, NEW b \in Nat, a <= b
    PROVE  /\ a \div BlockSize \in Nat /\ b \div BlockSize \in Nat
           /\ a \div BlockSize <= b \div BlockSize
           /\ CeilDiv(a, BlockSize) \in {a \div BlockSize, a \div BlockSize + 1}
<1>1. PICK x \in Nat, y \in Nat : x = a \div BlockSize /\ y = b \div BlockSize
  BY Division
<1>2. x * BlockSize <= a /\ b < y * BlockSize + BlockSize
  BY <1>1, Division
<1>3. /\ x * BlockSize \in Int /\ y * BlockSize \in Int
      /\ y < x => y * BlockSize + BlockSize <= x * BlockSize
  BY Products
<1>4. x <= y
  <2>1. BlockSize \in Nat /\ BlockSize >= 1
    BY SchedulerAssumption
  <2> QED BY <1>2, <1>3, <2>1
<1> QED BY <1>1, <1>4, Ceil

LEMMA AllocateEffect ==
    ASSUME Shape, NEW id \in Id, NEW m, NEW hs, NEW hits, NEW from \in Nat, NEW upto \in Nat,
           NEW fresh, NEW f \in Nat, NEW u \in Nat, f = from \div BlockSize, u = upto \div BlockSize,
           Asked(id, m, hs, hits, from, upto), Given(id, m, hs, hits, from, upto, fresh),
           Clean(id, hits, f)
    PROVE  /\ Effect(id, m, ExtendHashes(hs, Tokens(id, m), u), table[id] \o hits, table'[id], from, upto, f, u)
           /\ f <= u
           /\ table'[id] \in Seq(Block) /\ \A jd \in Id : jd # id => table'[jd] = table[jd]
<1>0. /\ hits \in Seq(Block) /\ from <= upto
      /\ Len(table[id]) + Len(hits) = CeilDiv(from, BlockSize)
      /\ table \in [Id -> Seq(Block)] /\ FreeExact
  BY DEF Asked, Shape, FreeExact
<1>1. PICK s \in Seq(Block) : s = table[id] \o hits /\ Len(s) = CeilDiv(from, BlockSize)
  <2>1. table[id] \in Seq(Block)
    BY <1>0
  <2>2. table[id] \o hits \in Seq(Block) /\ Len(table[id] \o hits) = Len(table[id]) + Len(hits)
    BY <1>0, <2>1, ConcatProperties
  <2> QED BY <1>0, <2>2
<1>2. PICK a \in Nat, c \in Nat : /\ a = Len(s) /\ a \in {f, f + 1} /\ c = CeilDiv(upto, BlockSize)
                                  /\ c \in {u, u + 1} /\ f <= u /\ a <= c
  <2>1. PICK x \in Nat, y \in Nat : x = CeilDiv(from, BlockSize) /\ y = CeilDiv(upto, BlockSize) /\ x <= y
    BY <1>0, CeilGrows
  <2>2. f <= u /\ x \in {f, f + 1}
    BY <1>0, <2>1, DivGrows
  <2>3. y \in {u, u + 1}
    <3>1. upto <= upto
      OBVIOUS
    <3> QED BY <2>1, <3>1, DivGrows
  <2> QED BY <1>1, <2>1, <2>2, <2>3
<1>3. PICK t \in Seq(Block) : t = s \o fresh /\ Len(t) = c /\ table' = [table EXCEPT ![id] = t]
  BY <1>1, <1>2 DEF Given
<1>4. /\ fresh \in Seq(Block) /\ Distinct(fresh) /\ Range(fresh) \subseteq Range(free) \ Range(hits)
      /\ Allocated(id, m, hs, hits, from, upto, fresh)
  BY DEF Given, Taken
<1>5. PICK n \in Nat : n = Len(fresh) /\ c = a + n
  <2>1. Len(s \o fresh) = Len(s) + Len(fresh)
    BY <1>4, ConcatProperties
  <2> QED BY <1>2, <1>3, <1>4, <2>1
<1>6. (\A i \in 1..a : t[i] = s[i]) /\ \A i \in 1..n : t[a + i] = fresh[i]
  BY <1>2, <1>3, <1>4, <1>5
<1>b. \A i \in 1..c : ~(i <= a) => \E k \in 1..n : i = a + k
  <2> SUFFICES ASSUME NEW i \in 1..c, ~(i <= a) PROVE \E k \in 1..n : i = a + k
    OBVIOUS
  <2>1. PICK k \in 1..n : k = i - a
    BY <1>5
  <2>2. i = a + k
    BY <2>1
  <2> QED BY <2>2
<1>7. \A jd \in Id : \A j \in 1..Len(table[jd]) : \A i \in 1..n : table[jd][j] # fresh[i]
  <2> SUFFICES ASSUME NEW jd \in Id, NEW j \in 1..Len(table[jd]), NEW i \in 1..n,
                      table[jd][j] = fresh[i]
               PROVE  FALSE
    OBVIOUS
  <2>1. fresh[i] \in Range(fresh)
    BY <1>4, <1>5, RangeHas
  <2>2. fresh[i] \notin Held
    BY <1>0, <1>4, <2>1 DEF FreeExact
  <2>3. table[jd] \in Seq(Block)
    BY <1>0
  <2>4. table[jd][j] \in Range(table[jd])
    BY <2>3, RangeHas
  <2> QED BY <2>2, <2>4 DEF Held
<1>8. \A j \in 1..Len(hits) : \A i \in 1..n : hits[j] # fresh[i]
  <2> SUFFICES ASSUME NEW j \in 1..Len(hits), NEW i \in 1..n, hits[j] = fresh[i] PROVE FALSE
    OBVIOUS
  <2>1. fresh[i] \in Range(fresh)
    BY <1>4, <1>5, RangeHas
  <2>2. hits[j] \in Range(hits)
    BY <1>0, RangeHas
  <2> QED BY <1>4, <2>1, <2>2
(* A position behind the first f is its request's alone.                        *)
<1>9. \/ hits = <<>> /\ s = table[id]
      \/ table[id] = <<>> /\ s = hits /\ a <= f
  <2>0. table[id] \in Seq(Block)
    BY <1>0
  <2>1. CASE hits = <<>>
    BY <1>1, <2>0, <2>1
  <2>2. CASE table[id] = <<>> /\ Len(hits) <= f
    <3>1. s = hits
      BY <1>0, <1>1, <2>2
    <3> QED BY <1>2, <2>2, <3>1
  <2> QED BY <2>1, <2>2 DEF Clean
<1>10. \A j \in 1..a : \A i \in 1..n : s[j] # fresh[i]
  BY <1>2, <1>7, <1>8, <1>9
<1>11. ASSUME NEW i \in 1..a, f < i
       PROVE  /\ s = table[id] /\ hits = <<>> /\ Exclusive(id, i) /\ i \in 1..Len(table[id])
  <2>1. s = table[id] /\ hits = <<>>
    BY <1>2, <1>9, <1>11
  <2> QED BY <1>2, <1>11, <2>1 DEF Clean
<1>12. ASSUME NEW i \in 1..c, f < i PROVE \A j \in 1..c : t[j] = t[i] => j = i
  <2> SUFFICES ASSUME NEW j \in 1..c, t[j] = t[i] PROVE j = i
    OBVIOUS
  <2>1. CASE i <= a
    <3>1. i \in 1..a /\ s = table[id] /\ Exclusive(id, i) /\ i \in 1..Len(table[id])
      BY <1>11, <1>12, <2>1
    <3>2. CASE j <= a
      <4>1. j \in 1..Len(table[id]) /\ table[id][j] = table[id][i]
        BY <1>2, <1>6, <2>1, <3>1, <3>2
      <4> QED BY <3>1, <4>1 DEF Exclusive
    <3>3. CASE ~(j <= a)
      <4>1. PICK k \in 1..n : j = a + k
        BY <1>b, <3>3
      <4>2. s[i] = fresh[k]
        BY <1>6, <3>1, <4>1
      <4> QED BY <1>10, <3>1, <4>2
    <3> QED BY <3>2, <3>3
  <2>2. CASE ~(i <= a)
    <3>1. PICK k \in 1..n : i = a + k
        BY <1>b, <2>2
    <3>2. t[i] = fresh[k]
      BY <1>6, <3>1
    <3>3. CASE j <= a
      <4>1. j \in 1..a
        BY <3>3
      <4>2. s[j] = fresh[k]
        BY <1>6, <3>2, <4>1
      <4> QED BY <1>10, <4>1, <4>2
    <3>4. CASE ~(j <= a)
      <4>1. PICK l \in 1..n : j = a + l
        BY <1>b, <3>4
      <4>2. fresh[l] = fresh[k]
        BY <1>6, <3>2, <4>1
      <4>3. l = k
        BY <1>4, <1>5, <4>2 DEF Distinct
      <4> QED BY <3>1, <4>1, <4>3
    <3> QED BY <3>3, <3>4
  <2> QED BY <2>1, <2>2
<1>13. ASSUME NEW i \in 1..c, f < i, NEW jd \in Id \ {id}, NEW j \in 1..Len(table[jd])
       PROVE  table[jd][j] # t[i]
  <2>1. CASE i <= a
    <3>1. i \in 1..a /\ s = table[id] /\ Exclusive(id, i)
      BY <1>11, <1>13, <2>1
    <3>2. t[i] = table[id][i]
      BY <1>6, <3>1
    <3> QED BY <1>13, <3>1, <3>2 DEF Exclusive
  <2>2. CASE ~(i <= a)
    <3>1. PICK k \in 1..n : i = a + k
        BY <1>b, <2>2
    <3>2. t[i] = fresh[k]
      BY <1>6, <3>1
    <3> QED BY <1>7, <3>2
  <2> QED BY <2>1, <2>2
(* What is written where.                                                      *)
<1>14. PICK h : h = ExtendHashes(hs, Tokens(id, m), u)
  OBVIOUS
<1>15. /\ blockHash' = [b \in Block |->
             IF \E i \in f+1..u : t[i] = b THEN h[CHOOSE i \in f+1..u : t[i] = b]
             ELSE IF b \in Range(fresh) THEN NoKey ELSE blockHash[b]]
       /\ content' = [b \in Block |->
             IF \E i \in f+1..c : t[i] = b
             THEN ComputedState(id, m, t, from, upto, CHOOSE i \in f+1..c : t[i] = b)
             ELSE content[b]]
  <2>1. blockHash' = [b \in Block |->
             IF \E i \in f+1..u : t[i] = b THEN h[CHOOSE i \in f+1..u : t[i] = b]
             ELSE IF b \in Range(fresh) THEN NoKey ELSE blockHash[b]]
    BY <1>1, <1>2, <1>3, <1>4, <1>14 DEF Allocated
  <2>2. content' = [b \in Block |->
             IF \E i \in f+1..c : t[i] = b
             THEN ComputedState(id, m, t, from, upto, CHOOSE i \in f+1..c : t[i] = b)
             ELSE content[b]]
    BY <1>1, <1>2, <1>3, <1>4 DEF Allocated
  <2> QED BY <2>1, <2>2
<1>16. ASSUME NEW b \in Block, \A i \in 1..c : f < i => t[i] # b PROVE Same(b)
  <2>1. ~ \E i \in f+1..u : t[i] = b
    BY <1>2, <1>16
  <2>2. ~ \E i \in f+1..c : t[i] = b
    BY <1>2, <1>16
  <2>3. b \notin Range(fresh)
    <3> SUFFICES ASSUME b \in Range(fresh) PROVE FALSE
      OBVIOUS
    <3>1. PICK k \in 1..n : fresh[k] = b
      BY <1>4, <1>5, RangeHas
    <3>2. t[a + k] = b
      BY <1>6, <3>1
    <3>3. a + k \in 1..c
      BY <1>2, <1>5
    <3>4. a + k > f
      BY <1>2
    <3> QED BY <1>16, <3>2, <3>3, <3>4
  <2> QED BY <1>15, <2>1, <2>2, <2>3 DEF Same
<1>17. ASSUME NEW i \in 1..c, f < i
       PROVE  /\ content'[t[i]] = ComputedState(id, m, t, from, upto, i)
              /\ i <= u => blockHash'[t[i]] = h[i]
              /\ u < i => blockHash'[t[i]] = IF i <= a THEN blockHash[s[i]] ELSE NoKey
  <2>0. t[i] \in Block
    BY <1>3
  <2>1. content'[t[i]] = ComputedState(id, m, t, from, upto, i)
    <3>1. i \in f+1..c
      BY <1>17
    <3>2. PICK k : k = CHOOSE j \in f+1..c : t[j] = t[i]
      OBVIOUS
    <3>3. k \in f+1..c /\ t[k] = t[i]
      BY <3>1, <3>2
    <3>4. k = i
      <4>1. k \in 1..c
        BY <3>3
      <4> QED BY <1>12, <1>17, <3>3, <4>1
    <3> QED BY <1>15, <2>0, <3>1, <3>2, <3>4
  <2>2. ASSUME i <= u PROVE blockHash'[t[i]] = h[i]
    <3>1. i \in f+1..u
      BY <1>17, <2>2
    <3>2. PICK k : k = CHOOSE j \in f+1..u : t[j] = t[i]
      OBVIOUS
    <3>3. k \in f+1..u /\ t[k] = t[i]
      BY <3>1, <3>2
    <3>4. k = i
      <4>1. k \in 1..c
        BY <1>2, <3>3
      <4> QED BY <1>12, <1>17, <3>3, <4>1
    <3> QED BY <1>15, <2>0, <3>1, <3>2, <3>4
  <2>3. ASSUME u < i PROVE blockHash'[t[i]] = IF i <= a THEN blockHash[s[i]] ELSE NoKey
    <3>1. ~ \E j \in f+1..u : t[j] = t[i]
      <4> SUFFICES ASSUME NEW j \in f+1..u, t[j] = t[i] PROVE FALSE
        OBVIOUS
      <4>1. j \in 1..c /\ j # i
        BY <1>2, <2>3
      <4> QED BY <1>12, <1>17, <4>1
    <3>2. CASE i <= a
      <4>1. i \in 1..a /\ t[i] = s[i]
        BY <1>6, <3>2
      <4>2. t[i] \notin Range(fresh)
        <5> SUFFICES ASSUME t[i] \in Range(fresh) PROVE FALSE
          OBVIOUS
        <5>1. PICK k \in 1..n : fresh[k] = t[i]
          BY <1>4, <1>5, RangeHas
        <5> QED BY <1>10, <4>1, <5>1
      <4> QED BY <1>15, <2>0, <3>1, <3>2, <4>1, <4>2
    <3>3. CASE ~(i <= a)
      <4>1. PICK k \in 1..n : i = a + k
        BY <1>b, <3>3
      <4>2. t[i] = fresh[k]
        BY <1>6, <4>1
      <4>3. t[i] \in Range(fresh)
        BY <1>4, <1>5, <4>2, RangeHas
      <4> QED BY <1>15, <2>0, <3>1, <3>3, <4>3
    <3> QED BY <3>2, <3>3
  <2> QED BY <2>1, <2>2, <2>3
<1>18. \A b \in Block : Same(b) \/ \E i \in 1..c : f < i /\ t[i] = b
  BY <1>16
<1>19. \A i \in 1..a : i \in 1..c /\ t[i] = s[i]
  BY <1>2, <1>6
<1>20. \A i \in 1..c : i <= f => i <= a
  BY <1>2
<1>21. Effect(id, m, h, s, t, from, upto, f, u)
  <2>1. a = Len(s) /\ c = Len(t)
    BY <1>2, <1>3
  <2>2. \A b \in Block : Same(b) \/ \E i \in 1..Len(t) : f < i /\ t[i] = b
    BY <1>18, <2>1
  <2>3. (\A i \in 1..Len(s) : i \in 1..Len(t) /\ t[i] = s[i]) /\ \A i \in 1..Len(t) : i <= f => i <= Len(s)
    BY <1>19, <1>20, <2>1
  <2>4. ASSUME NEW i \in 1..Len(t), f < i
        PROVE /\ content'[t[i]] = ComputedState(id, m, t, from, upto, i)
              /\ i <= u => blockHash'[t[i]] = h[i]
              /\ u < i => blockHash'[t[i]] = IF i <= Len(s) THEN blockHash[s[i]] ELSE NoKey
    BY <1>17, <2>1, <2>4
  <2>5. ASSUME NEW i \in 1..Len(t), f < i PROVE \A j \in 1..Len(t) : t[j] = t[i] => j = i
    BY <1>12, <2>1, <2>5
  <2>6. ASSUME NEW i \in 1..Len(t), f < i, NEW jd \in Id \ {id}, NEW j \in 1..Len(table[jd])
        PROVE table[jd][j] # t[i]
    BY <1>13, <2>1, <2>6
  <2> QED BY <2>2, <2>3, <2>4, <2>5, <2>6 DEF Effect
<1>22. t = table'[id] /\ \A jd \in Id : jd # id => table'[jd] = table[jd]
  BY <1>0, <1>3
<1> QED BY <1>1, <1>2, <1>14, <1>21, <1>22
-----------------------------------------------------------------------------
(* A document request enters a queue only when it is spawned.                   *)
InQueue(id) == id \in Range(waiting) \cup Range(running)

Spawned(id) == SpawnDocuments /\ \E d \in MissingDocs(Head(waiting)) : id = DocId(Head(waiting), d)

LEMMA WaitingHead ==
    ASSUME Shape, waiting # <<>>
    PROVE  /\ Head(waiting) \in Id /\ Head(waiting) \in Range(waiting) /\ Head(waiting) = waiting[1]
           /\ Range(Tail(waiting)) \subseteq Range(waiting)
           /\ Range(waiting) = {Head(waiting)} \cup Range(Tail(waiting))
<1>1. waiting \in Seq(Id)
  BY DEF Shape
<1>2. Range(waiting) = {Head(waiting)} \cup Range(Tail(waiting)) /\ Head(waiting) = waiting[1]
  BY <1>1, TailParts
<1>3. Head(waiting) \in Id
  BY <1>1, SeqParts
<1> QED BY <1>2, <1>3

LEMMA DocsQueued ==
    ASSUME Shape, Places, [Next]_vars, NEW id \in Id, IsDoc(id), InQueue(id)', ~InQueue(id)
    PROVE  Spawned(id)
<1>0. /\ waiting \in Seq(Id) /\ running \in Seq(Id) /\ skipped \in Seq(Id)
      /\ Range(waiting) \subseteq Id /\ Range(skipped) \subseteq Id /\ Range(running) \subseteq Id
  BY RangesInId DEF Shape
<1>1. ASSUME NEW r \in Request, AddRequest(r) PROVE FALSE
  <2>1. PICK u \in Id : u = User(r) /\ ~IsDoc(u)
    BY UserFacts
  <2>2. waiting' = Append(waiting, u) /\ running' = running
    BY <1>1, <2>1 DEF AddRequest
  <2>3. PICK v \in Seq(Id) : v = <<u>> /\ Range(v) = {u}
    BY Singleton
  <2>4. Range(waiting \o v) = Range(waiting) \cup Range(v)
    <3>1. waiting \in Seq(Id) /\ v \in Seq(Id)
      BY <1>0, <2>3
    <3>2. PICK z : z = waiting \o v
      OBVIOUS
    <3>3. Joined(z, waiting, v)
      BY <3>2 DEF Joined
    <3>4. Range(z) = Range(waiting) \cup Range(v)
      BY <3>1, <3>3, RangeJoined
    <3> QED BY <3>2, <3>4
  <2>5. waiting' = waiting \o v
    BY <1>0, <2>2, <2>3
  <2> QED BY <2>1, <2>2, <2>3, <2>4, <2>5 DEF InQueue
<1>2. ASSUME NEW r \in Request, Abort(r) PROVE FALSE
  <2>1. PICK S : S = Id \ {User(r)}
    OBVIOUS
  <2>2. waiting' = Only(waiting, S) /\ running' = Only(running, S)
    BY <1>2, <2>1 DEF Abort
  <2>3. Range(waiting') = Range(waiting) \cap S
    BY <1>0, <2>2, OnlyKeeps
  <2>4. Range(running') = Range(running) \cap S
    BY <1>0, <2>2, OnlyKeeps
  <2> QED BY <2>3, <2>4 DEF InQueue
<1>3. CASE RunningPreempt
  <2>1. running # <<>>
    BY <1>3 DEF RunningPreempt, InRunningLoop, Shape
  <2>2. PICK u \in Id : u = Last(running)
    BY <1>0, <2>1, SeqParts
  <2>3. running' = Front(running) /\ waiting' = <<u>> \o waiting
    BY <1>3, <2>2 DEF RunningPreempt
  <2>4. Range(running) = {u} \cup Range(running')
    BY <1>0, <2>1, <2>2, <2>3, FrontParts
  <2>5. Range(waiting') = {u} \cup Range(waiting)
    BY <1>0, <2>3, Prepend
  <2> QED BY <2>4, <2>5 DEF InQueue
<1>4. CASE SkipForGrammar \/ DropCachedDocument
  <2>1. waiting # <<>> /\ waiting' = Tail(waiting) /\ running' = running
    BY <1>4 DEF SkipForGrammar, DropCachedDocument, AtLookup, InWaitingLoop
  <2> QED BY <2>1, WaitingHead DEF InQueue
<1>5. CASE SpawnDocuments
  <2>1. waiting # <<>> /\ running' = running
    BY <1>5 DEF SpawnDocuments, InWaitingLoop
  <2>2. PICK p \in Id : p = Head(waiting)
    BY <2>1, WaitingHead
  <2>3. PICK missing : missing = Only(Positions(DocsOf(p)), MissingDocs(p))
    OBVIOUS
  <2>4. PICK reqs : reqs = [k \in 1..Len(missing) |-> DocId(p, missing[k])]
    OBVIOUS
  <2>5. /\ reqs \in Seq(Id) /\ Range(reqs) = {DocId(p, d) : d \in MissingDocs(p)}
        /\ Enqueued(reqs) = Reverse(reqs) \o waiting
    BY <2>3, <2>4, SpawnedFacts
  <2>6. waiting' = Reverse(reqs) \o waiting
    BY <1>5, <2>2, <2>3, <2>4, <2>5 DEF SpawnDocuments
  <2>7. Reverse(reqs) \in Seq(Id) /\ Range(Reverse(reqs)) = Range(reqs)
    BY <2>5, ReverseFacts
  <2>8. Range(Reverse(reqs) \o waiting) = Range(Reverse(reqs)) \cup Range(waiting)
    BY <1>0, <2>7, ConcatFacts
  <2>9. id \in Range(reqs)
    BY <2>1, <2>6, <2>7, <2>8 DEF InQueue
  <2> QED BY <1>5, <2>2, <2>5, <2>9 DEF Spawned
<1>6. CASE AttemptSucceeds
  <2>1. /\ waiting # <<>> /\ waiting' = Tail(waiting) /\ running' = Append(running, Head(waiting))
    BY <1>6 DEF AttemptSucceeds, Attempts, AtLookup, InWaitingLoop
  <2>2. PICK u \in Id : u = Head(waiting) /\ u \in Range(waiting)
    BY <2>1, WaitingHead
  <2>3. PICK v \in Seq(Id) : v = <<u>> /\ Range(v) = {u}
    BY Singleton
  <2>4. Range(running \o v) = Range(running) \cup Range(v)
    <3>1. running \in Seq(Id) /\ v \in Seq(Id)
      BY <1>0, <2>3
    <3>2. PICK z : z = running \o v
      OBVIOUS
    <3>3. Joined(z, running, v)
      BY <3>2 DEF Joined
    <3>4. Range(z) = Range(running) \cup Range(v)
      BY <3>1, <3>3, RangeJoined
    <3> QED BY <3>2, <3>4
  <2>6. running' = running \o v
    BY <1>0, <2>1, <2>2, <2>3
  <2>5. Range(waiting') \subseteq Range(waiting)
    BY <2>1, WaitingHead
  <2> QED BY <2>1, <2>2, <2>3, <2>4, <2>5, <2>6 DEF InQueue
<1>7. CASE FinishSchedule
  <2>1. waiting' = skipped \o waiting /\ running' = running
    BY <1>7 DEF FinishSchedule, PutBack
  <2>2. Range(waiting') = Range(skipped) \cup Range(waiting)
    BY <1>0, <2>1, ConcatFacts
  <2>3. id \notin Range(skipped)
    BY DEF Places
  <2> QED BY <2>1, <2>2, <2>3 DEF InQueue
<1>8. CASE FinishRequest
  <2>1. PICK k \in 1..Len(running) : k = idx
    <3>1. idx \in 1..Len(running)
      BY <1>8 DEF FinishRequest, Shape
    <3> QED BY <3>1
  <2>2. running' = RemoveAt(running, k) /\ waiting' = waiting
    BY <1>8, <2>1 DEF FinishRequest
  <2>3. Distinct(running)
    BY DEF Places, Apart
  <2>4. Range(RemoveAt(running, k)) = Range(running) \ {running[k]}
    BY <1>0, <2>1, <2>3, RemovedDistinct
  <2> QED BY <2>2, <2>4 DEF InQueue
<1>9. ASSUME \/ \E r \in Request : CompileGrammar(r)
             \/ StartSchedule \/ EndRunning \/ KeepRunning \/ EndUpdate \/ RunningSchedule \/ AttemptFails
             \/ UNCHANGED vars
      PROVE  FALSE
  <2>1. UNCHANGED <<waiting, running>>
    BY <1>9 DEF CompileGrammar, StartSchedule, EndRunning, KeepRunning, RunningSchedule, AttemptFails,
       EndUpdate, vars, queueVars
  <2> QED BY <2>1 DEF InQueue
<1> QED
  BY <1>1, <1>2, <1>3, <1>4, <1>5, <1>6, <1>7, <1>8, <1>9 DEF Next, Schedule, Update, Quiescent

(* A document that is missing has tokens; until it finishes, its request has    *)
(* none of its own.                                                            *)
Young == \A id \in Id : IsDoc(id) /\ InQueue(id) => out[id] = 0 /\ PromptOf(id) # <<>>

LEMMA MissingHasTokens ==
    ASSUME NEW id \in Id, NEW d \in MissingDocs(id)
    PROVE  /\ d \in DOMAIN DocsOf(id) /\ DocId(id, d) \in Id /\ PromptOf(DocId(id, d)) # <<>>
           /\ IsDoc(DocId(id, d)) /\ id = User(id[1]) /\ DocId(id, d)[1] = id[1]
<1>1. d \in DOMAIN DocsOf(id) /\ ~IsDocReady(id, d)
  BY DEF MissingDocs
<1>2. /\ DocId(id, d) \in Id /\ PromptOf(DocId(id, d)) = DocsOf(id)[d] /\ DocsOf(id)[d] \in Seq(Int)
      /\ IsDoc(DocId(id, d)) /\ id = User(id[1]) /\ DocId(id, d)[1] = id[1]
  BY <1>1, DocsFacts
<1>3. SUFFICES ASSUME DocsOf(id)[d] = <<>> PROVE FALSE
  BY <1>1, <1>2
<1>4. PICK hs \in Seq(Key) : hs = DocHashes(id)[d]
  BY <1>1, DocHit
<1>5. PICK z \in Int : z = 0
  OBVIOUS
<1>6. PICK n \in 0..Len(hs) : /\ LongestHit(hs, z) = SubSeq(hs, 1, n)
                              /\ Len(LongestHit(hs, z)) = n /\ n * BlockSize <= z
  <2>1. z >= 0
    BY <1>5
  <2> QED BY <2>1, HitPrefix
<1>7. n = 0
  <2>1. n \in Int /\ 1 \in Int
    BY <1>4
  <2>2. (1 <= n <=> 1 * BlockSize <= n * BlockSize) /\ n * BlockSize \in Int
    BY <2>1, Products
  <2>3. BlockSize \in Nat /\ BlockSize >= 1
    BY SchedulerAssumption
  <2> QED BY <1>4, <1>5, <1>6, <2>2, <2>3
<1>8. Len(DocsOf(id)[d]) = 0
  BY <1>3
<1>9. 0 * BlockSize = 0
  BY SchedulerAssumption
<1>10. IsDocReady(id, d)
  BY <1>4, <1>5, <1>6, <1>7, <1>8, <1>9 DEF IsDocReady
<1> QED BY <1>1, <1>10

LEMMA YoungInit == Init => Young
BY EmptyRange DEF Init, Young, InQueue

LEMMA YoungStep ==
    ASSUME Shape, Shape', Places, Young, [Next]_vars
    PROVE  Young'
<1>0. out \in [Id -> Nat]
  BY DEF Shape
<1>1. CASE SpawnDocuments
  <2>1. PICK p \in Id : p = Head(waiting)
    BY <1>1, WaitingHead DEF SpawnDocuments, InWaitingLoop
  <2>2. out' = [j \in Id |-> IF j \in {DocId(p, d) : d \in MissingDocs(p)} THEN 0 ELSE out[j]]
    BY <1>1, <2>1 DEF SpawnDocuments
  <2> SUFFICES ASSUME NEW id \in Id, IsDoc(id), InQueue(id)' PROVE out'[id] = 0 /\ PromptOf(id) # <<>>
    BY DEF Young
  <2>3. CASE InQueue(id)
    BY <2>2, <2>3 DEF Young
  <2>4. CASE ~InQueue(id)
    <3>1. PICK d \in MissingDocs(p) : id = DocId(p, d)
      BY <2>1, <2>4, DocsQueued DEF Spawned
    <3> QED BY <2>2, <3>1, MissingHasTokens
  <2> QED BY <2>3, <2>4
<1>2. CASE ~SpawnDocuments /\ out' = out
  <2> SUFFICES ASSUME NEW id \in Id, IsDoc(id), InQueue(id)' PROVE out[id] = 0 /\ PromptOf(id) # <<>>
    BY <1>2 DEF Young
  <2>1. InQueue(id)
    BY <1>2, DocsQueued DEF Spawned
  <2> QED BY <2>1 DEF Young
<1>3. CASE ~SpawnDocuments /\ (KeepRunning \/ FinishRequest) /\ out' # out
  <2>1. PICK u \in Id : u = running[idx] /\ u \in Range(running) /\ idx \in 1..Len(running)
    <3>1. idx <= Len(running)
      BY <1>3 DEF KeepRunning, FinishRequest
    <3>2. running[idx] \in Range(running)
      BY <3>1, HeadFacts, RangeHas DEF Shape
    <3> QED BY <3>1, <3>2, HeadFacts
  <2>2. \A id \in Id : id # u => out'[id] = out[id]
    BY <1>0, <1>3, <2>1 DEF KeepRunning, FinishRequest
  <2> SUFFICES ASSUME NEW id \in Id, IsDoc(id), InQueue(id)' PROVE out'[id] = 0 /\ PromptOf(id) # <<>>
    BY <1>3 DEF Young
  <2>3. InQueue(id)
    BY <1>3, DocsQueued DEF Spawned
  <2>4. out[id] = 0 /\ PromptOf(id) # <<>>
    BY <2>3 DEF Young
  <2>5. id # u
    <3> SUFFICES ASSUME id = u PROVE FALSE
      OBVIOUS
    <3>1. CASE KeepRunning
      <4>1. Samples(u) /\ out[u] + 1 < MaxOut(u)
        BY <1>3, <2>1, <3>1 DEF KeepRunning
      <4>2. MaxOut(u) = 1
        BY DEF MaxOut
      <4> QED BY <2>4, <4>1, <4>2
    <3>2. CASE FinishRequest
      <4>1. PICK k \in 1..Len(running) : k = idx
        BY <2>1
      <4>2. running' = RemoveAt(running, k) /\ waiting' = waiting
        BY <3>2, <4>1 DEF FinishRequest
      <4>3. Distinct(running) /\ running \in Seq(Id)
        BY DEF Places, Apart, Shape
      <4>4. Range(RemoveAt(running, k)) = Range(running) \ {running[k]}
        BY <4>1, <4>3, RemovedDistinct
      <4>5. u \notin Range(waiting)
        BY <2>1 DEF Places, Apart
      <4> QED BY <2>1, <4>1, <4>2, <4>4, <4>5 DEF InQueue
    <3> QED BY <1>3, <3>1, <3>2
  <2> QED BY <2>2, <2>4, <2>5
<1>4. SpawnDocuments \/ KeepRunning \/ FinishRequest \/ out' = out
  BY DEF Next, Schedule, Update, Quiescent, AddRequest, CompileGrammar, Abort, StartSchedule, RunningSchedule,
     RunningPreempt, EndRunning, SkipForGrammar, DropCachedDocument, AttemptFails, AttemptSucceeds,
     FinishSchedule, EndUpdate, reqVars, vars
<1> QED BY <1>1, <1>2, <1>3, <1>4
-----------------------------------------------------------------------------
(* What the cache's variables are, and what is not yet registered: the blocks   *)
(* behind a request's full ones are its own and carry no hash.                 *)
CacheTypes == hashes \in [Id -> Seq(Key)] /\ blockHash \in [Block -> Key \cup {NoKey}]

Tails ==
    \A id \in Id : \A i \in 1..Len(table[id]) :
       DoneUpto(id) \div BlockSize < i => blockHash[table[id][i]] = NoKey /\ Exclusive(id, i)

LEMMA ListOf ==
    ASSUME NEW T, NEW k \in Nat, NEW e, e = [i \in 1..k |-> e[i]], \A i \in 1..k : e[i] \in T
    PROVE  e \in Seq(T) /\ Len(e) = k
<1>1. e \in Seq(T)
  OBVIOUS
<1>2. Len(e) = k
  BY <1>1
<1> QED BY <1>1, <1>2

LEMMA ExtendFacts ==
    ASSUME NEW hs \in Seq(Key), NEW toks \in Seq(Int), NEW full \in Nat, full * BlockSize <= Len(toks)
    PROVE  /\ ExtendHashes(hs, toks, full) \in Seq(Key) /\ full <= Len(ExtendHashes(hs, toks, full))
           /\ \A i \in 1..Len(hs) : ExtendHashes(hs, toks, full)[i] = hs[i]
           /\ full <= Len(hs) => ExtendHashes(hs, toks, full) = hs
<1>1. PICK n \in Nat : n = Len(hs)
  OBVIOUS
<1>2. PICK last : last = IF n = 0 THEN [docs |-> <<>>, toks |-> <<>>] ELSE hs[n]
  OBVIOUS
<1>3. PICK k \in Nat : k = Max({0, full - n}) /\ (full <= n => k = 0) /\ (~(full <= n) => n + k = full)
  <2>1. full - n \in Int
    OBVIOUS
  <2>2. Max({0, full - n}) = IF 0 >= full - n THEN 0 ELSE full - n
    BY <2>1, MaxOfTwo
  <2> QED BY <2>1, <2>2
<1>4. PICK e : e = [i \in 1..k |-> [docs |-> last.docs,
                       toks |-> last.toks \o SubSeq(toks, n * BlockSize + 1, (n + i) * BlockSize)]]
  OBVIOUS
<1>5. last \in Key
  <2>1. <<>> \in Seq(Seq(Int)) /\ <<>> \in Seq(Int)
    OBVIOUS
  <2>2. [docs |-> <<>>, toks |-> <<>>] \in Key
    BY <2>1 DEF Key
  <2>3. n # 0 => hs[n] \in Key
    BY <1>1
  <2> QED BY <1>2, <2>2, <2>3
<1>6. ASSUME NEW i \in 1..k PROVE SubSeq(toks, n * BlockSize + 1, (n + i) * BlockSize) \in Seq(Int)
  <2>0. PICK l \in Int : l = n + i /\ l <= full /\ l >= 0
    BY <1>3
  <2>1. PICK a \in Nat : a = n * BlockSize
    <3>1. n \in Int /\ n >= 0
      OBVIOUS
    <3> QED BY <3>1, Products
  <2>2. PICK b \in Nat : b = l * BlockSize
    BY <2>0, Products
  <2>3. b <= full * BlockSize /\ full * BlockSize \in Int /\ b = (n + i) * BlockSize
    BY <2>0, <2>2, Products
  <2>4. b <= Len(toks) /\ a + 1 >= 1
    BY <2>1, <2>2, <2>3
  <2>5. SubSeq(toks, a + 1, b) \in Seq(Int)
    BY <2>4
  <2> QED BY <2>1, <2>3, <2>5
<1>7. ASSUME NEW i \in 1..k
      PROVE  [docs |-> last.docs,
              toks |-> last.toks \o SubSeq(toks, n * BlockSize + 1, (n + i) * BlockSize)] \in Key
  <2>1. PICK x \in Seq(Int) : x = SubSeq(toks, n * BlockSize + 1, (n + i) * BlockSize)
    BY <1>6
  <2>2. last.docs \in Seq(Seq(Int)) /\ last.toks \in Seq(Int)
    BY <1>5 DEF Key
  <2>3. last.toks \o x \in Seq(Int)
    BY <2>2
  <2> QED BY <2>1, <2>2, <2>3 DEF Key
<1>8. e \in Seq(Key) /\ Len(e) = k
  <2>1. \A i \in 1..k : e[i] \in Key
    BY <1>4, <1>7
  <2>2. DOMAIN e = 1..k /\ e = [i \in 1..k |-> e[i]]
    BY <1>4
  <2> QED BY <2>1, <2>2, ListOf
<1>9. ExtendHashes(hs, toks, full) = hs \o e
  BY <1>1, <1>2, <1>3, <1>4 DEF ExtendHashes
<1>10. hs \o e \in Seq(Key) /\ Len(hs \o e) = n + k /\ \A i \in 1..n : (hs \o e)[i] = hs[i]
  <2>1. PICK g \in Seq(Key) : g = e
    BY <1>8
  <2>2. hs \o g \in Seq(Key) /\ Len(hs \o g) = Len(hs) + Len(g)
    OBVIOUS
  <2>3. \A i \in 1..Len(hs) : (hs \o g)[i] = hs[i]
    OBVIOUS
  <2> QED BY <1>1, <1>8, <2>1, <2>2, <2>3
<1>11. full <= n + k
  BY <1>3
<1>12. ASSUME full <= n PROVE hs \o e = hs
  <2>1. e = <<>>
    BY <1>3, <1>8, <1>12
  <2> QED BY <2>1
<1> QED BY <1>1, <1>9, <1>10, <1>11, <1>12

(* An allocation to id whose hits are registered and whose blocks behind the    *)
(* full ones are not.                                                          *)
Grants(id, m, hs, hits, from, upto, fresh, f, u) ==
    /\ f = from \div BlockSize /\ u = upto \div BlockSize
    /\ Asked(id, m, hs, hits, from, upto) /\ Given(id, m, hs, hits, from, upto, fresh)
    /\ Clean(id, hits, f) /\ upto <= Len(Tokens(id, m))
    /\ \A j \in 1..Len(hits) : blockHash[hits[j]] # NoKey
    /\ \A i \in 1..Len(table[id]) : f < i => blockHash[table[id][i]] = NoKey
    /\ DoneUpto(id)' = upto /\ \A jd \in Id : jd # id => DoneUpto(jd)' = DoneUpto(jd)

(* An allocation keeps them.  The hits it is given are registered blocks.       *)
LEMMA AllocateKeepsTails ==
    ASSUME Shape, CacheTypes, Tails,
           NEW id \in Id, NEW m \in BOOLEAN, NEW hs \in Seq(Key), NEW hits,
           NEW from \in Nat, NEW upto \in Nat, NEW fresh, NEW f \in Nat, NEW u \in Nat,
           Grants(id, m, hs, hits, from, upto, fresh, f, u)
    PROVE  CacheTypes' /\ Tails'
<1>z. /\ f = from \div BlockSize /\ u = upto \div BlockSize
      /\ Asked(id, m, hs, hits, from, upto) /\ Given(id, m, hs, hits, from, upto, fresh)
      /\ Clean(id, hits, f) /\ upto <= Len(Tokens(id, m))
      /\ \A j \in 1..Len(hits) : blockHash[hits[j]] # NoKey
      /\ \A i \in 1..Len(table[id]) : f < i => blockHash[table[id][i]] = NoKey
      /\ DoneUpto(id)' = upto /\ \A jd \in Id : jd # id => DoneUpto(jd)' = DoneUpto(jd)
  BY DEF Grants
<1> USE <1>z
<1>0. PICK h : h = ExtendHashes(hs, Tokens(id, m), u)
  OBVIOUS
<1>b. PICK s : s = table[id] \o hits
  OBVIOUS
<1>1. PICK t \in Seq(Block) : /\ t = table'[id] /\ s = table[id] \o hits
                           /\ Effect(id, m, h, s, t, from, upto, f, u) /\ f <= u
                           /\ \A jd \in Id : jd # id => table'[jd] = table[jd]
  BY <1>0, <1>b, AllocateEffect
<1>2. /\ table \in [Id -> Seq(Block)] /\ hits \in Seq(Block) /\ out[id] \in Nat
      /\ \A b \in Block : blockHash[b] \in Key \cup {NoKey}
      /\ NoKey \notin Key /\ hashes' = [hashes EXCEPT ![id] = h]
      /\ blockHash' \in [Block -> {blockHash'[b] : b \in Block}]
  <2>1. hashes' = [hashes EXCEPT ![id] = h]
    BY <1>0 DEF Given, Allocated
  <2>2. blockHash' \in [Block -> {blockHash'[b] : b \in Block}]
    BY DEF Given, Allocated
  <2>3. NoKey \notin Key
    BY SchedulerAssumption
  <2> QED BY <2>1, <2>2, <2>3 DEF Shape, FreeExact, Asked, CacheTypes
<1>3. h \in Seq(Key) /\ u <= Len(h)
  <2>1. Tokens(id, m) \in Seq(Int)
    BY <1>2, TokensFacts
  <2>2. u * BlockSize <= upto /\ u * BlockSize \in Int
    BY Division, Products
  <2>3. u * BlockSize <= Len(Tokens(id, m))
    BY <2>1, <2>2
  <2> QED BY <1>0, <2>1, <2>3, ExtendFacts
<1>4. /\ \A b \in Block : Same(b) \/ \E i \in 1..Len(t) : f < i /\ t[i] = b
      /\ \A i \in 1..Len(s) : i \in 1..Len(t) /\ t[i] = s[i]
      /\ \A i \in 1..Len(t) : i <= f => i <= Len(s)
  BY <1>1 DEF Effect
<1>5. ASSUME NEW i \in 1..Len(t), f < i
      PROVE  /\ i <= u => blockHash'[t[i]] = h[i]
             /\ u < i => blockHash'[t[i]] = IF i <= Len(s) THEN blockHash[s[i]] ELSE NoKey
             /\ \A j \in 1..Len(t) : t[j] = t[i] => j = i
             /\ \A jd \in Id \ {id} : \A j \in 1..Len(table[jd]) : table[jd][j] # t[i]
  BY <1>1, <1>5 DEF Effect
<1>6. s \in Seq(Block) /\ (\A i \in 1..Len(s) : f < i => i <= Len(table[id]) /\ s[i] = table[id][i])
  <2>1. CASE hits = <<>>
    <3>1. s = table[id]
      BY <1>1, <1>2, <2>1
    <3> QED BY <1>2, <3>1
  <2>2. CASE table[id] = <<>> /\ Len(hits) <= f
    <3>1. s = hits
      BY <1>1, <1>2, <2>2
    <3> QED BY <1>2, <2>2, <3>1
  <2> QED BY <2>1, <2>2 DEF Clean
<1>7. ASSUME NEW i \in 1..Len(t), u < i PROVE blockHash'[t[i]] = NoKey
  <2>1. f < i
    BY <1>1, <1>7
  <2>2. CASE i <= Len(s)
    <3>1. blockHash'[t[i]] = blockHash[s[i]]
      BY <1>5, <1>7, <2>1, <2>2
    <3>2. i \in 1..Len(s)
      BY <1>6, <2>2
    <3>3. i \in 1..Len(table[id]) /\ s[i] = table[id][i]
      BY <1>2, <1>6, <2>1, <3>2
    <3> QED BY <2>1, <3>1, <3>3
  <2>3. CASE ~(i <= Len(s))
    BY <1>5, <1>7, <2>1, <2>3
  <2> QED BY <2>2, <2>3
<1>8. CacheTypes'
  <2>1. hashes' \in [Id -> Seq(Key)]
    BY <1>2, <1>3 DEF CacheTypes
  <2>2. ASSUME NEW b \in Block PROVE blockHash'[b] \in Key \cup {NoKey}
    <3>1. CASE Same(b)
      BY <1>2, <3>1 DEF Same
    <3>2. CASE \E i \in 1..Len(t) : f < i /\ t[i] = b
      <4>1. PICK i \in 1..Len(t) : f < i /\ t[i] = b
        BY <3>2
      <4>2. CASE i <= u
        <5>1. i \in 1..Len(h)
          BY <1>3, <4>2
        <5>2. h[i] \in Key
          BY <1>3, <5>1
        <5> QED BY <1>5, <4>1, <4>2, <5>2
      <4>3. CASE u < i
        BY <1>7, <4>1, <4>3
      <4> QED BY <4>2, <4>3
    <3> QED BY <1>4, <3>1, <3>2
  <2>3. blockHash' \in [Block -> Key \cup {NoKey}]
    BY <1>2, <2>2
  <2> QED BY <2>1, <2>3 DEF CacheTypes
(* Another request's block that carries no hash is not among the new ones.      *)
<1>9. ASSUME NEW jd \in Id, jd # id, NEW i \in 1..Len(table[jd]),
             blockHash[table[jd][i]] = NoKey, Exclusive(jd, i), NEW k \in 1..Len(t)
      PROVE  t[k] # table[jd][i]
  <2>1. CASE f < k
    BY <1>5, <1>9, <2>1
  <2>2. CASE ~(f < k)
    <3>1. k \in 1..Len(s) /\ t[k] = s[k]
      BY <1>4, <1>6, <2>2
    <3>2. CASE hits = <<>>
      <4>1. s = table[id]
        BY <1>1, <1>2, <3>2
      <4> QED BY <1>9, <3>1, <4>1 DEF Exclusive
    <3>3. CASE table[id] = <<>>
      <4>1. s = hits
        BY <1>1, <1>2, <3>3
      <4>2. blockHash[hits[k]] # NoKey
        BY <3>1, <4>1
      <4> QED BY <1>9, <3>1, <4>1, <4>2
    <3> QED BY <3>2, <3>3 DEF Clean
  <2> QED BY <2>1, <2>2
<1>10. ASSUME NEW jd \in Id, NEW i \in 1..Len(table'[jd]), DoneUpto(jd)' \div BlockSize < i
       PROVE  blockHash'[table'[jd][i]] = NoKey /\ Exclusive(jd, i)'
  <2>1. CASE jd = id
    <3>1. i \in 1..Len(t) /\ u < i /\ f < i /\ table'[jd] = t
      BY <1>1, <1>10, <2>1
    <3>2. \A kd \in Id : \A j \in 1..Len(table'[kd]) : table'[kd][j] = t[i] => kd = id /\ j = i
      <4>1. \A j \in 1..Len(t) : t[j] = t[i] => j = i
        BY <1>5, <3>1
      <4>2. \A kd \in Id \ {id} : \A j \in 1..Len(table[kd]) : table[kd][j] # t[i]
        BY <1>5, <3>1
      <4>3. table'[id] = t /\ \A kd \in Id \ {id} : table'[kd] = table[kd]
        BY <1>1
      <4> QED BY ONLY <4>1, <4>2, <4>3
    <3> QED BY <1>7, <2>1, <3>1, <3>2 DEF Exclusive
  <2>2. CASE jd # id
    <3>1. table'[jd] = table[jd] /\ DoneUpto(jd)' = DoneUpto(jd)
      BY <1>1, <2>2
    <3>2. i \in 1..Len(table[jd]) /\ blockHash[table[jd][i]] = NoKey /\ Exclusive(jd, i)
      BY <1>10, <3>1 DEF Tails
    <3>3. table[jd][i] \in Block
      BY <1>2, <3>2
    <3>4. \A k \in 1..Len(t) : t[k] # table[jd][i]
      BY <1>9, <2>2, <3>2
    <3>5. blockHash'[table[jd][i]] = NoKey
      BY <1>4, <3>2, <3>3, <3>4 DEF Same
    <3>6. \A kd \in Id : \A j \in 1..Len(table'[kd]) : table'[kd][j] = table[jd][i] => kd = jd /\ j = i
      <4> SUFFICES ASSUME NEW kd \in Id, NEW j \in 1..Len(table'[kd]), table'[kd][j] = table[jd][i]
                   PROVE  kd = jd /\ j = i
        OBVIOUS
      <4>1. kd # id
        BY <1>1, <3>4
      <4>2. table'[kd] = table[kd]
        BY <1>1, <4>1
      <4> QED BY <3>2, <4>2 DEF Exclusive
    <3> QED BY <3>1, <3>5, <3>6 DEF Exclusive
  <2> QED BY <2>1, <2>2
<1>11. Tails'
  BY <1>10 DEF Tails
<1> QED BY <1>8, <1>11
-----------------------------------------------------------------------------
(* A step that allocates nothing leaves the blocks alone, and each table either *)
(* alone or empty.                                                             *)
Settled(id) == table'[id] = <<>> \/ (table'[id] = table[id] /\ DoneUpto(id)' = DoneUpto(id))

LEMMA SettledAfter ==
    ASSUME Shape, Shape', Places, Counts, NotAskedTwice, [Next]_vars,
           ~RunningSchedule, ~AttemptSucceeds
    PROVE  UNCHANGED <<blockHash, content>> /\ \A id \in Id : Settled(id)
<1>0. /\ computed \in [Id -> Nat] /\ scheduled \in [Id -> Nat] /\ Range(running) \subseteq Id
      /\ table \in [Id -> Seq(Block)] /\ running \in Seq(Id)
  BY CountTypes, RangesInId DEF Shape, FreeExact
<1>1. ASSUME \/ \E r \in Request : AddRequest(r) \/ CompileGrammar(r)
             \/ StartSchedule \/ EndRunning \/ SkipForGrammar \/ DropCachedDocument \/ AttemptFails
             \/ KeepRunning \/ UNCHANGED vars
      PROVE  UNCHANGED <<blockHash, content>> /\ \A id \in Id : Settled(id)
  <2>1. UNCHANGED <<blockHash, content, table, computed, scheduled>>
    BY <1>1 DEF AddRequest, CompileGrammar, StartSchedule, EndRunning, SkipForGrammar, DropCachedDocument,
       AttemptFails, KeepRunning, vars, reqVars, kvVars, stepVars
  <2>2. (pc' = "update") = (pc = "update")
    BY <1>1 DEF AddRequest, CompileGrammar, StartSchedule, EndRunning, SkipForGrammar, DropCachedDocument,
       AttemptFails, Attempts, AtLookup, InWaitingLoop, KeepRunning, vars, stepVars
  <2> QED BY <2>1, <2>2 DEF Settled, DoneUpto
<1>2. ASSUME NEW r \in Request, Abort(r)
      PROVE  UNCHANGED <<blockHash, content>> /\ \A id \in Id : Settled(id)
  <2>1. PICK u \in Id : u = User(r)
    BY UserFacts
  <2>2. UNCHANGED <<blockHash, content, computed, scheduled, pc>> /\ table' = [table EXCEPT ![u] = <<>>]
    BY <1>2, <2>1, RetireShape DEF Abort, Retire, stepVars
  <2>3. \A id \in Id : table'[id] = IF id = u THEN <<>> ELSE table[id]
    BY <1>0, <2>2
  <2> QED BY <2>2, <2>3 DEF Settled, DoneUpto
<1>3. CASE FinishRequest
  <2>1. PICK u \in Id : u = running[idx]
    BY <1>3, HeadFacts DEF FinishRequest
  <2>2. UNCHANGED <<blockHash, content, computed, scheduled, pc>> /\ table' = [table EXCEPT ![u] = <<>>]
    BY <1>3, <2>1, RetireShape DEF FinishRequest, Retire, stepVars
  <2>3. \A id \in Id : table'[id] = IF id = u THEN <<>> ELSE table[id]
    BY <1>0, <2>2
  <2> QED BY <2>2, <2>3 DEF Settled, DoneUpto
<1>4. CASE RunningPreempt
  <2>1. running # <<>> /\ pc = "running"
    BY <1>4 DEF RunningPreempt, InRunningLoop, Shape
  <2>2. PICK u \in Id : u = Last(running)
    BY <1>0, <2>1, SeqParts
  <2>3. /\ UNCHANGED <<blockHash, content, scheduled>> /\ table' = [table EXCEPT ![u] = <<>>]
        /\ computed' = [computed EXCEPT ![u] = 0] /\ pc' \in {"running", "finish"}
    BY <1>4, <2>2 DEF RunningPreempt, FreeBlocks
  <2>4. \A id \in Id : /\ table'[id] = IF id = u THEN <<>> ELSE table[id]
                       /\ id # u => computed'[id] = computed[id]
    BY <1>0, <2>3
  <2> QED BY <2>1, <2>3, <2>4 DEF Settled, DoneUpto
<1>5. CASE SpawnDocuments
  <2>1. PICK S : S = {DocId(Head(waiting), d) : d \in MissingDocs(Head(waiting))}
    OBVIOUS
  <2>2. /\ computed' = [j \in Id |-> IF j \in S THEN 0 ELSE computed[j]]
        /\ UNCHANGED <<table, pc, scheduled, blockHash, content>>
    BY <1>5, <2>1 DEF SpawnDocuments, kvVars, stepVars
  <2>3. \A j \in S : j \notin Range(running)
    BY <1>5, <2>1 DEF NotAskedTwice, SpawnDocuments
  <2>4. \A id \in Id : id \in S => table[id] = <<>>
    BY <2>3 DEF Places
  <2>5. \A id \in Id : id \notin S => computed'[id] = computed[id]
    BY <2>2
  <2> QED BY <2>2, <2>4, <2>5 DEF Settled, DoneUpto
<1>6. CASE FinishSchedule
  <2>1. /\ UNCHANGED <<table, scheduled, blockHash, content>> /\ pc # "update" /\ pc' = "update"
        /\ computed' = [id \in Id |-> computed[id] + scheduled[id]]
    BY <1>6 DEF FinishSchedule, kvVars
  <2> QED BY <2>1 DEF Settled, DoneUpto
<1>7. CASE EndUpdate
  <2>1. /\ UNCHANGED <<table, computed, blockHash, content>> /\ pc = "update" /\ pc' = "idle"
        /\ scheduled' = [id \in Id |-> 0]
    BY <1>7 DEF EndUpdate, kvVars, reqVars
  <2> QED BY <1>0, <2>1 DEF Settled, DoneUpto
<1> QED
  BY <1>1, <1>2, <1>3, <1>4, <1>5, <1>6, <1>7 DEF Next, Schedule, Update, Quiescent

(* The hashes of a request change when it is looked up, when it gets blocks and *)
(* when it leaves.                                                             *)
LEMMA HashesAfter ==
    ASSUME Shape, Shape', CacheTypes, [Next]_vars, ~RunningSchedule, ~AttemptSucceeds, NEW id \in Id
    PROVE  \/ hashes'[id] = hashes[id]
           \/ hashes'[id] = <<>> /\ status'[id] = "FINISHED"
           \/ AtLookup(id) /\ DropCachedDocument /\ hashes'[id] = HashesOf(id)
           \/ AtLookup(id) /\ AttemptFails /\ hashes'[id] = AttemptHashes(id)
<1>0. hashes \in [Id -> Seq(Key)] /\ status \in [Id -> Status]
  BY DEF CacheTypes, Shape
<1>1. ASSUME \/ \E r \in Request : AddRequest(r) \/ CompileGrammar(r)
             \/ StartSchedule \/ EndRunning \/ SkipForGrammar \/ SpawnDocuments \/ RunningPreempt
             \/ FinishSchedule \/ EndUpdate \/ KeepRunning \/ UNCHANGED vars
      PROVE  hashes' = hashes
  BY <1>1 DEF AddRequest, CompileGrammar, StartSchedule, EndRunning, SkipForGrammar, SpawnDocuments,
     RunningPreempt, FinishSchedule, EndUpdate, KeepRunning, vars, kvVars
<1>2. ASSUME (\E r \in Request : Abort(r)) \/ FinishRequest
      PROVE  hashes'[id] = hashes[id] \/ (hashes'[id] = <<>> /\ status'[id] = "FINISHED")
  <2>1. PICK u : hashes' = [hashes EXCEPT ![u] = <<>>] /\ status' = [status EXCEPT ![u] = "FINISHED"]
    BY <1>2 DEF Abort, FinishRequest, Retire
  <2> QED BY <1>0, <2>1
<1>3. CASE DropCachedDocument
  <2>1. PICK u \in Id : AtLookup(u) /\ hashes' = [hashes EXCEPT ![u] = HashesOf(u)]
    BY <1>3 DEF DropCachedDocument
  <2> QED BY <1>0, <1>3, <2>1
<1>4. CASE AttemptFails
  <2>1. PICK u \in Id : AtLookup(u) /\ hashes' = [hashes EXCEPT ![u] = AttemptHashes(u)]
    BY <1>4 DEF AttemptFails, Attempts
  <2> QED BY <1>0, <1>4, <2>1
<1> QED BY <1>1, <1>2, <1>3, <1>4 DEF Next, Schedule, Update, Quiescent

(* Types of what is looked up.                                                 *)
LEMMA LookupTypes ==
    ASSUME Shape, CacheTypes, NEW id \in Id
    PROVE  /\ HashesOf(id) \in Seq(Key) /\ AttemptHashes(id) \in Seq(Key)
           /\ AttemptHit(id) \in Seq(Key)
BY AttemptTypes DEF Shape, CacheTypes

-----------------------------------------------------------------------------
Writes == CacheTypes /\ Tails

LEMMA WritesInit == Init => Writes
<1> SUFFICES ASSUME Init PROVE Writes
  OBVIOUS
<1>1. <<>> \in Seq(Key)
  OBVIOUS
<1>2. hashes \in [Id -> Seq(Key)] /\ blockHash \in [Block -> Key \cup {NoKey}]
  BY <1>1 DEF Init
<1>3. \A id \in Id : table[id] = <<>>
  BY DEF Init
<1>4. Tails
  <2> SUFFICES ASSUME NEW id \in Id, NEW i \in 1..Len(table[id]) PROVE FALSE
    BY DEF Tails
  <2>1. Len(table[id]) = 0
    BY <1>3
  <2> QED BY <2>1
<1> QED BY <1>2, <1>4 DEF Writes, CacheTypes

LEMMA WritesRun ==
    ASSUME Shape, Shape', Places, Counts, Writes, NEW id \in Id, NEW from \in Nat, NEW upto \in Nat,
           Ran(id, from, upto)
    PROVE  /\ Writes'
           /\ \E hs \in Seq(Key), t \in Seq(Block), f \in Nat, u \in Nat :
                 /\ hs = hashes[id] /\ t = table'[id] /\ f = from \div BlockSize /\ u = upto \div BlockSize
                 /\ Effect(id, merged[id], ExtendHashes(hs, Tokens(id, merged[id]), u), table[id], t,
                           from, upto, f, u)
                 /\ f <= u /\ DoneUpto(id) = from /\ DoneUpto(id)' = upto
                 /\ hashes' = [hashes EXCEPT ![id] = ExtendHashes(hs, Tokens(id, merged[id]), u)]
                 /\ \A jd \in Id : jd # id => table'[jd] = table[jd] /\ DoneUpto(jd)' = DoneUpto(jd)
<1>0. /\ hashes \in [Id -> Seq(Key)] /\ table \in [Id -> Seq(Block)] /\ merged \in [Id -> BOOLEAN]
      /\ out \in [Id -> Nat] /\ scheduled \in [Id -> Nat] /\ computed \in [Id -> Nat] /\ CacheTypes /\ Tails
  BY CountTypes DEF Writes, CacheTypes, Shape, FreeExact
<1>1. /\ pc = "running" /\ pc' = pc /\ computed' = computed /\ from = computed[id] /\ scheduled[id] = 0
      /\ from <= upto /\ upto <= Total(id, merged[id], out[id]) /\ id \in Range(running)
      /\ scheduled' = [scheduled EXCEPT ![id] = upto - from]
      /\ CanAllocate(id, <<>>, upto)
      /\ Allocate(id, merged[id], hashes[id], <<>>, from, upto)
  BY DEF Ran, reqVars
<1>2. PICK f \in Nat, u \in Nat : f = from \div BlockSize /\ u = upto \div BlockSize
  BY Division
<1>3. PICK m \in BOOLEAN, hs \in Seq(Key) : m = merged[id] /\ hs = hashes[id]
  BY <1>0
<1>4. PICK hits \in Seq(Block) : hits = <<>> /\ Len(hits) = 0
  <2>1. <<>> \in Seq(Block) /\ Len(<<>>) = 0
    OBVIOUS
  <2> QED BY <2>1
<1>5. DoneUpto(id) = from
  BY <1>1 DEF DoneUpto
<1>6. DoneUpto(id)' = upto /\ \A jd \in Id : jd # id => DoneUpto(jd)' = DoneUpto(jd)
  <2>1. PICK k \in Nat : k = upto - from
    BY <1>1
  <2>2. scheduled'[id] = k /\ \A jd \in Id : jd # id => scheduled'[jd] = scheduled[jd]
    BY <1>0, <1>1, <2>1
  <2> QED BY <1>1, <2>1, <2>2 DEF DoneUpto
<1>7. Asked(id, m, hs, hits, from, upto)
  <2>1. PICK n \in Nat : n = Len(table[id])
    BY <1>0
  <2>2. n = CeilDiv(from, BlockSize)
    BY <1>1, <1>5, <2>1 DEF Counts, Fills
  <2>3. Len(table[id]) + Len(hits) = CeilDiv(from, BlockSize)
    BY <1>4, <2>1, <2>2
  <2> QED BY <1>1, <1>3, <1>4, <2>3 DEF Asked
<1>8. PICK fresh : Given(id, m, hs, hits, from, upto, fresh)
  BY <1>7, Grown
<1>9. Clean(id, hits, f) /\ \A i \in 1..Len(table[id]) : f < i => blockHash[table[id][i]] = NoKey
  BY <1>0, <1>2, <1>4, <1>5 DEF Clean, Tails
<1>10. upto <= Len(Tokens(id, m))
  BY <1>0, <1>1, <1>3, Totals
<1>11. \A j \in 1..Len(hits) : blockHash[hits[j]] # NoKey
  BY <1>4
<1>12. Writes'
  <2>0. Grants(id, m, hs, hits, from, upto, fresh, f, u)
    BY <1>2, <1>6, <1>7, <1>8, <1>9, <1>10, <1>11 DEF Grants
  <2>1. CacheTypes' /\ Tails'
    BY <1>0, <2>0, AllocateKeepsTails
  <2> QED BY <2>1 DEF Writes
<1>13. /\ Effect(id, m, ExtendHashes(hs, Tokens(id, m), u), table[id] \o hits, table'[id], from, upto, f, u)
       /\ f <= u /\ table'[id] \in Seq(Block) /\ \A jd \in Id : jd # id => table'[jd] = table[jd]
  BY <1>2, <1>7, <1>8, <1>9, AllocateEffect
<1>14. table[id] \o hits = table[id]
  BY <1>0, <1>4
<1>15. hashes' = [hashes EXCEPT ![id] = ExtendHashes(hs, Tokens(id, m), u)]
  BY <1>2, <1>8 DEF Given, Allocated
<1> QED BY <1>2, <1>3, <1>5, <1>6, <1>12, <1>13, <1>14, <1>15

LEMMA WritesAttempt ==
    ASSUME Shape, Shape', Places, Counts, Writes, NEW id \in Id, NEW hits \in Seq(Block),
           NEW from \in Nat, NEW upto \in Nat, Tried(id, hits, from, upto)
    PROVE  /\ Writes'
           /\ \E hs \in Seq(Key), t \in Seq(Block), f \in Nat, u \in Nat, m \in BOOLEAN :
                 /\ hs = AttemptHashes(id) /\ t = table'[id] /\ f = from \div BlockSize /\ u = upto \div BlockSize
                 /\ f = Len(hits) /\ m = HasDocs(id)
                 /\ Effect(id, m, ExtendHashes(hs, Tokens(id, m), u), hits, t, from, upto, f, u)
                 /\ f <= u /\ DoneUpto(id)' = upto
                 /\ hashes' = [hashes EXCEPT ![id] = ExtendHashes(hs, Tokens(id, m), u)]
                 /\ \A i \in 1..f : blockHash[hits[i]] = AttemptHit(id)[i]
                 /\ \A jd \in Id : jd # id => table'[jd] = table[jd] /\ DoneUpto(jd)' = DoneUpto(jd)
<1>0. /\ hashes \in [Id -> Seq(Key)] /\ table \in [Id -> Seq(Block)] /\ merged \in [Id -> BOOLEAN]
      /\ out \in [Id -> Nat] /\ scheduled \in [Id -> Nat] /\ computed \in [Id -> Nat] /\ CacheTypes /\ Tails
  BY CountTypes DEF Writes, CacheTypes, Shape, FreeExact
<1>1. /\ pc = "waiting" /\ pc' = pc /\ table[id] = <<>> /\ from = Len(hits) * BlockSize
      /\ hits \in BlocksWith(AttemptHit(id))
      /\ from <= upto /\ upto <= Total(id, HasDocs(id), out[id])
      /\ scheduled' = [scheduled EXCEPT ![id] = upto - from]
      /\ computed' = [computed EXCEPT ![id] = from]
      /\ CanAllocate(id, hits, upto)
      /\ Allocate(id, HasDocs(id), AttemptHashes(id), hits, from, upto)
  BY DEF Tried
<1>2. PICK f \in Nat, u \in Nat : f = from \div BlockSize /\ u = upto \div BlockSize
  BY Division
<1>3. PICK m \in BOOLEAN, hs \in Seq(Key) : m = HasDocs(id) /\ hs = AttemptHashes(id)
  BY LookupTypes, <1>0 DEF HasDocs
<1>4. f = Len(hits)
  <2>1. PICK n \in Int : n = Len(hits) /\ n \in Nat
    OBVIOUS
  <2>2. PICK a \in Int : a = from
    OBVIOUS
  <2>3. n * BlockSize <= a /\ a < n * BlockSize + BlockSize
    <3>1. BlockSize \in Nat /\ BlockSize >= 1
      BY SchedulerAssumption
    <3> QED BY <1>1, <2>1, <2>2, <3>1
  <2>4. a \div BlockSize = n
    BY <2>3, DivisionUnique
  <2> QED BY <1>2, <2>1, <2>2, <2>4
<1>5. DoneUpto(id)' = upto /\ \A jd \in Id : jd # id => DoneUpto(jd)' = DoneUpto(jd)
  <2>1. PICK k \in Nat : k = upto - from
    BY <1>1
  <2>2. /\ scheduled'[id] = k /\ \A jd \in Id : jd # id => scheduled'[jd] = scheduled[jd]
        /\ computed'[id] = from /\ \A jd \in Id : jd # id => computed'[jd] = computed[jd]
    BY <1>0, <1>1, <2>1
  <2> QED BY <1>1, <2>1, <2>2 DEF DoneUpto
<1>6. Len(table[id]) = 0
  BY <1>1
<1>7. Asked(id, m, hs, hits, from, upto)
  <2>1. Len(hits) \in Nat /\ CeilDiv(Len(hits) * BlockSize, BlockSize) = Len(hits)
    <3>1. PICK n \in Nat : n = Len(hits)
      OBVIOUS
    <3> QED BY <3>1, CeilExact
  <2>2. Len(table[id]) + Len(hits) = CeilDiv(from, BlockSize)
    BY <1>1, <1>6, <2>1
  <2> QED BY <1>1, <1>3, <2>2 DEF Asked
<1>8. PICK fresh : Given(id, m, hs, hits, from, upto, fresh)
  BY <1>7, Grown
<1>9. Clean(id, hits, f) /\ \A i \in 1..Len(table[id]) : f < i => blockHash[table[id][i]] = NoKey
  BY <1>1, <1>4, <1>6 DEF Clean
<1>10. upto <= Len(Tokens(id, m))
  BY <1>0, <1>1, <1>3, Totals
<1>h. PICK keys \in Seq(Key) : keys = AttemptHit(id) /\ hits \in BlocksWith(keys)
  BY <1>0, <1>1, LookupTypes
<1>i. Len(hits) = Len(keys) /\ \A i \in 1..Len(keys) : blockHash[hits[i]] = keys[i]
  BY <1>h, BlocksWithFacts
<1>11. \A j \in 1..Len(hits) : blockHash[hits[j]] # NoKey
  <2>1. NoKey \notin Key
    BY SchedulerAssumption
  <2>2. \A i \in 1..Len(keys) : keys[i] \in Key
    OBVIOUS
  <2> QED BY <1>i, <2>1, <2>2
<1>12. Writes'
  <2>0. Grants(id, m, hs, hits, from, upto, fresh, f, u)
    BY <1>2, <1>5, <1>7, <1>8, <1>9, <1>10, <1>11 DEF Grants
  <2>1. CacheTypes' /\ Tails'
    BY <1>0, <2>0, AllocateKeepsTails
  <2> QED BY <2>1 DEF Writes
<1>13. /\ Effect(id, m, ExtendHashes(hs, Tokens(id, m), u), table[id] \o hits, table'[id], from, upto, f, u)
       /\ f <= u /\ table'[id] \in Seq(Block) /\ \A jd \in Id : jd # id => table'[jd] = table[jd]
  BY <1>2, <1>7, <1>8, <1>9, AllocateEffect
<1>14. table[id] \o hits = hits
  BY <1>1
<1>15. hashes' = [hashes EXCEPT ![id] = ExtendHashes(hs, Tokens(id, m), u)]
  BY <1>2, <1>8 DEF Given, Allocated
<1>16. \A i \in 1..f : blockHash[hits[i]] = AttemptHit(id)[i]
  BY <1>4, <1>h, <1>i
<1> QED BY <1>2, <1>3, <1>4, <1>5, <1>12, <1>13, <1>14, <1>15, <1>16

LEMMA WritesStep ==
    ASSUME Shape, Shape', Places, Counts, NotAskedTwice, Writes, [Next]_vars
    PROVE  Writes'
<1>1. CASE RunningSchedule
  BY <1>1, RunStep, WritesRun
<1>2. CASE AttemptSucceeds
  BY <1>2, AttemptStep, WritesAttempt
<1>3. CASE ~RunningSchedule /\ ~AttemptSucceeds
  <2>1. UNCHANGED <<blockHash, content>> /\ \A id \in Id : Settled(id)
    BY <1>3, SettledAfter
  <2>2. CacheTypes'
    <3>1. \A id \in Id : hashes'[id] \in Seq(Key)
      <4> TAKE id \in Id
      <4>1. <<>> \in Seq(Key) /\ hashes[id] \in Seq(Key) /\ HashesOf(id) \in Seq(Key) /\ AttemptHashes(id) \in Seq(Key)
        BY LookupTypes DEF Writes, CacheTypes
      <4> QED BY <1>3, <4>1, HashesAfter DEF Writes
    <3>2. \E X : hashes' \in [Id -> Seq(X)]
      BY DEF Shape
    <3>3. hashes' \in [Id -> Seq(Key)]
      BY <3>1, <3>2
    <3> QED BY <2>1, <3>3 DEF Writes, CacheTypes
  <2>3. ASSUME NEW id \in Id, NEW i \in 1..Len(table'[id]), DoneUpto(id)' \div BlockSize < i
        PROVE  blockHash'[table'[id][i]] = NoKey /\ Exclusive(id, i)'
    <3>1. table'[id] # <<>>
      <4> SUFFICES ASSUME table'[id] = <<>> PROVE FALSE
        OBVIOUS
      <4>1. Len(table'[id]) = 0
        OBVIOUS
      <4> QED BY <2>3, <4>1
    <3>2. table'[id] = table[id] /\ DoneUpto(id)' = DoneUpto(id)
      BY <2>1, <3>1 DEF Settled
    <3>3. blockHash[table[id][i]] = NoKey /\ Exclusive(id, i) /\ i \in 1..Len(table[id])
      BY <2>3, <3>2 DEF Writes, Tails
    <3>4. \A jd \in Id : \A j \in 1..Len(table'[jd]) : table'[jd][j] = table[id][i] => jd = id /\ j = i
      <4> SUFFICES ASSUME NEW jd \in Id, NEW j \in 1..Len(table'[jd]), table'[jd][j] = table[id][i]
                   PROVE  jd = id /\ j = i
        OBVIOUS
      <4>1. table'[jd] # <<>>
        <5> SUFFICES ASSUME table'[jd] = <<>> PROVE FALSE
          OBVIOUS
        <5>1. Len(table'[jd]) = 0
          OBVIOUS
        <5> QED BY <5>1
      <4>2. table'[jd] = table[jd]
        BY <2>1, <4>1 DEF Settled
      <4> QED BY <3>3, <4>2 DEF Exclusive
    <3> QED BY <2>1, <3>2, <3>3, <3>4 DEF Exclusive
  <2>4. Tails'
    BY <2>3 DEF Tails
  <2> QED BY <2>2, <2>4 DEF Writes
<1> QED BY <1>1, <1>2, <1>3
-----------------------------------------------------------------------------
(* What an allocation leaves where it was.                                     *)
LEMMA EffectLeaves ==
    ASSUME NEW id \in Id, table \in [Id -> Seq(Block)], NEW m, NEW h, NEW s, NEW t \in Seq(Block),
           NEW from, NEW upto, NEW f \in Nat, NEW u, Effect(id, m, h, s, t, from, upto, f, u)
    PROVE  /\ \A i \in 1..Len(t) : i <= f => Same(t[i]) /\ t[i] = s[i] /\ i <= Len(s)
           /\ \A jd \in Id \ {id} : \A j \in 1..Len(table[jd]) : Same(table[jd][j])
<1>1. /\ \A b \in Block : Same(b) \/ \E i \in 1..Len(t) : f < i /\ t[i] = b
      /\ \A i \in 1..Len(s) : i \in 1..Len(t) /\ t[i] = s[i]
      /\ \A i \in 1..Len(t) : i <= f => i <= Len(s)
      /\ \A i \in 1..Len(t) : f < i =>
            /\ \A j \in 1..Len(t) : t[j] = t[i] => j = i
            /\ \A jd \in Id \ {id} : \A j \in 1..Len(table[jd]) : table[jd][j] # t[i]
  BY DEF Effect
<1>2. ASSUME NEW i \in 1..Len(t), i <= f PROVE Same(t[i]) /\ t[i] = s[i] /\ i <= Len(s)
  <2>1. i <= Len(s)
    BY <1>1, <1>2
  <2>2. t[i] \in Block
    OBVIOUS
  <2>3. ~ \E k \in 1..Len(t) : f < k /\ t[k] = t[i]
    <3> SUFFICES ASSUME NEW k \in 1..Len(t), f < k, t[k] = t[i] PROVE FALSE
      OBVIOUS
    <3>1. i = k
      BY <1>1
    <3> QED BY <1>2, <3>1
  <2>4. Same(t[i])
    BY <1>1, <2>2, <2>3
  <2>5. t[i] = s[i]
    <3>1. Len(s) >= i /\ i \in Nat /\ i >= 1
      BY <2>1
    <3>2. \E n \in Nat : n = i
      BY <3>1
    <3> QED BY <1>1, <2>1, <3>1
  <2> QED BY <2>1, <2>4, <2>5
<1>3. ASSUME NEW jd \in Id \ {id}, NEW j \in 1..Len(table[jd]) PROVE Same(table[jd][j])
  <2>1. table[jd][j] \in Block
    OBVIOUS
  <2> QED BY <1>1, <1>3, <2>1
<1> QED BY <1>2, <1>3

-----------------------------------------------------------------------------
(* The blocks of a document request.  Its hashes, once known, are those of the  *)
(* document, and its full blocks are registered under them.                    *)
DocChain(id) == HashChain(<<>>, PromptOf(id))

Registered ==
    \A id \in Id : IsDoc(id) =>
       /\ hashes[id] \in {<<>>, DocChain(id)}
       /\ id \in Range(running) => hashes[id] = DocChain(id)
       /\ \A i \in 1..Len(table[id]) :
             i <= DoneUpto(id) \div BlockSize => blockHash[table[id][i]] = DocChain(id)[i]

LEMMA DocFacts ==
    ASSUME NEW id \in Id, IsDoc(id)
    PROVE  /\ DocChain(id) \in Seq(Key) /\ Len(DocChain(id)) * BlockSize = Len(PromptOf(id))
           /\ PromptOf(id) \in Seq(Int) /\ Len(PromptOf(id)) \in Nat
           /\ HasDocs(id) = FALSE /\ DocsOf(id) = <<>>
           /\ Total(id, FALSE, 0) = Len(PromptOf(id))
<1>a. PICK r \in Request : r = id[1] /\ \E d \in DOMAIN Docs[r] : d = id[2] /\ id = DocId(User(r), d)
  BY IdFacts
<1>1. PICK d \in DOMAIN Docs[r] : d = id[2] /\ id = DocId(User(r), d)
  BY <1>a
<1>2. ~IsDoc(User(r)) /\ User(r)[1] = r /\ User(r) \in Id
  BY UserFacts
<1>3. DocsOf(User(r)) = Docs[r]
  BY <1>2 DEF DocsOf
<1>4. PromptOf(id) = Docs[r][d] /\ PromptOf(id) \in Seq(Int) /\ Len(PromptOf(id)) % BlockSize = 0
  BY <1>1, <1>2, <1>3, DocsFacts
<1>5. DocsOf(id) = <<>> /\ HasDocs(id) = FALSE
  BY DEF DocsOf, HasDocs
<1>6. PICK p \in Seq(Int), n \in Nat : p = PromptOf(id) /\ n = Len(p) /\ n % BlockSize = 0
  BY <1>4
<1>7. (n \div BlockSize) * BlockSize = n
  BY <1>6, Division
<1>8. PICK seed \in Seq(Seq(Int)) : seed = <<>>
  <2>1. <<>> \in Seq(Seq(Int))
    OBVIOUS
  <2> QED BY <2>1
<1>9. HashChain(seed, p) \in Seq(Key) /\ Len(HashChain(seed, p)) = n \div BlockSize
  BY <1>6, ChainFacts
<1>10. Total(id, FALSE, 0) = n
  BY <1>6 DEF Total, DocLen
<1> QED BY <1>4, <1>5, <1>6, <1>7, <1>8, <1>9, <1>10 DEF DocChain

(* The tokens of a document request in a queue are the document's.              *)
LEMMA DocTokens ==
    ASSUME Shape, CacheTypes, Counts, Young, Registered, NEW id \in Id, IsDoc(id), InQueue(id)
    PROVE  /\ merged[id] = FALSE /\ out[id] = 0 /\ NumTokens(id) = Len(PromptOf(id))
           /\ Total(id, merged[id], out[id]) = Len(PromptOf(id))
           /\ Tokens(id, FALSE) \in Seq(Int) /\ Len(Tokens(id, FALSE)) = Len(PromptOf(id))
           /\ HashesOf(id) = DocChain(id) /\ AttemptHashes(id) = DocChain(id)
           /\ AttemptHit(id) = LongestHit(DocChain(id), Len(PromptOf(id)))
           /\ OwnHit(id) = LongestHit(DocChain(id), Len(PromptOf(id)))
<1>1. HasDocs(id) = FALSE /\ DocsOf(id) = <<>> /\ PromptOf(id) \in Seq(Int) /\ Total(id, FALSE, 0) = Len(PromptOf(id))
  BY DocFacts
<1>2. merged[id] = FALSE
  BY <1>1 DEF Counts, Amounts, Shape
<1>3. out[id] = 0
  BY DEF Young
<1>4. PICK p \in Seq(Int) : p = PromptOf(id)
  BY <1>1
<1>5. [i \in 1..out[id] |-> GenToken] = <<>>
  <2>1. PICK g : g = [i \in 1..out[id] |-> GenToken]
    OBVIOUS
  <2>2. g = [i \in 1..0 |-> GenToken]
    BY <1>3, <2>1
  <2>3. g = <<>>
    BY <2>2
  <2> QED BY <2>1, <2>3
<1>6. Tokens(id, FALSE) = p
  <2>1. Tokens(id, FALSE) = <<>> \o p \o <<>>
    BY <1>4, <1>5 DEF Tokens
  <2>2. <<>> \o p = p /\ p \o <<>> = p
    OBVIOUS
  <2> QED BY <2>1, <2>2
<1>7. HashesOf(id) = DocChain(id)
  <2>1. HashChain(DocsOf(id), Tokens(id, merged[id])) = DocChain(id)
    BY <1>1, <1>2, <1>4, <1>6 DEF DocChain
  <2> QED BY <2>1 DEF HashesOf, Registered
<1>8. NumTokens(id) = Len(PromptOf(id))
  BY <1>2, <1>4, <1>6 DEF NumTokens
<1>9. ~JustMerges(id)
  BY <1>1 DEF JustMerges
<1>10. OwnHit(id) = LongestHit(DocChain(id), Len(PromptOf(id)))
  BY <1>7, <1>8 DEF OwnHit
<1> QED BY <1>1, <1>2, <1>3, <1>4, <1>6, <1>7, <1>8, <1>9, <1>10 DEF AttemptHashes, AttemptHit

LEMMA RegisteredInit == Init => Registered
<1> SUFFICES ASSUME Init, NEW id \in Id
             PROVE  /\ hashes[id] \in {<<>>, DocChain(id)}
                    /\ id \notin Range(running) /\ Len(table[id]) = 0
  BY DEF Registered
<1>1. running = <<>> /\ table[id] = <<>> /\ hashes[id] = <<>>
  BY DEF Init
<1>2. Len(<<>>) = 0
  OBVIOUS
<1> QED BY <1>1, <1>2, EmptyRange

(* Nobody starts to run but the request a scheduling attempt succeeds for.      *)
LEMMA RunningAfter ==
    ASSUME Shape, Places, Places', [Next]_vars, ~AttemptSucceeds, NEW id \in Id, id \in Range(running')
    PROVE  id \in Range(running) /\ status'[id] = "RUNNING"
<1>0. status \in [Id -> Status] /\ status'[id] = "RUNNING"
  BY DEF Shape, Places
<1>1. status[id] = "RUNNING"
  <2>1. ASSUME NEW r \in Request, AddRequest(r) PROVE status[id] = "RUNNING"
    <3>1. PICK u : status' = [status EXCEPT ![u] = NewStatus(u)] /\ NewStatus(u) # "RUNNING"
      BY <2>1 DEF AddRequest, NewStatus
    <3> QED BY <1>0, <3>1
  <2>2. CASE (\E r \in Request : Abort(r)) \/ FinishRequest \/ RunningPreempt
    <3>1. PICK u, v : status' = [status EXCEPT ![u] = v] /\ v # "RUNNING"
      BY <2>2 DEF Abort, FinishRequest, RunningPreempt, Retire
    <3> QED BY <1>0, <3>1
  <2>3. CASE AttemptFails
    <3>1. PICK u : status' = [status EXCEPT ![u] = Cleared(u)]
      BY <2>3 DEF AttemptFails
    <3>2. Cleared(u) = "RUNNING" => status[u] = "RUNNING"
      BY DEF Cleared
    <3> QED BY <1>0, <3>1, <3>2
  <2>4. CASE SpawnDocuments
    <3>1. PICK u, S : status' = [j \in Id |-> IF j \in S THEN NewStatus(j)
                                      ELSE IF j = u THEN Cleared(u) ELSE status[j]]
      BY <2>4 DEF SpawnDocuments
    <3>2. (Cleared(u) = "RUNNING" => status[u] = "RUNNING") /\ NewStatus(id) # "RUNNING"
      BY DEF Cleared, NewStatus
    <3> QED BY <1>0, <3>1, <3>2
  <2>5. ASSUME \/ \E r \in Request : CompileGrammar(r)
               \/ StartSchedule \/ RunningSchedule \/ EndRunning \/ SkipForGrammar \/ DropCachedDocument
               \/ FinishSchedule \/ EndUpdate \/ KeepRunning \/ UNCHANGED vars
        PROVE  status' = status
    BY <2>5 DEF CompileGrammar, StartSchedule, RunningSchedule, EndRunning, SkipForGrammar,
       DropCachedDocument, FinishSchedule, EndUpdate, KeepRunning, vars, reqVars
  <2> QED BY <1>0, <2>1, <2>2, <2>3, <2>4, <2>5 DEF Next, Schedule, Update, Quiescent
<1> QED BY <1>0, <1>1 DEF Places

LEMMA FullWithin ==
    ASSUME NEW upto \in Nat, NEW n \in Nat, NEW k \in Nat, k * BlockSize = n, upto <= n
    PROVE  /\ upto \div BlockSize \in Nat /\ upto \div BlockSize <= k
           /\ (upto \div BlockSize) * BlockSize <= n
<1>1. PICK u \in Nat : u = upto \div BlockSize /\ u * BlockSize <= upto
  BY Division
<1>2. u * BlockSize \in Int
  BY Products
<1>3. u * BlockSize <= k * BlockSize
  BY <1>1, <1>2
<1>4. u <= k
  BY <1>3, Products
<1> QED BY <1>1, <1>2, <1>4

(* A document's blocks are filled under the document's own hashes.              *)
LEMMA DocExtended ==
    ASSUME NEW id \in Id, IsDoc(id), NEW hs \in Seq(Key), hs = DocChain(id),
           NEW toks \in Seq(Int), Len(toks) = Len(PromptOf(id)),
           NEW upto \in Nat, upto <= Len(PromptOf(id))
    PROVE  ExtendHashes(hs, toks, upto \div BlockSize) = hs
<1>a. /\ Len(DocChain(id)) * BlockSize = Len(PromptOf(id)) /\ Len(PromptOf(id)) \in Nat
  BY DocFacts
<1>b. PICK n \in Nat : n = Len(PromptOf(id))
  BY <1>a
<1>c. PICK k \in Nat : k = Len(hs)
  OBVIOUS
<1>1. n = Len(PromptOf(id)) /\ k = Len(hs) /\ k * BlockSize = n
  BY <1>a, <1>b, <1>c
<1>d. PICK u \in Nat : u = upto \div BlockSize
  BY <1>1, FullWithin
<1>2. u <= k /\ u * BlockSize <= n
  BY <1>1, <1>b, <1>d, FullWithin
<1>3. ExtendHashes(hs, toks, u) = hs
  BY <1>1, <1>2, ExtendFacts
<1> QED BY <1>3, <1>d

LEMMA DocWritten ==
    ASSUME NEW id, NEW m, NEW hs \in Seq(Key),
           NEW s, NEW t \in Seq(Block), NEW from, NEW upto, NEW f \in Nat, NEW u \in Nat,
           Effect(id, m, hs, s, t, from, upto, f, u),
           \A i \in 1..Len(t) : i <= f => blockHash'[t[i]] = hs[i]
    PROVE  \A i \in 1..Len(t) : i <= u => blockHash'[t[i]] = hs[i]
<1>4. \A i \in 1..Len(t) : f < i /\ i <= u => blockHash'[t[i]] = hs[i]
  BY DEF Effect
<1>5. \A i \in 1..Len(t) : i <= f \/ f < i
  OBVIOUS
<1> QED BY <1>4, <1>5

LEMMA HitMatches ==
    ASSUME NEW hs \in Seq(Key), NEW k \in Nat, NEW f, Len(LongestHit(hs, k)) = f
    PROVE  \A i \in 1..f : LongestHit(hs, k)[i] = hs[i]
<1>1. PICK z \in Int : z = k /\ z >= 0
  OBVIOUS
<1>2. PICK n \in 0..Len(hs) : /\ Len(LongestHit(hs, z)) = n
                              /\ \A i \in 1..n : Cached(hs[i]) /\ LongestHit(hs, z)[i] = hs[i]
  <2>1. z >= 0
    BY <1>1
  <2> QED BY <2>1, HitPrefix
<1> QED BY <1>1, <1>2

LEMMA RegisteredRun ==
    ASSUME Shape, Shape', Places, Places', Counts, Writes, Young, Registered, RunningSchedule
    PROVE  Registered'
<1>1. PICK id \in Id, from \in Nat, upto \in Nat : Ran(id, from, upto)
  BY RunStep
<1>0. hashes \in [Id -> Seq(Key)] /\ table \in [Id -> Seq(Block)] /\ out \in [Id -> Nat] /\ merged \in [Id -> BOOLEAN]
  BY DEF Writes, CacheTypes, Shape, FreeExact
<1>2. PICK hs \in Seq(Key), t \in Seq(Block), f \in Nat, u \in Nat :
                 /\ hs = hashes[id] /\ t = table'[id] /\ f = from \div BlockSize /\ u = upto \div BlockSize
                 /\ Effect(id, merged[id], ExtendHashes(hs, Tokens(id, merged[id]), u), table[id], t,
                           from, upto, f, u)
                 /\ f <= u /\ DoneUpto(id) = from /\ DoneUpto(id)' = upto
                 /\ hashes' = [hashes EXCEPT ![id] = ExtendHashes(hs, Tokens(id, merged[id]), u)]
                 /\ \A jd \in Id : jd # id => table'[jd] = table[jd] /\ DoneUpto(jd)' = DoneUpto(jd)
  BY <1>1, WritesRun
<1>3. running' = running /\ id \in Range(running) /\ upto <= Total(id, merged[id], out[id])
  BY <1>1 DEF Ran, queueVars
<1>4. /\ \A i \in 1..Len(t) : i <= f => Same(t[i]) /\ t[i] = table[id][i] /\ i <= Len(table[id])
      /\ \A jd \in Id \ {id} : \A j \in 1..Len(table[jd]) : Same(table[jd][j])
  <2>1. PICK m, h : Effect(id, m, h, table[id], t, from, upto, f, u)
    BY <1>2
  <2>2. table \in [Id -> Seq(Block)]
    BY <1>0
  <2> QED BY <2>1, <2>2, EffectLeaves
<1>5. ASSUME IsDoc(id)
      PROVE  /\ hashes'[id] = DocChain(id)
             /\ \A i \in 1..Len(t) : i <= u => blockHash'[t[i]] = DocChain(id)[i]
  <2>1. InQueue(id)
    BY <1>3 DEF InQueue
  <2>2. /\ merged[id] = FALSE /\ Total(id, merged[id], out[id]) = Len(PromptOf(id))
        /\ Tokens(id, FALSE) \in Seq(Int) /\ Len(Tokens(id, FALSE)) = Len(PromptOf(id))
    BY <1>5, <2>1, DocTokens DEF Writes
  <2>3. hs = DocChain(id) /\ Len(hs) * BlockSize = Len(PromptOf(id))
    BY <1>2, <1>3, <1>5, DocFacts DEF Registered
  <2>4. \A i \in 1..Len(t) : i <= f => blockHash'[t[i]] = hs[i]
    <3> SUFFICES ASSUME NEW i \in 1..Len(t), i <= f PROVE blockHash'[t[i]] = hs[i]
      OBVIOUS
    <3>1. blockHash'[t[i]] = blockHash[table[id][i]] /\ i \in 1..Len(table[id])
      BY <1>4 DEF Same
    <3>2. i <= DoneUpto(id) \div BlockSize
      BY <1>2
    <3> QED BY <1>5, <2>3, <3>1, <3>2 DEF Registered
  <2>5. PICK toks \in Seq(Int), m \in BOOLEAN :
             toks = Tokens(id, merged[id]) /\ Len(toks) = Len(PromptOf(id)) /\ m = merged[id]
    BY <1>0, <2>2
  <2>6. Effect(id, m, ExtendHashes(hs, toks, u), table[id], t, from, upto, f, u) /\ u = upto \div BlockSize
    BY <1>2, <2>5
  <2>7. upto <= Len(PromptOf(id))
    BY <1>3, <2>2
  <2>8. /\ ExtendHashes(hs, toks, u) = hs
        /\ \A i \in 1..Len(t) : i <= u => blockHash'[t[i]] = hs[i]
    <3>1. hs = DocChain(id) /\ IsDoc(id)
      BY <1>5, <2>3
    <3>2. Len(toks) = Len(PromptOf(id))
      BY <2>5
    <3>3. ExtendHashes(hs, toks, upto \div BlockSize) = hs
      BY <2>7, <3>1, <3>2, DocExtended
    <3>4. ExtendHashes(hs, toks, u) = hs
      BY <2>6, <3>3
    <3>5. Effect(id, m, hs, table[id], t, from, upto, f, u)
      BY <2>6, <3>4
    <3>6. \A i \in 1..Len(t) : i <= u => blockHash'[t[i]] = hs[i]
      BY <2>4, <3>5, DocWritten, SMTT(30)
    <3> QED BY <3>4, <3>6
  <2>9. hashes'[id] = hs
    BY <1>0, <1>2, <2>5, <2>8
  <2> QED BY <2>3, <2>8, <2>9
<1>6. ASSUME NEW jd \in Id, IsDoc(jd)
      PROVE  /\ hashes'[jd] \in {<<>>, DocChain(jd)}
             /\ jd \in Range(running') => hashes'[jd] = DocChain(jd)
             /\ \A i \in 1..Len(table'[jd]) :
                   i <= DoneUpto(jd)' \div BlockSize => blockHash'[table'[jd][i]] = DocChain(jd)[i]
  <2>1. CASE jd = id
    BY <1>2, <1>5, <1>6, <2>1
  <2>2. CASE jd # id
    <3>1. hashes'[jd] = hashes[jd] /\ table'[jd] = table[jd] /\ DoneUpto(jd)' = DoneUpto(jd)
      BY <1>0, <1>2, <2>2
    <3>2. \A i \in 1..Len(table[jd]) : blockHash'[table[jd][i]] = blockHash[table[jd][i]]
      BY <1>4, <2>2 DEF Same
    <3> QED BY <1>3, <1>6, <3>1, <3>2 DEF Registered
  <2> QED BY <2>1, <2>2
<1> QED BY <1>6 DEF Registered

LEMMA RegisteredAttempt ==
    ASSUME Shape, Shape', Places, Places', Counts, Writes, Young, Registered, AttemptSucceeds
    PROVE  Registered'
<1>1. PICK id \in Id, hits \in Seq(Block), from \in Nat, upto \in Nat : Tried(id, hits, from, upto)
  BY AttemptStep
<1>0. /\ hashes \in [Id -> Seq(Key)] /\ table \in [Id -> Seq(Block)] /\ out \in [Id -> Nat]
      /\ merged \in [Id -> BOOLEAN] /\ running \in Seq(Id) /\ Range(running) \subseteq Id
  BY RangesInId DEF Writes, CacheTypes, Shape, FreeExact
<1>2. PICK hs \in Seq(Key), t \in Seq(Block), f \in Nat, u \in Nat, m \in BOOLEAN :
                 /\ hs = AttemptHashes(id) /\ t = table'[id] /\ f = from \div BlockSize /\ u = upto \div BlockSize
                 /\ f = Len(hits) /\ m = HasDocs(id)
                 /\ Effect(id, m, ExtendHashes(hs, Tokens(id, m), u), hits, t, from, upto, f, u)
                 /\ f <= u /\ DoneUpto(id)' = upto
                 /\ hashes' = [hashes EXCEPT ![id] = ExtendHashes(hs, Tokens(id, m), u)]
                 /\ \A i \in 1..f : blockHash[hits[i]] = AttemptHit(id)[i]
                 /\ \A jd \in Id : jd # id => table'[jd] = table[jd] /\ DoneUpto(jd)' = DoneUpto(jd)
  BY <1>1, WritesAttempt
<1>3. /\ running' = Append(running, id) /\ id \in Range(waiting) /\ upto <= Total(id, HasDocs(id), out[id])
      /\ Len(hits) = Len(AttemptHit(id))
  BY <1>1 DEF Tried
<1>4. /\ \A i \in 1..Len(t) : i <= f => Same(t[i]) /\ t[i] = hits[i] /\ i <= Len(hits)
      /\ \A jd \in Id \ {id} : \A j \in 1..Len(table[jd]) : Same(table[jd][j])
  <2>1. PICK h : Effect(id, m, h, hits, t, from, upto, f, u)
    BY <1>2
  <2>2. table \in [Id -> Seq(Block)]
    BY <1>0
  <2> QED BY <2>1, <2>2, EffectLeaves
<1>5. ASSUME IsDoc(id)
      PROVE  /\ hashes'[id] = DocChain(id)
             /\ \A i \in 1..Len(t) : i <= u => blockHash'[t[i]] = DocChain(id)[i]
  <2>1. InQueue(id)
    BY <1>3 DEF InQueue
  <2>2. /\ m = FALSE /\ Total(id, HasDocs(id), out[id]) = Len(PromptOf(id))
        /\ Tokens(id, FALSE) \in Seq(Int) /\ Len(Tokens(id, FALSE)) = Len(PromptOf(id))
        /\ hs = DocChain(id) /\ AttemptHit(id) = LongestHit(DocChain(id), Len(PromptOf(id)))
    BY <1>2, <1>5, <2>1, DocTokens, DocFacts DEF Writes
  <2>3. Len(PromptOf(id)) \in Nat
    BY <1>5, DocFacts
  <2>h. \A i \in 1..f : AttemptHit(id)[i] = hs[i]
    <3>1. PICK k \in Nat : k = Len(PromptOf(id))
      BY <2>3
    <3>3. LongestHit(hs, k) = AttemptHit(id) /\ Len(LongestHit(hs, k)) = f
      BY <1>2, <1>3, <2>2, <3>1
    <3>2. \A i \in 1..f : LongestHit(hs, k)[i] = hs[i]
      BY <3>3, HitMatches
    <3> QED BY <3>2, <3>3
  <2>4. \A i \in 1..Len(t) : i <= f => blockHash'[t[i]] = hs[i]
    <3> SUFFICES ASSUME NEW i \in 1..Len(t), i <= f PROVE blockHash'[t[i]] = hs[i]
      OBVIOUS
    <3>1. blockHash'[t[i]] = blockHash[hits[i]] /\ i \in 1..f
      BY <1>4 DEF Same
    <3> QED BY <1>2, <2>h, <3>1
  <2>5. PICK toks \in Seq(Int) : toks = Tokens(id, m) /\ Len(toks) = Len(PromptOf(id))
    BY <2>2
  <2>6. Effect(id, m, ExtendHashes(hs, toks, u), hits, t, from, upto, f, u) /\ u = upto \div BlockSize
    BY <1>2, <2>5
  <2>7. upto <= Len(PromptOf(id))
    BY <1>3, <2>2
  <2>8. /\ ExtendHashes(hs, toks, u) = hs
        /\ \A i \in 1..Len(t) : i <= u => blockHash'[t[i]] = hs[i]
    <3>1. hs = DocChain(id) /\ IsDoc(id)
      BY <1>5, <2>2
    <3>2. Len(toks) = Len(PromptOf(id))
      BY <2>5
    <3>3. ExtendHashes(hs, toks, upto \div BlockSize) = hs
      BY <2>7, <3>1, <3>2, DocExtended
    <3>4. ExtendHashes(hs, toks, u) = hs
      BY <2>6, <3>3
    <3>5. Effect(id, m, hs, hits, t, from, upto, f, u)
      BY <2>6, <3>4
    <3>6. \A i \in 1..Len(t) : i <= u => blockHash'[t[i]] = hs[i]
      BY <2>4, <3>5, DocWritten, SMTT(30)
    <3> QED BY <3>4, <3>6
  <2>9. hashes'[id] = hs
    BY <1>0, <1>2, <2>5, <2>8
  <2> QED BY <2>2, <2>8, <2>9
<1>6. \A jd \in Range(running') : jd = id \/ jd \in Range(running)
  <2>1. PICK v \in Seq(Id) : v = <<id>> /\ Range(v) = {id}
    BY Singleton
  <2>2. Range(running \o v) = Range(running) \cup Range(v)
    <3>1. running \in Seq(Id) /\ v \in Seq(Id)
      BY <1>0, <2>1
    <3>2. PICK z : z = running \o v
      OBVIOUS
    <3>3. Joined(z, running, v)
      BY <3>2 DEF Joined
    <3>4. Range(z) = Range(running) \cup Range(v)
      BY <3>1, <3>3, RangeJoined
    <3> QED BY <3>2, <3>4
  <2>3. running' = running \o v
    BY <1>0, <1>3, <2>1
  <2> QED BY <2>1, <2>2, <2>3
<1>7. ASSUME NEW jd \in Id, IsDoc(jd)
      PROVE  /\ hashes'[jd] \in {<<>>, DocChain(jd)}
             /\ jd \in Range(running') => hashes'[jd] = DocChain(jd)
             /\ \A i \in 1..Len(table'[jd]) :
                   i <= DoneUpto(jd)' \div BlockSize => blockHash'[table'[jd][i]] = DocChain(jd)[i]
  <2>1. CASE jd = id
    BY <1>2, <1>5, <1>7, <2>1
  <2>2. CASE jd # id
    <3>1. hashes'[jd] = hashes[jd] /\ table'[jd] = table[jd] /\ DoneUpto(jd)' = DoneUpto(jd)
      BY <1>0, <1>2, <2>2
    <3>2. \A i \in 1..Len(table[jd]) : blockHash'[table[jd][i]] = blockHash[table[jd][i]]
      BY <1>4, <2>2 DEF Same
    <3> QED BY <1>6, <1>7, <2>2, <3>1, <3>2 DEF Registered
  <2> QED BY <2>1, <2>2
<1> QED BY <1>7 DEF Registered

LEMMA RegisteredStep ==
    ASSUME Shape, Shape', Places, Places', Counts, NotAskedTwice, Writes, Young, Registered, [Next]_vars
    PROVE  Registered'
<1>1. CASE ~RunningSchedule /\ ~AttemptSucceeds
  <2>1. UNCHANGED <<blockHash, content>> /\ \A id \in Id : Settled(id)
    BY <1>1, SettledAfter
  <2>2. ASSUME NEW id \in Id, IsDoc(id)
        PROVE  /\ hashes'[id] \in {<<>>, DocChain(id)}
               /\ id \in Range(running') => hashes'[id] = DocChain(id)
    <3>1. id \in Range(running') => id \in Range(running) /\ status'[id] = "RUNNING"
      BY <1>1, RunningAfter
    <3>2. CASE hashes'[id] = hashes[id]
      BY <2>2, <3>1, <3>2 DEF Registered
    <3>3. CASE hashes'[id] = <<>> /\ status'[id] = "FINISHED"
      BY <3>1, <3>3
    <3>4. CASE AtLookup(id) /\ hashes'[id] \in {HashesOf(id), AttemptHashes(id)}
      <4>1. InQueue(id)
        BY <3>4, WaitingHead DEF AtLookup, InWaitingLoop, InQueue
      <4> QED BY <2>2, <3>4, <4>1, DocTokens DEF Writes
    <3> QED BY <1>1, <3>2, <3>3, <3>4, HashesAfter DEF Writes
  <2>3. ASSUME NEW id \in Id, IsDoc(id), NEW i \in 1..Len(table'[id]), i <= DoneUpto(id)' \div BlockSize
        PROVE  blockHash'[table'[id][i]] = DocChain(id)[i]
    <3>1. table'[id] # <<>>
      <4> SUFFICES ASSUME table'[id] = <<>> PROVE FALSE
        OBVIOUS
      <4>1. Len(table'[id]) = 0
        OBVIOUS
      <4> QED BY <2>3, <4>1
    <3>2. table'[id] = table[id] /\ DoneUpto(id)' = DoneUpto(id)
      BY <2>1, <3>1 DEF Settled
    <3> QED BY <2>1, <2>3, <3>2 DEF Registered
  <2> QED BY <2>2, <2>3 DEF Registered
<1> QED BY <1>1, RegisteredRun, RegisteredAttempt
-----------------------------------------------------------------------------
(* A document request that waits is ahead of its parent.                       *)
AheadIn(s) == \A i, j \in 1..Len(s) : IsDoc(s[i]) /\ s[j] = User(s[i][1]) => i < j

LEMMA AheadEmpty == AheadIn(<<>>)
BY DEF AheadIn

LEMMA AheadConcat ==
    ASSUME NEW p \in Seq(Id), NEW q \in Seq(Id), AheadIn(p), AheadIn(q),
           \A id \in Range(q) : IsDoc(id) => User(id[1]) \notin Range(p)
    PROVE  AheadIn(p \o q)
<1>a. PICK n \in Nat : n = Len(p)
  OBVIOUS
<1>b. PICK k \in Nat : k = Len(q)
  OBVIOUS
<1>c. PICK s : s = p \o q
  OBVIOUS
<1>1. s = p \o q /\ n = Len(p) /\ k = Len(q)
  BY <1>a, <1>b, <1>c
<1>2. Len(s) = n + k /\ \A i \in 1..Len(s) : s[i] = IF i <= n THEN p[i] ELSE q[i - n]
  BY <1>1
<1>3. ASSUME NEW i \in 1..Len(s), NEW j \in 1..Len(s), IsDoc(s[i]), s[j] = User(s[i][1]) PROVE i < j
  <2>1. CASE i <= n /\ j <= n
    <3>1. s[i] = p[i] /\ s[j] = p[j] /\ i \in 1..Len(p) /\ j \in 1..Len(p)
      BY <1>1, <1>2, <2>1
    <3> QED BY <1>3, <3>1 DEF AheadIn
  <2>2. CASE i <= n /\ j > n
    BY <2>2
  <2>3. CASE i > n /\ j <= n
    <3>1. s[i] = q[i - n] /\ s[j] = p[j] /\ i - n \in 1..Len(q) /\ j \in 1..Len(p)
      BY <1>1, <1>2, <2>3
    <3>2. s[i] \in Range(q) /\ s[j] \in Range(p)
      BY <3>1, RangeHas
    <3> QED BY <1>3, <3>2
  <2>4. CASE i > n /\ j > n
    <3>1. s[i] = q[i - n] /\ s[j] = q[j - n] /\ i - n \in 1..Len(q) /\ j - n \in 1..Len(q)
      BY <1>1, <1>2, <2>4
    <3>2. PICK a \in 1..Len(q), b \in 1..Len(q) : a = i - n /\ b = j - n
      BY <3>1
    <3>3. a < b
      BY <1>3, <3>1, <3>2 DEF AheadIn
    <3> QED BY <3>2, <3>3
  <2> QED BY <2>1, <2>2, <2>3, <2>4
<1> QED BY <1>1, <1>3 DEF AheadIn

LEMMA AheadTail ==
    ASSUME NEW s \in Seq(Id), s # <<>>, AheadIn(s)
    PROVE  AheadIn(Tail(s))
<1>a. Tail(s) \in Seq(Id) /\ Len(Tail(s)) = Len(s) - 1
  BY TailParts
<1>1. PICK t \in Seq(Id) : t = Tail(s) /\ Len(t) = Len(s) - 1
  BY <1>a
<1>2. \A i \in 1..Len(t) : t[i] = s[i + 1] /\ i + 1 \in 1..Len(s)
  BY <1>1, TailParts
<1>3. ASSUME NEW i \in 1..Len(t), NEW j \in 1..Len(t), IsDoc(t[i]), t[j] = User(t[i][1]) PROVE i < j
  <2>1. PICK a \in 1..Len(s), b \in 1..Len(s) : a = i + 1 /\ b = j + 1
    BY <1>2
  <2>2. t[i] = s[a] /\ t[j] = s[b]
    BY <1>2, <2>1
  <2>3. a < b
    BY <1>3, <2>2 DEF AheadIn
  <2> QED BY <2>1, <2>3
<1> QED BY <1>1, <1>3 DEF AheadIn

LEMMA AheadOnly ==
    ASSUME NEW s \in Seq(Id), NEW S, AheadIn(s)
    PROVE  AheadIn(Only(s, S))
<1>1. Only(s, S) \in Seq(Id) /\ \E f : Picks(f, Only(s, S), s, S, Len(s))
  BY OnlyPicks
<1>a. PICK r \in Seq(Id) : r = Only(s, S)
  BY <1>1
<1>2. PICK f : r = Only(s, S) /\ Picks(f, r, s, S, Len(s))
  BY <1>1, <1>a
<1>3. /\ f \in [1..Len(r) -> 1..Len(s)]
      /\ \A k \in 1..Len(r) : r[k] = s[f[k]]
      /\ \A k, l \in 1..Len(r) : k < l => f[k] < f[l]
  BY <1>2 DEF Picks
<1>4. ASSUME NEW i \in 1..Len(r), NEW j \in 1..Len(r), IsDoc(r[i]), r[j] = User(r[i][1]) PROVE i < j
  <2>1. PICK a \in 1..Len(s), b \in 1..Len(s) : a = f[i] /\ b = f[j] /\ r[i] = s[a] /\ r[j] = s[b]
    BY <1>3
  <2>2. a < b
    BY <1>4, <2>1 DEF AheadIn
  <2>3. i # j
    BY <2>1, <2>2
  <2>4. ~ j < i
    <3> SUFFICES ASSUME j < i PROVE FALSE
      OBVIOUS
    <3>1. b < a
      BY <1>3, <2>1
    <3> QED BY <2>2, <3>1
  <2> QED BY <2>3, <2>4
<1> QED BY <1>2, <1>4 DEF AheadIn

LEMMA AheadUsers ==
    ASSUME NEW s \in Seq(Id), \A id \in Range(s) : ~IsDoc(id)
    PROVE  AheadIn(s)
<1>1. \A i \in 1..Len(s) : s[i] \in Range(s)
  BY RangeHas
<1> QED BY <1>1 DEF AheadIn

LEMMA AheadDocs ==
    ASSUME NEW s \in Seq(Id), \A id \in Range(s) : IsDoc(id)
    PROVE  AheadIn(s)
<1>1. \A i \in 1..Len(s) : s[i] \in Range(s)
  BY RangeHas
<1>2. \A id \in Id : ~IsDoc(User(id[1]))
  BY UserFacts, IdFacts
<1> QED BY <1>1, <1>2 DEF AheadIn
-----------------------------------------------------------------------------
(* As long as there is budget, the documents that were scheduled were          *)
(* scheduled whole.                                                            *)
DocDone(id) == DoneUpto(id) = Len(PromptOf(id))

Swift ==
    /\ pc = "waiting" /\ budget > 0 => \A id \in Range(running) : IsDoc(id) => DocDone(id)
    /\ pc = "running" /\ budget > 0 =>
          \A i \in 1..Len(running) : i < idx /\ IsDoc(running[i]) => DocDone(running[i])

(* A running document lacks tokens, or has been scheduled in this step.        *)
Lacks(id) == computed[id] < Len(PromptOf(id))
Hungry ==
    /\ \A id \in Range(running) : IsDoc(id) /\ scheduled[id] = 0 => Lacks(id)
    /\ pc = "update" => \A i \in 1..Len(running) : i < idx /\ IsDoc(running[i]) => Lacks(running[i])

(* What is scheduled of a document, when there is budget left, is all of it.   *)
LEMMA DocWhole ==
    ASSUME Shape, DocumentsUncut, NEW id \in Id, IsDoc(id),
           NEW from \in Nat, NEW upto \in Nat, NEW n \in Nat, n = Len(PromptOf(id)),
           upto - from < budget /\ (Threshold = 0 \/ n - from <= Threshold) => upto = n,
           budget - (upto - from) > 0
    PROVE  upto = n
<1>1. PICK r \in Request : r = id[1] /\ id[2] \in DOMAIN Docs[r]
  BY IdFacts
<1>2. PromptOf(id) = Docs[r][id[2]]
  BY <1>1 DEF PromptOf
<1>3. Threshold = 0 \/ n <= Threshold
  BY <1>1, <1>2 DEF DocumentsUncut
<1>4. budget \in Int /\ Threshold \in Nat
  BY SchedulerAssumption DEF Shape
<1> QED BY <1>3, <1>4

LEMMA SwiftRun ==
    ASSUME Shape, Shape', Places, Places', Counts, Writes, Young, Registered, Swift, Hungry,
           DocumentsUncut, RunningSchedule
    PROVE  Swift' /\ Hungry'
<1>1. PICK id \in Id, from \in Nat, upto \in Nat : Ran(id, from, upto)
  BY RunStep
<1>2. DoneUpto(id)' = upto /\ \A jd \in Id : jd # id => DoneUpto(jd)' = DoneUpto(jd)
  BY <1>1, WritesRun
<1>3. /\ running' = running /\ id \in Range(running) /\ pc' = pc /\ pc = "running" /\ computed' = computed
      /\ idx' = idx + 1 /\ idx \in 1..Len(running) /\ id = running[idx]
      /\ scheduled' = [scheduled EXCEPT ![id] = upto - from] /\ scheduled[id] = 0 /\ computed[id] = from
      /\ budget' = budget - (upto - from) /\ from <= upto
      /\ running \in Seq(Id) /\ Distinct(running) /\ scheduled \in [Id -> Int] /\ budget \in Int
      /\ Range(running) \subseteq Id
  BY <1>1, RangesInId DEF Ran, queueVars, reqVars, Shape, Places, Apart
<1>4. ASSUME IsDoc(id) PROVE (budget' > 0 => upto = Len(PromptOf(id))) /\ upto - from > 0
  <2>1. InQueue(id)
    BY <1>3 DEF InQueue
  <2>2. Total(id, merged[id], out[id]) = Len(PromptOf(id))
    BY <1>4, <2>1, DocTokens DEF Writes
  <2>3. PICK n \in Nat : n = Len(PromptOf(id))
    BY <1>4, DocFacts
  <2>4. /\ upto - from < budget /\ (Threshold = 0 \/ n - from <= Threshold) => upto = n
        /\ from < n => from < upto
    BY <1>1, <2>2, <2>3 DEF Ran
  <2>5. from < n
    BY <1>3, <1>4, <2>3 DEF Hungry, Lacks
  <2>6. budget - (upto - from) > 0 => upto = n
    BY <1>4, <2>3, <2>4, DocWhole
  <2> QED BY <1>3, <2>3, <2>4, <2>5, <2>6
<1>5. ASSUME budget' > 0, NEW i \in 1..Len(running), i < idx + 1, IsDoc(running[i])
      PROVE  DoneUpto(running[i])' = Len(PromptOf(running[i]))
  <2>1. CASE i = idx
    BY <1>2, <1>3, <1>4, <1>5, <2>1
  <2>2. CASE i # idx
    <3>1. running[i] # id /\ i < idx /\ running[i] \in Id
      BY <1>3, <1>5, <2>2 DEF Distinct
    <3>2. budget > 0
      BY <1>3, <1>5
    <3>3. DoneUpto(running[i]) = Len(PromptOf(running[i]))
      BY <1>3, <1>5, <3>1, <3>2 DEF Swift, DocDone
    <3>4. PICK jd \in Id : jd = running[i] /\ jd # id
      BY <3>1
    <3>5. DoneUpto(jd)' = DoneUpto(jd)
      BY <1>2, <3>4
    <3>6. running'[i] = jd
      BY <1>3, <3>4
    <3> QED BY <3>3, <3>4, <3>5, <3>6
  <2> QED BY <2>1, <2>2
<1>6. Swift'
  BY <1>3, <1>5 DEF Swift, DocDone
<1>7. ASSUME NEW jd \in Range(running), IsDoc(jd), scheduled'[jd] = 0 PROVE Lacks(jd)
  <2>1. jd # id
    <3> SUFFICES ASSUME jd = id PROVE FALSE
      OBVIOUS
    <3>1. scheduled'[id] = upto - from
      BY <1>3
    <3> QED BY <1>4, <1>7, <3>1
  <2>2. scheduled[jd] = 0
    BY <1>3, <1>7, <2>1
  <2> QED BY <1>7, <2>2 DEF Hungry
<1> QED BY <1>3, <1>6, <1>7 DEF Hungry, Lacks

LEMMA SwiftAttempt ==
    ASSUME Shape, Shape', Places, Places', Counts, Writes, Young, Registered, Swift, Hungry,
           DocumentsUncut, AttemptSucceeds
    PROVE  Swift' /\ Hungry'
<1>1. PICK id \in Id, hits \in Seq(Block), from \in Nat, upto \in Nat : Tried(id, hits, from, upto)
  BY AttemptStep
<1>2. DoneUpto(id)' = upto /\ \A jd \in Id : jd # id => DoneUpto(jd)' = DoneUpto(jd)
  BY <1>1, WritesAttempt
<1>3. /\ id \in Range(waiting) /\ id \notin Range(running) /\ pc' = pc /\ pc = "waiting"
      /\ computed' = [computed EXCEPT ![id] = from]
      /\ scheduled' = [scheduled EXCEPT ![id] = upto - from]
      /\ budget' = budget - (upto - from) /\ from <= upto
      /\ running \in Seq(Id) /\ scheduled \in [Id -> Int] /\ computed \in [Id -> Int] /\ budget \in Int
      /\ Range(running) \subseteq Id
  BY <1>1, RangesInId DEF Tried, Shape
<1>4. ASSUME IsDoc(id) PROVE (budget' > 0 => upto = Len(PromptOf(id))) /\ upto - from > 0
  <2>1. InQueue(id)
    BY <1>3 DEF InQueue
  <2>2. /\ Total(id, HasDocs(id), out[id]) = Len(PromptOf(id)) /\ NumTokens(id) = Len(PromptOf(id))
        /\ AttemptHit(id) = OwnHit(id)
    <3>1. /\ Total(id, merged[id], out[id]) = Len(PromptOf(id)) /\ NumTokens(id) = Len(PromptOf(id))
          /\ AttemptHit(id) = OwnHit(id) /\ merged[id] = FALSE
      BY <1>4, <2>1, DocTokens DEF Writes
    <3>2. HasDocs(id) = FALSE
      BY <1>4, DocFacts
    <3> QED BY <3>1, <3>2
  <2>3. PICK n \in Nat : n = Len(PromptOf(id))
    BY <1>4, DocFacts
  <2>4. /\ upto - from < budget /\ (Threshold = 0 \/ n - from <= Threshold) => upto = n
        /\ from < n => from < upto
        /\ upto <= n
    BY <1>1, <2>2, <2>3 DEF Tried
  <2>5. from # n
    <3>1. ~FullyCachedDoc(id) /\ from = AttemptFrom(id)
      BY <1>1 DEF Tried, Attempts
    <3>2. AttemptFrom(id) = Len(OwnHit(id)) * BlockSize
      BY <2>2 DEF AttemptFrom
    <3> QED BY <1>4, <2>2, <2>3, <3>1, <3>2 DEF FullyCachedDoc
  <2>6. budget - (upto - from) > 0 => upto = n
    BY <1>4, <2>3, <2>4, DocWhole
  <2>7. upto - from > 0
    BY <1>3, <2>4, <2>5
  <2> QED BY <1>3, <2>3, <2>6, <2>7
<1>5. Range(running') = Range(running) \cup {id}
  <2>1. PICK v \in Seq(Id) : v = <<id>> /\ Range(v) = {id}
    BY Singleton
  <2>2. Range(running \o v) = Range(running) \cup Range(v)
    <3>1. running \in Seq(Id) /\ v \in Seq(Id)
      BY <1>3, <2>1
    <3>2. PICK z : z = running \o v
      OBVIOUS
    <3>3. Joined(z, running, v)
      BY <3>2 DEF Joined
    <3>4. Range(z) = Range(running) \cup Range(v)
      BY <3>1, <3>3, RangeJoined
    <3> QED BY <3>2, <3>4
  <2>3. running' = running \o v
    BY <1>1, <1>3, <2>1, SMTT(30) DEF Tried
  <2> QED BY <2>1, <2>2, <2>3
<1>6. ASSUME budget' > 0, NEW jd \in Range(running'), IsDoc(jd)
      PROVE  DoneUpto(jd)' = Len(PromptOf(jd))
  <2>1. CASE jd = id
    BY <1>2, <1>4, <1>6, <2>1
  <2>2. CASE jd # id
    <3>1. jd \in Range(running) /\ jd \in Id /\ budget > 0
      BY <1>3, <1>5, <1>6, <2>2
    <3> QED BY <1>2, <1>3, <1>6, <2>2, <3>1 DEF Swift, DocDone
  <2> QED BY <2>1, <2>2
<1>7. Swift'
  BY <1>3, <1>6 DEF Swift, DocDone
<1>8. ASSUME NEW jd \in Range(running'), IsDoc(jd), scheduled'[jd] = 0 PROVE computed'[jd] < Len(PromptOf(jd))
  <2>1. jd # id
    <3> SUFFICES ASSUME jd = id PROVE FALSE
      OBVIOUS
    <3>1. scheduled'[id] = upto - from
      BY <1>3
    <3> QED BY <1>4, <1>8, <3>1
  <2>2. scheduled'[jd] = scheduled[jd] /\ computed'[jd] = computed[jd] /\ jd \in Range(running)
    BY <1>3, <1>5, <2>1
  <2> QED BY <1>8, <2>2 DEF Hungry, Lacks
<1> QED BY <1>3, <1>7, <1>8 DEF Hungry, Lacks
-----------------------------------------------------------------------------
LEMMA SwiftSame ==
    ASSUME Swift, Hungry, UNCHANGED <<running, computed, scheduled, pc, idx, budget>>
    PROVE  Swift' /\ Hungry'
BY DEF Swift, Hungry, Lacks, DocDone, DoneUpto

LEMMA SwiftTurns ==
    ASSUME Shape, Swift, Hungry, StartSchedule \/ EndRunning \/ AttemptFails
    PROVE  Swift' /\ Hungry'
<1>1. /\ UNCHANGED <<running, computed, scheduled>> /\ pc # "update" /\ pc' # "update"
      /\ Range(running) \subseteq Id /\ running \in Seq(Id)
  BY RangesInId DEF StartSchedule, EndRunning, AttemptFails, Attempts, AtLookup, InWaitingLoop, queueVars, reqVars
<1>2. Hungry'
  BY <1>1 DEF Hungry, Lacks
<1>3. CASE StartSchedule
  <2>1. pc' = "running" /\ idx' = 1
    BY <1>3 DEF StartSchedule
  <2> QED BY <1>2, <2>1 DEF Swift
<1>4. CASE AttemptFails
  BY <1>2, <1>4 DEF Swift, AttemptFails
<1>5. CASE EndRunning
  <2>1. /\ pc = "running" /\ pc' \in {"waiting", "finish"} /\ budget' = budget
        /\ budget > 0 => ~(idx <= Len(running))
    BY <1>5 DEF EndRunning, InRunningLoop
  <2>2. ASSUME budget > 0, NEW jd \in Range(running), IsDoc(jd) PROVE DoneUpto(jd) = Len(PromptOf(jd))
    <3>1. PICK i \in 1..Len(running) : running[i] = jd
      BY <1>1, RangeHas
    <3>2. i < idx
      BY <2>1, <2>2 DEF Shape
    <3> QED BY <2>1, <2>2, <3>1, <3>2 DEF Swift, DocDone
  <2>3. \A jd : DoneUpto(jd)' = DoneUpto(jd)
    BY <1>1 DEF DoneUpto
  <2> QED BY <1>1, <1>2, <2>1, <2>2, <2>3 DEF Swift, DocDone
<1> QED BY <1>3, <1>4, <1>5

LEMMA SwiftPreempt ==
    ASSUME Shape, Places, Swift, Hungry, RunningPreempt
    PROVE  Swift' /\ Hungry'
<1>1. PICK s \in Seq(Id), v \in Id, r \in Seq(Id) :
          s = running /\ r = Front(s) /\ v = Last(s) /\ s # <<>> /\ idx \in 1..Len(s)
  <2>1. running # <<>>
    BY DEF RunningPreempt, InRunningLoop, Shape
  <2>2. Front(running) \in Seq(Id) /\ Last(running) \in Id /\ running \in Seq(Id)
    BY <2>1, SeqParts DEF Shape
  <2>3. idx \in 1..Len(running)
    BY DEF RunningPreempt, InRunningLoop, Shape
  <2> QED BY <2>1, <2>2, <2>3
<1>2. /\ running' = r /\ computed' = [computed EXCEPT ![v] = 0] /\ pc = "running" /\ pc' \in {"running", "finish"}
      /\ UNCHANGED <<idx, budget, scheduled>> /\ computed \in [Id -> Int] /\ budget > 0
  BY <1>1 DEF RunningPreempt, InRunningLoop, Shape
<1>3. Distinct(s)
  BY <1>1 DEF Places, Apart
<1>4. /\ Len(r) = Len(s) - 1 /\ \A i \in 1..Len(s)-1 : r[i] = s[i]
      /\ Range(s) = {v} \cup Range(r) /\ v \notin Range(r)
  BY <1>1, <1>3, FrontParts
<1>5. \A jd \in Range(r) : jd \in Range(running) /\ jd \in Id /\ jd # v
  BY <1>1, <1>4, RangesInId
<1>6. \A jd \in Range(r) : computed'[jd] = computed[jd] /\ DoneUpto(jd)' = DoneUpto(jd)
  BY <1>2, <1>5 DEF DoneUpto
<1>7. Hungry'
  BY <1>2, <1>5, <1>6 DEF Hungry, Lacks
<1>8. ASSUME NEW i \in 1..Len(r), i < idx, IsDoc(r[i]) PROVE DoneUpto(r[i])' = Len(PromptOf(r[i]))
  <2>1. PICK jd : jd = r[i] /\ jd = running[i] /\ i \in 1..Len(running)
    BY <1>1, <1>4
  <2>2. jd \in Range(r)
    BY <1>1, <2>1, RangeHas
  <2>3. DoneUpto(jd) = Len(PromptOf(jd))
    BY <1>2, <1>8, <2>1 DEF Swift, DocDone
  <2>4. DoneUpto(jd)' = Len(PromptOf(jd))
    BY <1>6, <2>2, <2>3
  <2> QED BY <2>1, <2>4
<1> QED BY <1>2, <1>7, <1>8 DEF Swift, DocDone

LEMMA SwiftSpawn ==
    ASSUME Shape, Swift, Hungry, NotAskedTwice, SpawnDocuments
    PROVE  Swift' /\ Hungry'
<1>1. PICK id \in Id : id = Head(waiting) /\ InWaitingLoop /\ ~NeedsGrammar(id)
  <2>1. waiting # <<>>
    BY DEF SpawnDocuments, InWaitingLoop
  <2>2. Head(waiting) \in Id
    BY <2>1, WaitingHead
  <2> QED BY <2>2 DEF SpawnDocuments
<1>2. PICK S : S = {DocId(id, d) : d \in MissingDocs(id)} /\ computed' = [j \in Id |-> IF j \in S THEN 0 ELSE computed[j]]
  BY <1>1 DEF SpawnDocuments
<1>3. UNCHANGED <<running, scheduled, pc, idx, budget>> /\ pc = "waiting" /\ Range(running) \subseteq Id
  BY RangesInId DEF SpawnDocuments, InWaitingLoop, stepVars
<1>4. \A jd \in Range(running) : jd \notin S
  BY <1>1, <1>2 DEF NotAskedTwice
<1>5. \A jd \in Range(running) : computed'[jd] = computed[jd] /\ DoneUpto(jd)' = DoneUpto(jd)
  BY <1>2, <1>3, <1>4 DEF DoneUpto
<1> QED BY <1>3, <1>5 DEF Swift, Hungry, Lacks, DocDone

LEMMA SwiftFinishSchedule ==
    ASSUME Shape, Counts, Swift, Hungry, FinishSchedule
    PROVE  Swift' /\ Hungry'
<1>1. /\ UNCHANGED <<running, scheduled>> /\ pc' = "update" /\ idx' = 1
      /\ computed' = [id \in Id |-> computed[id] + scheduled[id]]
      /\ Range(running) \subseteq Id /\ computed \in [Id -> Int]
  BY RangesInId DEF FinishSchedule, Shape
<1>2. \A jd \in Range(running) : scheduled[jd] = 0 => computed'[jd] = computed[jd]
  BY <1>1
<1> QED BY <1>1, <1>2 DEF Swift, Hungry, Lacks

(* In the update, a document that is done samples its only token and is gone.  *)
LEMMA DocSamples ==
    ASSUME Shape, Counts, Writes, Young, Registered, NEW id \in Id, IsDoc(id), InQueue(id), pc = "update"
    PROVE  /\ Samples(id) <=> scheduled[id] > 0 /\ DocDone(id)
           /\ ~Samples(id) <=> scheduled[id] = 0 \/ Lacks(id)
           /\ ~(out[id] + 1 < MaxOut(id))
<1>1. /\ NumTokens(id) = Len(PromptOf(id)) /\ out[id] = 0
      /\ Total(id, merged[id], out[id]) = Len(PromptOf(id))
  BY DocTokens DEF Writes
<1>2. PICK n \in Nat : n = Len(PromptOf(id))
  BY DocFacts
<1>3. DoneUpto(id) = computed[id] /\ computed[id] <= n
  BY <1>1, <1>2 DEF Counts, Amounts, DoneUpto
<1>4. computed[id] \in Nat /\ scheduled[id] \in Nat
  BY CountTypes
<1> QED BY <1>1, <1>2, <1>3, <1>4 DEF Samples, DocDone, Lacks, MaxOut

LEMMA SwiftKeep ==
    ASSUME Shape, Counts, Writes, Young, Registered, Swift, Hungry, KeepRunning
    PROVE  Swift' /\ Hungry'
<1>1. /\ UNCHANGED <<running, computed, scheduled, pc, budget>> /\ pc = "update" /\ idx' = idx + 1
      /\ Range(running) \subseteq Id /\ idx \in 1..Len(running)
  <2>1. UNCHANGED <<running, computed, scheduled, pc, budget>> /\ pc = "update" /\ idx' = idx + 1
    BY DEF KeepRunning, queueVars
  <2>2. idx \in 1..Len(running)
    BY DEF KeepRunning, Shape
  <2> QED BY <2>1, <2>2, RangesInId
<1>2. PICK id \in Id : id = running[idx] /\ id \in Range(running)
  BY <1>1, RangeHas DEF Shape
<1>3. IsDoc(id) => Lacks(id)
  <2> SUFFICES ASSUME IsDoc(id) PROVE Lacks(id)
    OBVIOUS
  <2>1. InQueue(id)
    BY <1>2 DEF InQueue
  <2>2. ~Samples(id)
    BY <1>1, <1>2, <2>1, DocSamples DEF KeepRunning
  <2>3. scheduled[id] = 0 \/ Lacks(id)
    BY <1>1, <2>1, <2>2, DocSamples
  <2> QED BY <1>2, <2>3 DEF Hungry
<1>4. ASSUME NEW i \in 1..Len(running), i < idx + 1, IsDoc(running[i]) PROVE Lacks(running[i])
  <2>1. CASE i = idx
    BY <1>2, <1>3, <1>4, <2>1
  <2>2. CASE i # idx
    <3>1. i < idx
      BY <1>1, <1>4, <2>2
    <3> QED BY <1>1, <1>4, <3>1 DEF Hungry
  <2> QED BY <2>1, <2>2
<1> QED BY <1>1, <1>4 DEF Swift, Hungry, Lacks

LEMMA SwiftFinishRequest ==
    ASSUME Shape, Places, Swift, Hungry, FinishRequest
    PROVE  Swift' /\ Hungry'
<1>a. PICK s \in Seq(Id) : s = running
  BY DEF Shape
<1>b. PICK k \in 1..Len(s) : k = idx
  BY <1>a DEF FinishRequest, Shape
<1>1. s = running /\ k = idx
  BY <1>a, <1>b
<1>2. /\ running' = RemoveAt(s, k) /\ UNCHANGED <<computed, scheduled, pc, idx, budget>> /\ pc = "update"
      /\ Distinct(s)
  BY <1>1 DEF FinishRequest, stepVars, Places, Apart
<1>3. /\ Range(RemoveAt(s, k)) \subseteq Range(s) /\ Len(RemoveAt(s, k)) = Len(s) - 1
      /\ \A i \in 1..Len(s)-1 : i < k => RemoveAt(s, k)[i] = s[i]
  BY <1>2, RemovedDistinct
<1>4. \A i \in 1..Len(running') : i < idx => running'[i] = running[i] /\ i \in 1..Len(running)
  BY <1>1, <1>2, <1>3
<1>5. \A id \in Range(running') : id \in Range(running)
  BY <1>1, <1>2, <1>3
<1> QED BY <1>2, <1>4, <1>5 DEF Swift, Hungry, Lacks

LEMMA SwiftEnd ==
    ASSUME Shape, Swift, Hungry, EndUpdate
    PROVE  Swift' /\ Hungry'
<1>1. /\ UNCHANGED <<running, computed>> /\ pc' = "idle" /\ pc = "update" /\ ~(idx <= Len(running))
      /\ running \in Seq(Id)
  BY DEF EndUpdate, queueVars, reqVars, Shape
<1>2. ASSUME NEW jd \in Range(running), IsDoc(jd) PROVE Lacks(jd)
  <2>1. PICK i \in 1..Len(running) : running[i] = jd
    BY <1>1, RangeHas
  <2>2. i < idx
    BY <1>1 DEF Shape
  <2> QED BY <1>1, <1>2, <2>1, <2>2 DEF Hungry
<1> QED BY <1>1, <1>2 DEF Swift, Hungry, Lacks

LEMMA SwiftAbort ==
    ASSUME Shape, Swift, Hungry, NEW r \in Request, Abort(r)
    PROVE  Swift' /\ Hungry'
<1>1. UNCHANGED <<computed, scheduled, pc>> /\ pc = "idle" /\ running' = Only(running, Id \ {User(r)})
  BY DEF Abort, stepVars
<1>2. Range(running') \subseteq Range(running)
  BY <1>1, OnlyKeeps DEF Shape
<1> QED BY <1>1, <1>2 DEF Swift, Hungry, Lacks

LEMMA SwiftStep ==
    ASSUME Shape, Shape', Places, Places', Counts, Writes, Young, Registered, NotAskedTwice, Swift, Hungry,
           DocumentsUncut, [Next]_vars
    PROVE  Swift' /\ Hungry'
<1>1. CASE RunningSchedule
  BY <1>1, SwiftRun
<1>2. CASE AttemptSucceeds
  BY <1>2, SwiftAttempt
<1>3. CASE StartSchedule \/ EndRunning \/ AttemptFails
  BY <1>3, SwiftTurns
<1>4. CASE RunningPreempt
  BY <1>4, SwiftPreempt
<1>5. CASE SpawnDocuments
  BY <1>5, SwiftSpawn
<1>6. CASE FinishSchedule \/ EndUpdate
  BY <1>6, SwiftFinishSchedule, SwiftEnd
<1>7. CASE KeepRunning
  BY <1>7, SwiftKeep
<1>8. CASE FinishRequest
  BY <1>8, SwiftFinishRequest
<1>9. ASSUME NEW r \in Request, Abort(r)
      PROVE  Swift' /\ Hungry'
  BY <1>9, SwiftAbort
<1>10. ASSUME \/ \E r \in Request : AddRequest(r) \/ CompileGrammar(r)
              \/ SkipForGrammar \/ DropCachedDocument \/ UNCHANGED vars
       PROVE  Swift' /\ Hungry'
  <2>1. UNCHANGED <<running, computed, scheduled, pc, idx, budget>>
    BY <1>10 DEF AddRequest, CompileGrammar, SkipForGrammar, DropCachedDocument, vars, queueVars, reqVars, stepVars
  <2> QED BY <2>1, SwiftSame
<1> QED BY <1>1, <1>2, <1>3, <1>4, <1>5, <1>6, <1>7, <1>8, <1>9, <1>10 DEF Next, Schedule, Update, Quiescent

LEMMA SwiftInit == Init => Swift /\ Hungry
BY EmptyRange DEF Init, Swift, Hungry
-----------------------------------------------------------------------------
(* A document request whose parent runs has been scheduled whole in this step, *)
(* and will be gone when the step ends.                                        *)
Ahead == AheadIn(waiting)
Goes(id) ==
    /\ id \in Range(running) /\ DocDone(id) /\ scheduled[id] > 0
    /\ pc \in {"waiting", "finish", "update"}
    /\ pc = "update" => \A i \in 1..Len(running) : running[i] = id => i >= idx
Parted == \A id \in Id : IsDoc(id) /\ InQueue(id) /\ User(id[1]) \in Range(running) => Goes(id)

LEMMA AheadHead ==
    ASSUME Shape, Ahead, waiting # <<>>, NEW id \in Range(waiting), IsDoc(id)
    PROVE  User(id[1]) # Head(waiting)
<1>0. waiting \in Seq(Id)
  BY DEF Shape
<1>1. PICK i \in 1..Len(waiting) : waiting[i] = id
  BY <1>0, RangeHas
<1>2. Head(waiting) = waiting[1] /\ 1 \in 1..Len(waiting)
  BY <1>0
<1> QED BY <1>1, <1>2 DEF Ahead, AheadIn

(* A document that is done is found whole in the cache.                        *)
LEMMA DoneIsReady ==
    ASSUME Shape, Counts, Writes, Registered, NEW id \in Id, NEW d \in DOMAIN DocsOf(id),
           DocId(id, d) \in Range(running), DocDone(DocId(id, d))
    PROVE  IsDocReady(id, d)
<1>1. PICK x \in Id : /\ x = DocId(id, d) /\ IsDoc(x) /\ PromptOf(x) = DocsOf(id)[d]
                      /\ PromptOf(x) \in Seq(Int)
  BY DocsFacts
<1>2. PICK n \in Nat : n = Len(PromptOf(x))
  BY <1>1
<1>3. PICK hs \in Seq(Key) : hs = DocChain(x) /\ Len(hs) * BlockSize = n
  BY <1>1, <1>2, DocFacts
<1>4. PICK k \in Nat : k = Len(hs) /\ k * BlockSize = n
  BY <1>3
<1>5. n \div BlockSize = k /\ CeilDiv(n, BlockSize) = k
  <2>1. k * BlockSize <= n /\ n < k * BlockSize + BlockSize /\ n \in Int /\ k \in Int
    BY <1>4, SchedulerAssumption
  <2>2. n \div BlockSize = k
    BY <2>1, DivisionUnique
  <2>3. CeilDiv(k * BlockSize, BlockSize) = k
    BY CeilExact
  <2> QED BY <1>4, <2>2, <2>3
<1>6. DoneUpto(x) = n /\ x \in Range(running)
  BY <1>1, <1>2 DEF DocDone
<1>7. Len(table[x]) = k
  BY <1>5, <1>6 DEF Counts, Fills
<1>8. ASSUME NEW i \in 1..k PROVE Cached(hs[i])
  <2>1. i <= DoneUpto(x) \div BlockSize /\ i \in 1..Len(table[x])
    BY <1>5, <1>6, <1>7
  <2>2. blockHash[table[x][i]] = hs[i]
    BY <1>1, <1>3, <2>1 DEF Registered
  <2>3. table[x][i] \in Block
    BY <2>1 DEF Shape, FreeExact
  <2> QED BY <2>2, <2>3 DEF Cached
<1>9. PICK z \in Int : z = n /\ z >= 0
  OBVIOUS
<1>10. Len(LongestHit(hs, z)) = k
  <2>1. PICK l \in 0..Len(hs) :
            /\ Len(LongestHit(hs, z)) = l
            /\ (\A i \in 1..Len(hs) : i * BlockSize <= z => Cached(hs[i])) =>
                    l = Len(hs) \/ l = z \div BlockSize
    <3>1. z >= 0
      BY <1>9
    <3> QED BY <3>1, HitPrefix
  <2>2. \A i \in 1..Len(hs) : Cached(hs[i])
    BY <1>4, <1>8
  <2> QED BY <1>4, <1>5, <1>9, <2>1, <2>2
<1>11. hs = DocHashes(id)[d]
  BY <1>1, <1>3 DEF DocChain, DocHashes
<1> QED BY <1>1, <1>2, <1>4, <1>9, <1>10, <1>11 DEF IsDocReady

LEMMA AskedOnce ==
    ASSUME Shape, Counts, Writes, Registered, Swift, Ahead
    PROVE  NotAskedTwice
<1> SUFFICES ASSUME InWaitingLoop, NEW d \in MissingDocs(Head(waiting))
             PROVE  DocId(Head(waiting), d) \notin Range(waiting) \cup Range(running)
  BY DEF NotAskedTwice
<1>1. waiting # <<>> /\ pc = "waiting" /\ budget > 0
  BY DEF InWaitingLoop
<1>2. PICK id \in Id : id = Head(waiting)
  BY <1>1, WaitingHead
<1>3. PICK x \in Id : /\ x = DocId(id, d) /\ IsDoc(x) /\ x[1] = id[1] /\ id = User(x[1])
  BY <1>2, MissingHasTokens
<1>4. x \notin Range(waiting)
  BY <1>1, <1>2, <1>3, AheadHead
<1>5. x \notin Range(running)
  <2> SUFFICES ASSUME x \in Range(running) PROVE FALSE
    OBVIOUS
  <2>1. DocDone(x)
    BY <1>1, <1>3 DEF Swift
  <2>2. d \in DOMAIN DocsOf(id) /\ ~IsDocReady(id, d)
    BY <1>2 DEF MissingDocs
  <2> QED BY <1>3, <2>1, <2>2, DoneIsReady
<1> QED BY <1>2, <1>3, <1>4, <1>5

-----------------------------------------------------------------------------
LEMMA AheadSpawn ==
    ASSUME Shape, Ahead, SpawnDocuments
    PROVE  Ahead'
<1>1. PICK id \in Id : id = Head(waiting) /\ MissingDocs(id) # {}
                       /\ waiting' = LET missing == Only(Positions(DocsOf(id)), MissingDocs(id))
                                     IN  Enqueued([k \in 1..Len(missing) |-> DocId(id, missing[k])])
  <2>1. Head(waiting) \in Id
    BY WaitingHead DEF SpawnDocuments, InWaitingLoop
  <2> QED BY <2>1 DEF SpawnDocuments
<1>2. PICK reqs \in Seq(Id) : /\ Range(reqs) = {DocId(id, d) : d \in MissingDocs(id)}
                              /\ waiting' = Reverse(reqs) \o waiting
  BY <1>1, SpawnedFacts
<1>3. PICK p \in Seq(Id) : p = Reverse(reqs) /\ Range(p) = Range(reqs)
  BY ReverseFacts
<1>4. \A x \in Range(p) : IsDoc(x)
  BY <1>2, <1>3, MissingHasTokens
<1>5. AheadIn(p)
  BY <1>4, AheadDocs
<1>6. \A x \in Range(waiting) : User(x[1]) \notin Range(p)
  <2> SUFFICES ASSUME NEW x \in Range(waiting) PROVE ~IsDoc(User(x[1]))
    BY <1>4
  <2>1. x \in Id
    BY RangesInId
  <2> QED BY <2>1, IdFacts, UserFacts
<1>7. waiting \in Seq(Id) /\ AheadIn(waiting)
  BY DEF Shape, Ahead
<1>8. AheadIn(p \o waiting)
  BY <1>5, <1>6, <1>7, AheadConcat
<1> QED BY <1>2, <1>3, <1>8 DEF Ahead

LEMMA AheadAdd ==
    ASSUME Shape, Ahead, NEW r \in Request, AddRequest(r)
    PROVE  Ahead'
<1>1. PICK u \in Id : u = User(r) /\ ~IsDoc(u)
  BY UserFacts
<1>2. PICK q \in Seq(Id) : q = <<u>> /\ Range(q) = {u}
  BY Singleton
<1>3. waiting \in Seq(Id) /\ AheadIn(waiting)
  BY DEF Shape, Ahead
<1>4. AheadIn(q)
  BY <1>1, <1>2, AheadUsers
<1>5. \A x \in Range(q) : ~IsDoc(x)
  BY <1>1, <1>2
<1>6. AheadIn(waiting \o q)
  BY <1>3, <1>4, <1>5, AheadConcat
<1>7. waiting' = waiting \o q
  BY <1>1, <1>2, <1>3 DEF AddRequest
<1> QED BY <1>6, <1>7 DEF Ahead

LEMMA AheadPreempt ==
    ASSUME Shape, Ahead, Parted, RunningPreempt
    PROVE  Ahead'
<1>1. PICK v \in Id : v = Last(running) /\ waiting' = <<v>> \o waiting /\ v \in Range(running)
  <2>1. running # <<>> /\ running \in Seq(Id)
    BY DEF RunningPreempt, InRunningLoop, Shape
  <2>2. Last(running) \in Id /\ Last(running) \in Range(running)
    BY <2>1, SeqParts, RangeParts
  <2> QED BY <2>2 DEF RunningPreempt
<1>2. PICK p \in Seq(Id) : p = <<v>> /\ Range(p) = {v}
  BY Singleton
<1>3. waiting \in Seq(Id) /\ AheadIn(waiting)
  BY DEF Shape, Ahead
<1>4. AheadIn(p)
  BY <1>2, AheadUsers, AheadDocs
<1>5. \A x \in Range(waiting) : IsDoc(x) => User(x[1]) \notin Range(p)
  <2> SUFFICES ASSUME NEW x \in Range(waiting), IsDoc(x), User(x[1]) = v PROVE FALSE
    BY <1>2
  <2>1. x \in Id /\ InQueue(x)
    BY RangesInId DEF InQueue
  <2>2. pc = "running"
    BY DEF RunningPreempt, InRunningLoop
  <2> QED BY <1>1, <2>1, <2>2 DEF Parted, Goes
<1>6. AheadIn(p \o waiting)
  BY <1>2, <1>3, <1>4, <1>5, AheadConcat
<1> QED BY <1>1, <1>2, <1>6 DEF Ahead

LEMMA AheadFinishSchedule ==
    ASSUME Shape, Places, Ahead, DocumentsUnguided, FinishSchedule
    PROVE  Ahead'
<1>1. waiting' = skipped \o waiting /\ waiting \in Seq(Id) /\ skipped \in Seq(Id) /\ AheadIn(waiting)
  BY DEF FinishSchedule, PutBack, Shape, Ahead
<1>2. \A x \in Range(skipped) : ~IsDoc(x) /\ x[1] \in Guided
  BY DEF Places
<1>3. AheadIn(skipped)
  BY <1>1, <1>2, AheadUsers
<1>4. \A x \in Range(waiting) : IsDoc(x) => User(x[1]) \notin Range(skipped)
  <2> SUFFICES ASSUME NEW x \in Range(waiting), IsDoc(x), User(x[1]) \in Range(skipped) PROVE FALSE
    OBVIOUS
  <2>1. x \in Id
    BY RangesInId
  <2>2. PICK r \in Request : r = x[1] /\ x[2] \in DOMAIN Docs[r]
    BY <2>1, IdFacts
  <2>3. r \in Guided
    BY <1>2, <2>2, UserFacts
  <2>4. Docs[r] = <<>>
    BY <2>3 DEF DocumentsUnguided
  <2> QED BY <2>2, <2>4
<1>5. AheadIn(skipped \o waiting)
  BY <1>1, <1>3, <1>4, AheadConcat
<1> QED BY <1>1, <1>5 DEF Ahead

LEMMA AheadStep ==
    ASSUME Shape, Places, Ahead, Parted, DocumentsUnguided, [Next]_vars
    PROVE  Ahead'
<1>1. ASSUME NEW r \in Request, AddRequest(r) PROVE Ahead'
  BY <1>1, AheadAdd
<1>2. ASSUME NEW r \in Request, Abort(r) PROVE Ahead'
  <2>1. waiting' = Only(waiting, Id \ {User(r)}) /\ waiting \in Seq(Id)
    BY <1>2 DEF Abort, Shape
  <2> QED BY <2>1, AheadOnly DEF Ahead
<1>3. CASE SkipForGrammar \/ DropCachedDocument \/ AttemptSucceeds
  <2>1. waiting' = Tail(waiting) /\ waiting # <<>> /\ waiting \in Seq(Id)
    BY <1>3 DEF SkipForGrammar, DropCachedDocument, AttemptSucceeds, Attempts, AtLookup, InWaitingLoop, Shape
  <2> QED BY <2>1, AheadTail DEF Ahead
<1>4. CASE SpawnDocuments
  BY <1>4, AheadSpawn
<1>5. CASE RunningPreempt
  BY <1>5, AheadPreempt
<1>6. CASE FinishSchedule
  BY <1>6, AheadFinishSchedule
<1>7. ASSUME \/ \E r \in Request : CompileGrammar(r)
             \/ StartSchedule \/ RunningSchedule \/ EndRunning \/ AttemptFails
             \/ KeepRunning \/ FinishRequest \/ EndUpdate \/ UNCHANGED vars
      PROVE  waiting' = waiting
  BY <1>7 DEF CompileGrammar, StartSchedule, RunningSchedule, EndRunning, AttemptFails, KeepRunning,
     FinishRequest, EndUpdate, vars, queueVars
<1>8. waiting' = waiting => Ahead'
  BY DEF Ahead
<1> QED BY <1>1, <1>2, <1>3, <1>4, <1>5, <1>6, <1>7, <1>8 DEF Next, Schedule, Update, Quiescent
-----------------------------------------------------------------------------
LEMMA PartedBefore ==
    ASSUME Shape, Places, Parted, [Next]_vars, ~SpawnDocuments,
           pc \notin {"waiting", "finish", "update"}, Range(running') \subseteq Range(running)
    PROVE  Parted'
<1> SUFFICES ASSUME NEW id \in Id, IsDoc(id), InQueue(id)', User(id[1]) \in Range(running') PROVE FALSE
  BY DEF Parted
<1>1. InQueue(id)
  BY DocsQueued DEF Spawned
<1> QED BY <1>1 DEF Parted, Goes

LEMMA PartedSame ==
    ASSUME Shape, Places, Parted, [Next]_vars, ~SpawnDocuments,
           UNCHANGED <<running, computed, scheduled>>,
           UNCHANGED <<pc, idx>> \/ (pc = "waiting" /\ pc' = "finish")
    PROVE  Parted'
<1> SUFFICES ASSUME NEW id \in Id, IsDoc(id), InQueue(id)', User(id[1]) \in Range(running') PROVE Goes(id)'
  BY DEF Parted
<1>1. InQueue(id)
  BY DocsQueued DEF Spawned
<1>2. Goes(id)
  BY <1>1 DEF Parted
<1>3. DoneUpto(id)' = DoneUpto(id)
  BY DEF DoneUpto
<1> QED BY <1>2, <1>3 DEF Goes, DocDone

LEMMA PartedSpawn ==
    ASSUME Shape, Places, Parted, NotAskedTwice, [Next]_vars, SpawnDocuments
    PROVE  Parted'
<1>1. PICK h \in Id : h = Head(waiting) /\ InWaitingLoop /\ ~NeedsGrammar(h) /\ h \in Range(waiting)
  <2>1. waiting # <<>>
    BY DEF SpawnDocuments, InWaitingLoop
  <2>2. Head(waiting) \in Id /\ Head(waiting) \in Range(waiting)
    BY <2>1, WaitingHead
  <2> QED BY <2>2 DEF SpawnDocuments
<1>2. PICK S : S = {DocId(h, d) : d \in MissingDocs(h)} /\ computed' = [j \in Id |-> IF j \in S THEN 0 ELSE computed[j]]
  BY <1>1 DEF SpawnDocuments
<1>3. UNCHANGED <<running, scheduled, pc, idx, budget>> /\ pc = "waiting" /\ Range(running) \subseteq Id
  BY RangesInId DEF SpawnDocuments, InWaitingLoop, stepVars
<1>4. \A jd \in Range(running) : jd \notin S
  BY <1>1, <1>2 DEF NotAskedTwice
<1>5. \A jd \in Range(running) : DoneUpto(jd)' = DoneUpto(jd)
  BY <1>2, <1>3, <1>4 DEF DoneUpto
<1>6. ASSUME NEW id \in Id, IsDoc(id), InQueue(id)', User(id[1]) \in Range(running) PROVE Goes(id)'
  <2>1. CASE InQueue(id)
    <3>1. Goes(id)
      BY <1>6, <2>1 DEF Parted
    <3> QED BY <1>3, <1>5, <3>1 DEF Goes, DocDone
  <2>2. CASE ~InQueue(id)
    <3>1. PICK d \in MissingDocs(h) : id = DocId(h, d)
      BY <1>1, <1>6, <2>2, DocsQueued DEF Spawned
    <3>2. User(id[1]) = h
      BY <3>1, MissingHasTokens
    <3> QED BY <1>1, <1>6, <3>2 DEF Places, Apart
  <2> QED BY <2>1, <2>2
<1> QED BY <1>3, <1>6 DEF Parted

LEMMA PartedAttempt ==
    ASSUME Shape, Shape', Places, Counts, Writes, Swift, Hungry, Ahead, Parted,
           [Next]_vars, ~SpawnDocuments, AttemptSucceeds
    PROVE  Parted'
<1>1. PICK id \in Id, hits \in Seq(Block), from \in Nat, upto \in Nat : Tried(id, hits, from, upto)
  BY AttemptStep
<1>2. \A jd \in Id : jd # id => DoneUpto(jd)' = DoneUpto(jd)
  BY <1>1, WritesAttempt
<1>3. /\ id \in Range(waiting) /\ id \notin Range(running) /\ pc' = pc /\ pc = "waiting" /\ budget > 0
      /\ id = Head(waiting) /\ waiting # <<>>
      /\ scheduled' = [scheduled EXCEPT ![id] = upto - from]
      /\ running \in Seq(Id) /\ scheduled \in [Id -> Nat]
  BY <1>1, CountTypes DEF Tried, Shape
<1>5. Range(running') = Range(running) \cup {id}
  <2>1. PICK v \in Seq(Id) : v = <<id>> /\ Range(v) = {id}
    BY Singleton
  <2>2. Range(running \o v) = Range(running) \cup Range(v)
    <3>1. running \in Seq(Id) /\ v \in Seq(Id)
      BY <1>3, <2>1
    <3>2. PICK z : z = running \o v
      OBVIOUS
    <3>3. Joined(z, running, v)
      BY <3>2 DEF Joined
    <3>4. Range(z) = Range(running) \cup Range(v)
      BY <3>1, <3>3, RangeJoined
    <3> QED BY <3>2, <3>4
  <2>a. running' = Append(running, id)
    BY <1>1 DEF Tried
  <2>b. running \in Seq(Id)
    BY <1>3
  <2>3. running' = running \o v
    BY <2>1, <2>a, <2>b, Appended
  <2> QED BY <2>1, <2>2, <2>3
<1>6. ASSUME NEW jd \in Id, IsDoc(jd), InQueue(jd)', User(jd[1]) \in Range(running')
      PROVE  jd \in Range(running) /\ DocDone(jd) /\ scheduled[jd] > 0
  <2>1. InQueue(jd)
    BY <1>6, DocsQueued DEF Spawned
  <2>2. CASE User(jd[1]) \in Range(running)
    BY <1>6, <2>1, <2>2 DEF Parted, Goes
  <2>3. CASE User(jd[1]) = id
    <3>1. jd \in Range(running)
      BY <1>3, <1>6, <2>1, <2>3, AheadHead DEF InQueue
    <3>2. DocDone(jd)
      BY <1>3, <1>6, <3>1 DEF Swift
    <3>3. scheduled[jd] # 0
      <4> SUFFICES ASSUME scheduled[jd] = 0 PROVE FALSE
        OBVIOUS
      <4>1. Lacks(jd)
        BY <1>6, <3>1 DEF Hungry
      <4>2. PICK n \in Nat, c \in Nat : n = Len(PromptOf(jd)) /\ c = computed[jd]
        BY <1>6, DocFacts, CountTypes
      <4>3. DoneUpto(jd) = c
        BY <1>3, <4>2 DEF DoneUpto
      <4> QED BY <3>2, <4>1, <4>2, <4>3 DEF DocDone, Lacks
    <3>4. scheduled[jd] > 0
      BY <1>3, <3>3
    <3> QED BY <3>1, <3>2, <3>4
  <2> QED BY <1>5, <1>6, <2>2, <2>3
<1>7. ASSUME NEW jd \in Id, IsDoc(jd), InQueue(jd)', User(jd[1]) \in Range(running') PROVE Goes(jd)'
  <2>1. jd \in Range(running) /\ DocDone(jd) /\ scheduled[jd] > 0
    BY <1>6, <1>7
  <2>2. jd # id
    BY <1>3, <2>1
  <2>3. scheduled'[jd] = scheduled[jd] /\ DoneUpto(jd)' = DoneUpto(jd)
    BY <1>2, <1>3, <2>2
  <2> QED BY <1>3, <1>5, <2>1, <2>3 DEF Goes, DocDone
<1> QED BY <1>7 DEF Parted

LEMMA PartedFinishSchedule ==
    ASSUME Shape, Places, Parted, [Next]_vars, ~SpawnDocuments, FinishSchedule
    PROVE  Parted'
<1>1. /\ UNCHANGED <<running, scheduled>> /\ pc' = "update" /\ idx' = 1 /\ pc # "update"
      /\ computed' = [id \in Id |-> computed[id] + scheduled[id]]
  BY DEF FinishSchedule
<1>2. ASSUME NEW id \in Id, IsDoc(id), InQueue(id)', User(id[1]) \in Range(running) PROVE Goes(id)'
  <2>1. InQueue(id)
    BY <1>2, DocsQueued DEF Spawned
  <2>2. Goes(id)
    BY <1>2, <2>1 DEF Parted
  <2>3. DoneUpto(id)' = DoneUpto(id)
    BY <1>1 DEF DoneUpto
  <2> QED BY <1>1, <2>2, <2>3 DEF Goes, DocDone
<1> QED BY <1>1, <1>2 DEF Parted

LEMMA PartedKeep ==
    ASSUME Shape, Places, Counts, Writes, Young, Registered, Parted, [Next]_vars, ~SpawnDocuments, KeepRunning
    PROVE  Parted'
<1>1. UNCHANGED <<running, computed, scheduled, pc>> /\ pc = "update" /\ idx' = idx + 1
  BY DEF KeepRunning, queueVars
<1>2. ASSUME NEW id \in Id, IsDoc(id), InQueue(id)', User(id[1]) \in Range(running) PROVE Goes(id)'
  <2>1. InQueue(id)
    BY <1>2, DocsQueued DEF Spawned
  <2>2. Goes(id)
    BY <1>2, <2>1 DEF Parted
  <2>3. running[idx] # id
    <3> SUFFICES ASSUME running[idx] = id PROVE FALSE
      OBVIOUS
    <3>1. Samples(id)
      BY <1>1, <1>2, <2>1, <2>2, DocSamples DEF Goes
    <3>2. ~(out[id] + 1 < MaxOut(id))
      BY <1>1, <1>2, <2>1, DocSamples
    <3> QED BY <3>1, <3>2 DEF KeepRunning
  <2>4. DoneUpto(id)' = DoneUpto(id)
    BY <1>1 DEF DoneUpto
  <2>5. ASSUME NEW i \in 1..Len(running), running[i] = id PROVE i >= idx + 1
    <3>1. i >= idx /\ i # idx /\ idx \in Nat
      BY <1>1, <2>2, <2>3, <2>5 DEF Goes, Shape
    <3> QED BY <3>1
  <2> QED BY <1>1, <2>2, <2>4, <2>5 DEF Goes, DocDone
<1> QED BY <1>1, <1>2 DEF Parted

LEMMA PartedFinishRequest ==
    ASSUME Shape, Places, Parted, [Next]_vars, ~SpawnDocuments, FinishRequest
    PROVE  Parted'
<1>a. PICK s \in Seq(Id) : s = running
  BY DEF Shape
<1>b. PICK k \in 1..Len(s) : k = idx
  BY <1>a DEF FinishRequest, Shape
<1>1. s = running /\ k = idx
  BY <1>a, <1>b
<1>2. /\ running' = RemoveAt(s, k) /\ UNCHANGED <<waiting, computed, scheduled, pc, idx>> /\ pc = "update"
      /\ Distinct(s)
  BY <1>1 DEF FinishRequest, stepVars, Places, Apart
<1>3. /\ Range(RemoveAt(s, k)) = Range(s) \ {s[k]} /\ Len(RemoveAt(s, k)) = Len(s) - 1
      /\ \A i \in 1..Len(s)-1 : i < k => RemoveAt(s, k)[i] = s[i]
  BY <1>2, RemovedDistinct
<1>4. ASSUME NEW id \in Id, IsDoc(id), InQueue(id)', User(id[1]) \in Range(running') PROVE Goes(id)'
  <2>1. InQueue(id)
    BY <1>4, DocsQueued DEF Spawned
  <2>2. Goes(id)
    BY <1>1, <1>2, <1>3, <1>4, <2>1 DEF Parted
  <2>3. id \in Range(running')
    <3>1. id \notin Range(waiting)
      BY <2>2 DEF Goes, Places, Apart
    <3> QED BY <1>2, <1>4, <3>1 DEF InQueue
  <2>4. DoneUpto(id)' = DoneUpto(id)
    BY <1>2 DEF DoneUpto
  <2>5. ASSUME NEW i \in 1..Len(running'), running'[i] = id PROVE i >= idx
    <3> SUFFICES ASSUME i < idx PROVE FALSE
      BY <1>1
    <3>1. i \in 1..Len(running) /\ running[i] = id
      BY <1>1, <1>2, <1>3, <2>5
    <3>2. i >= k
      BY <1>1, <1>2, <2>2, <3>1 DEF Goes
    <3> QED BY <1>1, <3>2
  <2> QED BY <1>2, <2>2, <2>3, <2>4, <2>5 DEF Goes, DocDone
<1> QED BY <1>4 DEF Parted

LEMMA PartedEnd ==
    ASSUME Shape, Places, Parted, [Next]_vars, ~SpawnDocuments, EndUpdate
    PROVE  Parted'
<1>1. UNCHANGED running /\ pc = "update" /\ ~(idx <= Len(running)) /\ running \in Seq(Id)
  BY DEF EndUpdate, queueVars, Shape
<1>2. ASSUME NEW id \in Id, IsDoc(id), InQueue(id)', User(id[1]) \in Range(running) PROVE FALSE
  <2>1. InQueue(id)
    BY <1>2, DocsQueued DEF Spawned
  <2>2. Goes(id)
    BY <1>2, <2>1 DEF Parted
  <2>3. PICK i \in 1..Len(running) : running[i] = id
    BY <1>1, <2>2, RangeHas DEF Goes
  <2>4. i >= idx /\ idx \in Nat
    BY <1>1, <2>2, <2>3 DEF Goes, Shape
  <2> QED BY <1>1, <2>4
<1> QED BY <1>1, <1>2 DEF Parted

LEMMA PartedStep ==
    ASSUME Shape, Shape', Places, Counts, Writes, Young, Registered, Swift, Hungry, NotAskedTwice,
           Ahead, Parted, [Next]_vars
    PROVE  Parted'
<1>1. CASE SpawnDocuments
  BY <1>1, PartedSpawn
<1> SUFFICES ASSUME ~SpawnDocuments PROVE Parted'
  BY <1>1
<1>2. CASE AttemptSucceeds
  BY <1>2, PartedAttempt
<1>3. CASE FinishSchedule
  BY <1>3, PartedFinishSchedule
<1>4. CASE KeepRunning
  BY <1>4, PartedKeep
<1>5. CASE FinishRequest
  BY <1>5, PartedFinishRequest
<1>6. CASE EndUpdate
  BY <1>6, PartedEnd
<1>7. CASE RunningPreempt
  <2>1. pc = "running" /\ running' = Front(running) /\ running # <<>> /\ running \in Seq(Id)
    BY <1>7 DEF RunningPreempt, InRunningLoop, Shape
  <2>2. Range(Front(running)) \subseteq Range(running)
    BY <2>1, RangeParts
  <2> QED BY <2>1, <2>2, PartedBefore
<1>8. ASSUME NEW r \in Request, Abort(r) PROVE Parted'
  <2>1. pc = "idle" /\ running' = Only(running, Id \ {User(r)}) /\ running \in Seq(Id)
    BY <1>8 DEF Abort, Shape
  <2>2. Range(running') \subseteq Range(running)
    BY <2>1, OnlyKeeps
  <2> QED BY <2>1, <2>2, PartedBefore
<1>9. ASSUME \/ \E r \in Request : AddRequest(r)
             \/ StartSchedule \/ RunningSchedule \/ EndRunning
      PROVE  Parted'
  <2>1. pc \in {"idle", "running"} /\ running' = running
    BY <1>9 DEF AddRequest, StartSchedule, RunningSchedule, EndRunning, InRunningLoop, queueVars
  <2> QED BY <2>1, PartedBefore
<1>10. ASSUME \/ \E r \in Request : CompileGrammar(r)
              \/ SkipForGrammar \/ DropCachedDocument \/ AttemptFails \/ UNCHANGED vars
       PROVE  Parted'
  <2>1. /\ UNCHANGED <<running, computed, scheduled>>
        /\ UNCHANGED <<pc, idx>> \/ (pc = "waiting" /\ pc' = "finish")
    BY <1>10 DEF CompileGrammar, SkipForGrammar, DropCachedDocument, AttemptFails, Attempts, AtLookup,
       InWaitingLoop, vars, queueVars, reqVars, stepVars
  <2> QED BY <2>1, PartedSame
<1> QED BY <1>2, <1>3, <1>4, <1>5, <1>6, <1>7, <1>8, <1>9, <1>10 DEF Next, Schedule, Update, Quiescent

-----------------------------------------------------------------------------
(* All of it.  The two conditions on the requests are the ones under which      *)
(* documents work at all: none is guided, and each fits a chunk.               *)
Cores == Shape /\ Places /\ Counts /\ Writes /\ Young /\ Registered
Orders == Swift /\ Hungry /\ Ahead /\ Parted

LEMMA CoresInit == Init => Cores /\ Orders
<1> SUFFICES ASSUME Init PROVE Cores /\ Orders
  OBVIOUS
<1>1. Shape /\ Places /\ Counts /\ Writes /\ Young /\ Registered /\ Swift /\ Hungry
  BY ShapeInit, PlacesInit, CountsInit, WritesInit, YoungInit, RegisteredInit, SwiftInit
<1>2. waiting = <<>> /\ running = <<>>
  BY DEF Init
<1>3. Ahead
  BY <1>2, AheadEmpty DEF Ahead
<1>4. Parted
  BY <1>2, EmptyRange DEF Parted
<1> QED BY <1>1, <1>3, <1>4 DEF Cores, Orders

LEMMA CoresStep ==
    ASSUME DocumentsUnguided, DocumentsUncut, Cores, Orders, [Next]_vars
    PROVE  Cores' /\ Orders'
<1>1. Shape /\ Places /\ Counts /\ Writes /\ Young /\ Registered /\ Swift /\ Hungry /\ Ahead /\ Parted
  BY DEF Cores, Orders
<1>2. NotAskedTwice
  BY <1>1, AskedOnce
<1>3. Shape'
  BY <1>1, ShapeStep
<1>4. Places'
  BY <1>1, <1>2, PlacesStep
<1>5. Counts'
  BY <1>1, <1>2, <1>3, CountsStep
<1>6. Writes' /\ Young'
  BY <1>1, <1>2, <1>3, WritesStep, YoungStep
<1>7. Registered'
  BY <1>1, <1>2, <1>3, <1>4, RegisteredStep
<1>8. Swift' /\ Hungry'
  BY <1>1, <1>2, <1>3, <1>4, SwiftStep
<1>9. Ahead'
  BY <1>1, AheadStep
<1>10. Parted'
  BY <1>1, <1>2, <1>3, PartedStep
<1> QED BY <1>3, <1>4, <1>5, <1>6, <1>7, <1>8, <1>9, <1>10 DEF Cores, Orders

(* The induction behind the next three: places, amounts, blocks and order.      *)
THEOREM CoresAlways ==
    ASSUME DocumentsUnguided, DocumentsUncut
    PROVE  Spec => [](Cores /\ Orders)
<1>1. Cores /\ Orders /\ [Next]_vars => (Cores /\ Orders)'
  BY CoresStep
<1> QED BY <1>1, CoresInit, PTL DEF Spec

LEMMA QueuedOnce ==
    ASSUME Shape, Apart
    PROVE  Distinct(Queued) /\ Queued \in Seq(Id)
<1>1. PICK p \in Seq(Id) : p = waiting \o skipped
  <2>1. waiting \in Seq(Id) /\ skipped \in Seq(Id)
    BY DEF Shape
  <2>2. waiting \o skipped \in Seq(Id)
    BY <2>1, ConcatFacts
  <2> QED BY <2>2
<1>2. Distinct(p) /\ Range(p) = Range(waiting) \cup Range(skipped)
  <2>1. waiting \in Seq(Id) /\ skipped \in Seq(Id)
    BY DEF Shape
  <2>2. Distinct(waiting) /\ Distinct(skipped) /\ Range(waiting) \cap Range(skipped) = {}
    BY DEF Apart
  <2> QED BY <1>1, <2>1, <2>2, ConcatFacts
<1>3. running \in Seq(Id)
  BY DEF Shape
<1>4. Range(p) \cap Range(running) = {} /\ Distinct(running)
  BY <1>2 DEF Apart
<1>5. Distinct(p \o running) /\ p \o running \in Seq(Id)
  BY <1>2, <1>3, <1>4, ConcatFacts
<1>6. Queued = p \o running
  BY <1>1 DEF Queued
<1> QED BY <1>5, <1>6

LEMMA LiveOnceHolds == Cores => LiveOnce
<1> SUFFICES ASSUME Cores PROVE LiveOnce
  OBVIOUS
<1>1. Shape /\ Places /\ Apart
  BY DEF Cores, Places
<1>2. Distinct(Queued) /\ Queued \in Seq(Id)
  BY <1>1, QueuedOnce
<1>3. Cardinality(Range(Queued)) = Len(Queued)
  BY <1>2, DistinctCount
<1>4. \A id \in Id : /\ status[id] = "RUNNING" <=> id \in Range(running)
                     /\ table[id] # <<>> => id \in Range(running)
  BY <1>1 DEF Places
<1>5. \A id \in Id : (status[id] = "RUNNING") = (id \in Range(running))
  BY <1>4
<1> QED BY <1>3, <1>4, <1>5 DEF LiveOnce

(* A request is in one queue, once, and only running requests hold blocks,      *)
(* as long as no request with documents is guided and every document fits a     *)
(* chunk: then no document is requested while a request for it is queued.       *)
THEOREM SchedulerLiveOnce ==
    ASSUME DocumentsUnguided, DocumentsUncut
    PROVE  Spec => []LiveOnce
BY CoresAlways, LiveOnceHolds, PTL

(* schedule() reaches a document request before the request it was spawned for. *)
THEOREM SchedulerOrdersDocuments ==
    ASSUME DocumentsUnguided, DocumentsUncut
    PROVE  Spec => []DocumentsAheadOfParent
<1>1. Cores /\ Orders => DocumentsAheadOfParent
  BY DEF Orders, Ahead, AheadIn, DocumentsAheadOfParent
<1> QED BY <1>1, CoresAlways, PTL

(* scheduler.py:346-347: a document that is fully scheduled counts as ready, so  *)
(* that no document is requested while a request for it is queued.  The two      *)
(* conditions are what the comment takes for granted.                           *)
THEOREM SchedulerSpawnsOnce ==
    ASSUME DocumentsUnguided, DocumentsUncut
    PROVE  Spec => []DocumentSpawnedOnce
<1>1. Cores => DocumentSpawnedOnce
  BY QueuedOnce DEF Cores, Places, Distinct, DocumentSpawnedOnce
<1> QED BY <1>1, CoresAlways, PTL
=============================================================================
