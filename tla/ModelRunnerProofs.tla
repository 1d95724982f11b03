------------------------- MODULE ModelRunnerProofs -------------------------
(* What the kernels read, for any requests, rows, blocks and metadata.        *)
EXTENDS ModelRunner, TLAPS

(* What the runner knows of the requests of the scheduler: the metadata it    *)
(* attached is the one they have, and the rows are those of running ones.     *)
Known ==
    /\ \A id \in Id : life[id] # "absent" => attached[id] = meta[id]
    /\ \A r \in 1..Len(batch) : life[batch[r]] = "running"

(* The recorded counts are those of the block tables that were sent.          *)
Counted == \A r \in 1..Len(batch) : counts[r] = Len(blocks[batch[r]])

(* A row that is not right waits for its rebuild; between steps none does.    *)
Pending ==
    /\ \A r \in 1..Len(batch) : full \/ r \in delta \/ RowRight(r)
    /\ phase = "schedule" => delta = {} /\ (full => batch = <<>>)

IInv == TypeOK /\ Known /\ Counted /\ PrefillReadsOwn /\ Pending

(* The empty batch satisfies the invariant.                                   *)
LEMMA InitIInv == Init => IInv
<1> SUFFICES ASSUME Init PROVE IInv
    OBVIOUS
<1> USE RunnerAssumption
<1>0. Len(batch) = 0 /\ 1..0 = {} /\ batch \in Seq(Id)
    BY DEF Init
<1>1. TypeOK
    BY <1>0 DEF Init, TypeOK, Row
<1>2. Known /\ Counted /\ PrefillReadsOwn
    BY <1>0 DEF Init, Known, Counted, PrefillReadsOwn
<1>3. Pending
    BY <1>0 DEF Init, Pending
<1> QED
    BY <1>1, <1>2, <1>3 DEF IInv

(* A function on 1..n is a sequence of length n.                              *)
LEMMA OrderIsSeq ==
    ASSUME NEW n \in Nat, NEW S, NEW f \in [1..n -> S]
    PROVE  f \in Seq(S) /\ Len(f) = n
OBVIOUS

(* A laid out metadata row holds numbers throughout.                          *)
LEMMA MetadataRowType ==
    ASSUME NEW m \in Metadata \cup {<<>>}
    PROVE  MetadataRow(m) \in [1..MaxBlocks -> Nat]
<1>1. m \in Seq(Nat)
  <2>1. <<>> \in Seq(Nat)
      OBVIOUS
  <2>2. m \in Metadata => m \in Seq(Nat)
      BY RunnerAssumption
  <2> QED
      BY <2>1, <2>2
<1>2. \A i \in 1..MaxBlocks : i <= Len(m) => m[i] \in Nat
    BY <1>1
<1> QED
    BY <1>2 DEF MetadataRow

(* _update_states keeps it: a recomposed batch is laid out anew and waits for *)
(* a full rebuild; otherwise every row still has its request, which ran all   *)
(* along, and a table that did not grow is the one it was.                    *)
LEMMA StepIInv == ASSUME IInv, Step PROVE IInv'
<1> USE RunnerAssumption
<1>1. PICK out \in Output :
          /\ Legal(out) /\ Sent(out)
          /\ \E n \in 0..MaxRows : \E order \in [1..n -> Scheduled(out)] :
                /\ UpdateStates(out, order)
                /\ phase' = IF n = 0 THEN "schedule" ELSE "prepare"
    BY DEF Step
<1>2a. PICK n \in 0..MaxRows :
          \E order \in [1..n -> Scheduled(out)] :
             /\ UpdateStates(out, order)
             /\ phase' = IF n = 0 THEN "schedule" ELSE "prepare"
    BY <1>1
<1>2. PICK order \in [1..n -> Scheduled(out)] :
          /\ UpdateStates(out, order)
          /\ phase' = IF n = 0 THEN "schedule" ELSE "prepare"
    BY <1>2a
<1>3. phase = "schedule" /\ delta = {} /\ (full => batch = <<>>)
    BY DEF Step, IInv, Pending
<1>4. n \in Nat /\ Scheduled(out) \subseteq Id
    BY DEF Scheduled, Output
<1>5. order \in Seq(Scheduled(out)) /\ Len(order) = n /\ order \in Seq(Id)
    BY <1>4, OrderIsSeq
<1>6. batch' = order /\ \A r \in 1..n : batch'[r] = order[r] /\ order[r] \in Scheduled(out)
    BY <1>2 DEF UpdateStates
(* the scheduler's side *)
<1>7a. PICK m \in [out.new -> Metadata] :
          meta' = [id \in Id |-> IF id \in out.new THEN m[id] ELSE meta[id]]
    BY <1>1 DEF Sent
<1>7. PICK given \in [Scheduled(out) -> Tables] :
          /\ \A id \in out.running : Extends(blocks[id], given[id])
          /\ blocks' = [id \in Id |-> IF id \in Scheduled(out) THEN given[id]
                                      ELSE IF id \in out.preempted \cup out.finished THEN <<>>
                                      ELSE blocks[id]]
    BY <1>1 DEF Sent
<1>8. \A id \in Scheduled(out) : blocks'[id] = given[id] /\ blocks'[id] \in Tables
    BY <1>4, <1>7
<1>9. attached' = [id \in Id |-> Attached(out, id)]
    BY <1>2 DEF UpdateStates
<1>10. \A id \in Id : life'[id] # "absent" => attached'[id] = meta'[id]
  <2> SUFFICES ASSUME NEW id \in Id, life'[id] # "absent"
               PROVE  attached'[id] = meta'[id]
      OBVIOUS
  <2>1. life'[id] = IF id \in Scheduled(out) THEN "running"
                    ELSE IF id \in out.preempted THEN "preempted"
                    ELSE IF id \in out.finished THEN "absent" ELSE life[id]
      BY <1>1 DEF Sent
  <2>2. CASE id \in out.new
      BY <2>2, <1>9 DEF Attached
  <2>3. CASE id \notin out.new
    <3>1. id \notin out.finished /\ life[id] # "absent"
        BY <2>1, <2>3, <1>1 DEF Legal, Scheduled, With
    <3>2. attached'[id] = attached[id] /\ meta'[id] = meta[id]
        BY <2>3, <3>1, <1>7a, <1>9 DEF Attached
    <3> QED
        BY <3>1, <3>2 DEF IInv, Known
  <2> QED
      BY <2>2, <2>3
<1>11. \A r \in 1..n : life'[batch'[r]] = "running" /\ attached'[order[r]] = meta'[order[r]]
    BY <1>1, <1>4, <1>6, <1>10 DEF Sent
<1>12. Known'
    BY <1>5, <1>6, <1>10, <1>11 DEF Known
<1>13. counts' = [r \in Row |-> IF r <= n THEN Len(blocks'[order[r]]) ELSE 0]
    BY <1>2, <1>5 DEF UpdateStates
<1>14. Counted'
    BY <1>5, <1>6, <1>13 DEF Counted, Row
(* a batch that is not recomposed *)
<1>15. ASSUME ~Recomposed(out, order)
       PROVE  /\ order = batch /\ n = Len(batch)
              /\ \A r \in 1..n : /\ batch[r] \in out.running
                                 /\ meta'[batch[r]] = meta[batch[r]]
                                 /\ Extends(blocks[batch[r]], blocks'[batch[r]])
              /\ isLazy' = isLazy /\ rotation' = rotation /\ full' = full
              /\ delta' = IF full THEN delta ELSE delta \cup Grown(order)
              /\ lastIds' = order
  <2>1. order = batch /\ out.new = {} /\ order = lastIds
      BY <1>15, <1>5 DEF Recomposed, IInv, TypeOK
  <2>2. UNCHANGED <<lastIds, isLazy, rotation, full>>
        /\ delta' = IF full THEN delta ELSE delta \cup Grown(order)
      BY <1>2, <1>15 DEF UpdateStates
  <2>3. \A r \in 1..n : batch[r] \in out.running
      BY <2>1, <1>1, <1>5, <1>6 DEF IInv, Known, Legal, Scheduled, With
  <2>4. \A r \in 1..n : /\ meta'[batch[r]] = meta[batch[r]]
                        /\ Extends(blocks[batch[r]], blocks'[batch[r]])
      BY <2>1, <2>3, <1>4, <1>6, <1>7a, <1>7, <1>8
  <2> QED
      BY <2>1, <2>2, <2>3, <2>4, <1>5
<1>16. ASSUME Recomposed(out, order)
       PROVE  /\ lastIds' = order /\ full' = TRUE /\ delta' = {}
              /\ Refresh(order)
    BY <1>2, <1>16 DEF UpdateStates
<1>17. TypeOK'
  <2>1. life' \in [Id -> {"absent", "running", "preempted"}]
      BY <1>1 DEF Sent, IInv, TypeOK
  <2>2. meta' \in [Id -> Metadata \cup {<<>>}]
      BY <1>7a DEF IInv, TypeOK
  <2>3. blocks' \in [Id -> Tables \cup {<<>>}]
      BY <1>7 DEF IInv, TypeOK
  <2>4. attached' \in [Id -> Metadata \cup {NoRequest}]
    <3> SUFFICES ASSUME NEW id \in Id PROVE Attached(out, id) \in Metadata \cup {NoRequest}
        BY <1>9
    <3>1. id \in out.new => meta'[id] \in Metadata
        BY <1>7a
    <3> QED
        BY <3>1 DEF Attached, IInv, TypeOK
  <2>5. batch' \in Seq(Id) /\ Len(batch') <= MaxRows /\ lastIds' = batch'
    <3>1. n <= MaxRows
        OBVIOUS
    <3>2. lastIds' = order
        BY <1>15, <1>16
    <3> QED
        BY <3>1, <3>2, <1>5, <1>6
  <2>6. isLazy' \in [Row -> BOOLEAN]
      BY <1>15, <1>16 DEF Refresh, IInv, TypeOK
  <2>7. rotation' \in [Row -> [1..MaxBlocks -> Nat]]
    <3>1. CASE ~Recomposed(out, order)
        BY <3>1, <1>15 DEF IInv, TypeOK
    <3>2. CASE Recomposed(out, order)
      <4>1. \A r \in 1..n : attached'[order[r]] \in Metadata \cup {<<>>}
          BY <1>6, <1>4, <1>11, <2>2
      <4>2. \A r \in 1..n : MetadataRow(attached'[order[r]]) \in [1..MaxBlocks -> Nat]
          BY <4>1, MetadataRowType
      <4>3. rotation \in [Row -> [1..MaxBlocks -> Nat]]
          BY DEF IInv, TypeOK
      <4>4. \A r \in Row : (IF AnyLazy(order) /\ r <= Len(order)
                           THEN MetadataRow(attached'[order[r]])
                           ELSE rotation[r]) \in [1..MaxBlocks -> Nat]
        <5> SUFFICES ASSUME NEW r \in Row, AnyLazy(order) /\ r <= Len(order)
                     PROVE  MetadataRow(attached'[order[r]]) \in [1..MaxBlocks -> Nat]
            BY <4>3
        <5>1. r \in 1..n
            BY <1>5 DEF Row
        <5> QED
            BY <5>1, <4>2
      <4>5. rotation' = [r \in Row |-> IF AnyLazy(order) /\ r <= Len(order)
                                       THEN MetadataRow(attached'[order[r]])
                                       ELSE rotation[r]]
          BY <3>2, <1>16 DEF Refresh
      <4> QED
          BY <4>4, <4>5
    <3> QED
        BY <3>1, <3>2
  <2>8. packed' \in [Row -> [1..MaxBlocks -> [block : BlockId \cup {NoBlock}, rot : Nat]]]
      BY <1>2 DEF UpdateStates, IInv, TypeOK
  <2>9. counts' \in [Row -> 0..MaxBlocks]
    <3>1. \A t \in Tables : Len(t) \in 0..MaxBlocks
        OBVIOUS
    <3>2. \A r \in 1..n : Len(blocks'[order[r]]) \in 0..MaxBlocks
        BY <3>1, <1>6, <1>8
    <3>3. \A r \in Row : (IF r <= n THEN Len(blocks'[order[r]]) ELSE 0) \in 0..MaxBlocks
        BY <3>2 DEF Row
    <3> QED
        BY <3>3, <1>13
  <2>10. full' \in BOOLEAN /\ delta' \subseteq 1..Len(batch')
    <3>1. CASE ~Recomposed(out, order)
        BY <3>1, <1>3, <1>5, <1>6, <1>15 DEF Grown, IInv, TypeOK
    <3>2. CASE Recomposed(out, order)
        BY <3>2, <1>16
    <3> QED
        BY <3>1, <3>2
  <2>11. phase' \in {"schedule", "prepare"}
      BY <1>2
  <2> QED
      BY <2>1, <2>2, <2>3, <2>4, <2>5, <2>6, <2>7, <2>8, <2>9, <2>10, <2>11 DEF TypeOK
<1>18. PrefillReadsOwn'
  <2> SUFFICES ASSUME NEW r \in 1..n
               PROVE  /\ isLazy'[r] = (meta'[order[r]] # <<>>)
                      /\ meta'[order[r]] # <<>> => rotation'[r] = MetadataRow(meta'[order[r]])
    <3>1. batch' = order /\ Len(order) = n
        BY <1>5, <1>6
    <3> QED
        BY <3>1 DEF PrefillReadsOwn, MetadataRow
  <2>0. r \in Row /\ r <= Len(order)
      BY <1>5 DEF Row
  <2>1. CASE ~Recomposed(out, order)
      BY <2>1, <1>15 DEF IInv, PrefillReadsOwn
  <2>2. CASE Recomposed(out, order)
    <3>1. isLazy'[r] = (attached'[order[r]] # <<>>)
        BY <2>0, <2>2, <1>16 DEF Refresh
    <3>2. attached'[order[r]] # <<>> => AnyLazy(order)
        BY <1>5 DEF AnyLazy
    <3>3. attached'[order[r]] # <<>> => rotation'[r] = MetadataRow(attached'[order[r]])
        BY <2>0, <2>2, <3>2, <1>16 DEF Refresh
    <3> QED
        BY <3>1, <3>3, <1>11
  <2> QED
      BY <2>1, <2>2
<1>19. Pending'
  <2>1. ASSUME NEW r \in 1..n PROVE full' \/ r \in delta' \/ RowRight(r)'
    <3>1. CASE Recomposed(out, order)
        BY <3>1, <1>16
    <3>2. CASE ~Recomposed(out, order) /\ r \in Grown(order)
        BY <3>2, <1>15
    <3>3. CASE ~Recomposed(out, order) /\ r \notin Grown(order)
      <4>1. ~full /\ r \in 1..Len(batch) /\ order = batch
          BY <3>3, <1>3, <1>15
      <4>2. Len(blocks'[batch[r]]) = Len(blocks[batch[r]])
          BY <3>3, <4>1, <1>5 DEF Grown, IInv, Counted
      <4>3. \A i \in 1..Len(blocks[batch[r]]) : blocks'[batch[r]][i] = blocks[batch[r]][i]
          BY <1>15, <3>3 DEF Extends
      <4>4. RowRight(r)
          BY <4>1, <1>3 DEF IInv, Pending
      <4>5. packed' = packed /\ batch'[r] = batch[r] /\ meta'[batch[r]] = meta[batch[r]]
          BY <3>3, <4>1, <1>2, <1>6, <1>15 DEF UpdateStates
      <4>6. MetadataRow(meta[batch[r]])' = MetadataRow(meta[batch[r]])
          BY <4>5 DEF MetadataRow
      <4>7. ASSUME NEW i \in 1..Len(blocks[batch[r]])
            PROVE  /\ packed'[r][i].block = blocks'[batch[r]][i]
                   /\ meta'[batch[r]] # <<>> =>
                         packed'[r][i].rot = MetadataRow(meta[batch[r]])[i]
          BY <4>3, <4>4, <4>5 DEF RowRight
      <4> QED
          BY <4>2, <4>5, <4>6, <4>7 DEF RowRight
    <3> QED
        BY <3>1, <3>2, <3>3
  <2>2. phase' = "schedule" => delta' = {} /\ (full' => batch' = <<>>)
    <3> SUFFICES ASSUME phase' = "schedule" PROVE delta' = {} /\ batch' = <<>>
        OBVIOUS
    <3>1. n = 0
        BY <1>2
    <3>2. batch' = <<>> /\ Grown(order) = {}
        BY <3>1, <1>5, <1>6 DEF Grown
    <3> QED
        BY <3>2, <1>3, <1>15, <1>16
  <2> QED
      BY <2>1, <2>2, <1>5, <1>6 DEF Pending
<1> QED
    BY <1>12, <1>14, <1>17, <1>18, <1>19 DEF IInv

(* _rebuild_packed_block_table makes every row of the batch right.            *)
LEMMA PrepareIInv == ASSUME IInv, PrepareInputs PROVE IInv'
<1> USE RunnerAssumption
<1>1. /\ UNCHANGED <<life, meta, blocks, attached, batch, lastIds, isLazy, rotation, counts>>
      /\ full' = FALSE /\ delta' = {} /\ phase' = "schedule"
      /\ packed' = [r \in Row |-> IF r \in Rebuilt THEN PackedRow(r) ELSE packed[r]]
    BY DEF PrepareInputs, schedulerVars
<1>2. Known' /\ Counted'
    BY <1>1 DEF IInv, Known, Counted
<1>3. PrefillReadsOwn'
    BY <1>1 DEF IInv, PrefillReadsOwn, MetadataRow
<1>4. \A r \in 1..Len(batch) : r \in Row /\ batch[r] \in Id
  <2>1. batch \in Seq(Id) /\ Len(batch) <= MaxRows
      BY DEF IInv, TypeOK
  <2>2. \A r \in 1..Len(batch) : batch[r] \in Id
      BY <2>1
  <2>3. \A r \in 1..Len(batch) : r \in Row
    <3>1. Len(batch) \in Nat
        BY <2>1
    <3> QED
        BY <2>1, <3>1 DEF Row
  <2> QED
      BY <2>2, <2>3
<1>5. TypeOK'
  <2>1. ASSUME NEW r \in Rebuilt
        PROVE  PackedRow(r) \in [1..MaxBlocks -> [block : BlockId \cup {NoBlock}, rot : Nat]]
    <3>1. r \in 1..Len(batch) /\ r \in Row /\ batch[r] \in Id
        BY <1>4 DEF Rebuilt, IInv, TypeOK
    <3>2. blocks[batch[r]] \in Seq(BlockId) /\ rotation[r] \in [1..MaxBlocks -> Nat]
      <4>1. blocks[batch[r]] \in Tables \cup {<<>>}
          BY <3>1 DEF IInv, TypeOK
      <4>2. <<>> \in Seq(BlockId)
          OBVIOUS
      <4> QED
          BY <3>1, <4>1, <4>2 DEF IInv, TypeOK
    <3> QED
        BY <3>2 DEF PackedRow
  <2>2. packed' \in [Row -> [1..MaxBlocks -> [block : BlockId \cup {NoBlock}, rot : Nat]]]
    <3> DEFINE Packed == [1..MaxBlocks -> [block : BlockId \cup {NoBlock}, rot : Nat]]
    <3>1. packed \in [Row -> Packed]
        BY DEF IInv, TypeOK
    <3>2. \A r \in Rebuilt : PackedRow(r) \in Packed
        BY <2>1
    <3>3. packed' = [r \in Row |-> IF r \in Rebuilt THEN PackedRow(r) ELSE packed[r]]
        BY <1>1
    <3> HIDE DEF Packed
    <3>4. packed' \in [Row -> Packed]
        BY <3>1, <3>2, <3>3
    <3> QED
        BY <3>4 DEF Packed
  <2> QED
      BY <1>1, <2>2 DEF IInv, TypeOK
<1>6. ASSUME NEW r \in 1..Len(batch) PROVE RowRight(r)'
  <2>1. CASE r \in Rebuilt
    <3>1. packed'[r] = PackedRow(r)
        BY <2>1, <1>1, <1>4
    <3>2. blocks[batch[r]] \in Tables \cup {<<>>}
        BY <1>4 DEF IInv, TypeOK
    <3>3. Len(blocks[batch[r]]) \in Nat /\ Len(blocks[batch[r]]) <= MaxBlocks
        BY <3>2
    <3>4. meta[batch[r]] # <<>> => rotation[r] = MetadataRow(meta[batch[r]])
        BY DEF IInv, PrefillReadsOwn
    <3>5. \A i \in 1..Len(blocks[batch[r]]) :
             /\ packed'[r][i].block = blocks[batch[r]][i]
             /\ packed'[r][i].rot = rotation[r][i]
        BY <3>1, <3>3 DEF PackedRow
    <3>6. batch' = batch /\ blocks' = blocks /\ meta' = meta
          /\ MetadataRow(meta[batch[r]])' = MetadataRow(meta[batch[r]])
        BY <1>1 DEF MetadataRow
    <3>7. \A i \in 1..Len(blocks[batch[r]]) :
             meta[batch[r]] # <<>> => packed'[r][i].rot = MetadataRow(meta[batch[r]])[i]
        BY <3>4, <3>5
    <3> QED
        BY <3>5, <3>6, <3>7 DEF RowRight
  <2>2. CASE r \notin Rebuilt
    <3>1. ~full /\ r \notin delta
        BY <2>2 DEF Rebuilt, IInv, TypeOK
    <3>2. RowRight(r) /\ packed'[r] = packed[r]
        BY <2>2, <3>1, <1>1, <1>4 DEF IInv, Pending
    <3> QED
        BY <3>2, <1>1 DEF RowRight, MetadataRow
  <2> QED
      BY <2>1, <2>2
<1>7. Pending'
    BY <1>1, <1>6 DEF Pending
<1> QED
    BY <1>2, <1>3, <1>5, <1>7 DEF IInv

(* Every step keeps the invariant.                                            *)
LEMMA NextIInv == IInv /\ [Next]_vars => IInv'
<1> SUFFICES ASSUME IInv, [Next]_vars PROVE IInv'
    OBVIOUS
<1>1. CASE Step
    BY <1>1, StepIInv
<1>2. CASE PrepareInputs
    BY <1>2, PrepareIInv
<1>3. CASE UNCHANGED vars
  <2>1. UNCHANGED <<life, meta, blocks, attached, batch, lastIds, isLazy, rotation,
                    packed, counts, full, delta, phase>>
      BY <1>3 DEF vars, schedulerVars
  <2>2. TypeOK'
      BY <2>1 DEF IInv, TypeOK
  <2>3. Known' /\ Counted'
      BY <2>1 DEF IInv, Known, Counted
  <2>4. PrefillReadsOwn'
      BY <2>1 DEF IInv, PrefillReadsOwn, MetadataRow
  <2>5. Pending'
      BY <2>1 DEF IInv, Pending, RowRight, MetadataRow
  <2> QED
      BY <2>2, <2>3, <2>4, <2>5 DEF IInv
<1> QED
    BY <1>1, <1>2, <1>3 DEF Next

(* For any requests, rows, tables and metadata, whatever the scheduler sends: *)
(* both kernels read, in every row, what belongs to the request in it.        *)
THEOREM KernelsReadOwn == Spec => [](TypeOK /\ DecodeReadsOwn /\ PrefillReadsOwn)
<1>1. IInv => TypeOK /\ DecodeReadsOwn /\ PrefillReadsOwn
  <2> SUFFICES ASSUME IInv, phase = "schedule", NEW r \in 1..Len(batch)
               PROVE  RowRight(r)
      BY DEF IInv, DecodeReadsOwn
  <2>1. ~full /\ delta = {}
    <3>1. full => Len(batch) = 0
        BY DEF IInv, Pending
    <3> QED
        BY <3>1 DEF IInv, Pending, TypeOK
  <2> QED
      BY <2>1 DEF IInv, Pending
<1> QED
    BY InitIInv, NextIInv, <1>1, PTL DEF Spec
=============================================================================
