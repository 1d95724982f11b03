---------------------------- MODULE ModelRunner ----------------------------
(***************************************************************************)
(* LazyGPUModelRunner (lazy/worker/gpu_model_runner.py) over a run of       *)
(* engine steps.  It copies the rotation metadata of each request once,     *)
(* when the request is new, lays it out by the rows of the current batch,   *)
(* and keeps the packed block table of the decode kernel up to date by       *)
(* differences: all rows when the batch is recomposed, else the rows whose  *)
(* block table grew.  Rows move between requests, requests are preempted    *)
(* and resumed with other blocks, and an id can be used again.              *)
(*                                                                         *)
(* The scheduler and vLLM's own part of the runner are the environment:     *)
(* each step any legal output arrives.  The metadata of a block, q_offset   *)
(* and q_mask, is one positive number here; its values are LazyAttention's  *)
(* concern.  There is one KV cache group.                                   *)
(***************************************************************************)
EXTENDS Integers, Sequences

CONSTANTS
  Id,         \* request ids
  MaxRows,    \* max_num_reqs
  MaxBlocks,  \* max_num_blocks_per_req
  BlockId,    \* physical blocks
  Tables,     \* bound: the block tables a request can have
  NoBlock,    \* what is in a table behind the blocks of its request
  Metadata,   \* what requests bring along, by block; <<>> without documents
  NoRequest   \* not in self.requests

ASSUME RunnerAssumption ==
    /\ MaxRows \in Nat \ {0} /\ MaxBlocks \in Nat \ {0}
    /\ \A m \in Metadata : m \in Seq(Nat) /\ Len(m) <= MaxBlocks
    /\ \A t \in Tables : t \in Seq(BlockId) /\ Len(t) \in 1..MaxBlocks
    /\ NoRequest \notin Metadata /\ NoBlock \notin BlockId

VARIABLES
  life,      \* scheduler: "absent", "running" or "preempted"
  meta,      \* scheduler: the metadata of each request
  blocks,    \* the block table of each request, as sent to the runner
  attached,  \* runner: the metadata kept in self.requests
  batch,     \* input_batch.req_ids: the request of each row
  lastIds,   \* _last_req_ids
  isLazy,    \* is_lazy_req, by row
  rotation,  \* lazy_offset and lazy_mask on the device, by row and block
  packed,    \* packed_block_tables, by row and block
  counts,    \* _packed_block_counts, by row
  full,      \* _packed_block_table_full_rebuild
  delta,     \* _packed_block_table_delta_rows
  phase      \* "schedule", or "prepare" between the runner's two steps

schedulerVars == <<life, meta, blocks>>
vars == <<schedulerVars, attached, batch, lastIds, isLazy, rotation, packed,
          counts, full, delta, phase>>

Row == 1..MaxRows
Extends(s, t) == Len(s) <= Len(t) /\ \A i \in 1..Len(s) : t[i] = s[i]

With(state) == {id \in Id : life[id] = state}

Init ==
    /\ life = [id \in Id |-> "absent"]
    /\ meta = [id \in Id |-> <<>>]
    /\ blocks = [id \in Id |-> <<>>]
    /\ attached = [id \in Id |-> NoRequest]
    /\ batch = <<>> /\ lastIds = <<>>
    /\ isLazy = [r \in Row |-> FALSE]
    /\ rotation = [r \in Row |-> [i \in 1..MaxBlocks |-> 0]]
    /\ packed = [r \in Row |-> [i \in 1..MaxBlocks |-> [block |-> NoBlock, rot |-> 0]]]
    /\ counts = [r \in Row |-> 0]
    /\ full = TRUE /\ delta = {}
    /\ phase = "schedule"

-----------------------------------------------------------------------------
(* A scheduler output.  Waiting requests are taken only when nothing was      *)
(* preempted; a request that runs may be left out of a step; a request with    *)
(* documents is first scheduled with blocks for all of its metadata.           *)

Output == [finished : SUBSET Id, new : SUBSET Id, resumed : SUBSET Id,
           running : SUBSET Id, preempted : SUBSET Id]

Legal(out) ==
    /\ out.finished \subseteq With("running") \cup With("preempted")
    /\ out.new \subseteq With("absent") \cup out.finished
    /\ out.resumed \subseteq With("preempted") \ out.finished
    /\ out.running \subseteq With("running") \ out.finished
    /\ out.preempted \subseteq With("running") \ (out.finished \cup out.running)
    /\ out.preempted # {} => out.new = {} /\ out.resumed = {}

Scheduled(out) == out.new \cup out.resumed \cup out.running

(* What the scheduler knows after it sent the output: new tables for new and  *)
(* resumed requests, possibly a longer one for those that go on.              *)
Sent(out) ==
    /\ life' = [id \in Id |-> IF id \in Scheduled(out) THEN "running"
                              ELSE IF id \in out.preempted THEN "preempted"
                              ELSE IF id \in out.finished THEN "absent" ELSE life[id]]
    /\ \E m \in [out.new -> Metadata] :
          meta' = [id \in Id |-> IF id \in out.new THEN m[id] ELSE meta[id]]
    /\ \E given \in [Scheduled(out) -> Tables] :
          /\ \A id \in out.running : Extends(blocks[id], given[id])
          /\ \A id \in Scheduled(out) : Len(meta'[id]) <= Len(given[id])
          /\ blocks' = [id \in Id |-> IF id \in Scheduled(out) THEN given[id]
                                      ELSE IF id \in out.preempted \cup out.finished THEN <<>>
                                      ELSE blocks[id]]

-----------------------------------------------------------------------------
(* _update_states.                                                            *)

(* The metadata comes with new requests and goes with finished ones.          *)
Attached(out, id) ==
    IF id \in out.new THEN meta'[id]
    ELSE IF id \in out.finished THEN NoRequest ELSE attached[id]

(* Mutant of Recomposed: an id that is used again goes unnoticed.             *)
RecomposedByIds(out, order) == order # lastIds

Recomposed(out, order) == out.new # {} \/ order # lastIds

(* Mutant of AnyLazy: the flag is assigned in the loop, not raised.           *)
AnyLazyLast(order) == order # <<>> /\ attached'[order[Len(order)]] # <<>>

AnyLazy(order) == \E r \in 1..Len(order) : attached'[order[r]] # <<>>

(* A metadata row, zero behind the request's blocks.                          *)
MetadataRow(m) == [i \in 1..MaxBlocks |-> IF i <= Len(m) THEN m[i] ELSE 0]

(* _refresh_lazy_metadata_buffers: the host buffers are laid out anew, and    *)
(* the device keeps its old metadata when no request of the batch needs any.  *)
Refresh(order) ==
    /\ isLazy' = [r \in Row |-> IF r <= Len(order) THEN attached'[order[r]] # <<>>
                                ELSE isLazy[r]]
    /\ rotation' = [r \in Row |-> IF AnyLazy(order) /\ r <= Len(order)
                                  THEN MetadataRow(attached'[order[r]])
                                  ELSE rotation[r]]

(* Mutant of Grown: rows are numbered one too high.                           *)
GrownShifted(order) == {r + 1 : r \in {q \in 1..Len(order) : counts[q] # Len(blocks'[order[q]])}}

(* The rows of the batch whose block count is not the one last recorded.      *)
Grown(order) == {r \in 1..Len(order) : counts[r] # Len(blocks'[order[r]])}

(* vLLM's own _update_states puts the scheduled requests on the first rows,   *)
(* in any order: removals are filled and condensed, a backend may reorder.    *)
UpdateStates(out, order) ==
    /\ attached' = [id \in Id |-> Attached(out, id)]
    /\ batch' = order
    /\ IF Recomposed(out, order)
       THEN /\ lastIds' = order
            /\ Refresh(order)
            /\ full' = TRUE
            /\ delta' = {}
       ELSE /\ UNCHANGED <<lastIds, isLazy, rotation, full>>
            /\ delta' = IF full THEN delta ELSE delta \cup Grown(order)
    /\ counts' = [r \in Row |-> IF r <= Len(order) THEN Len(blocks'[order[r]]) ELSE 0]
    /\ UNCHANGED packed

(* A step without scheduled tokens ends here.                                 *)
Step ==
    /\ phase = "schedule"
    /\ \E out \in Output :
          /\ Legal(out) /\ Sent(out)
          /\ \E n \in 0..MaxRows : \E order \in [1..n -> Scheduled(out)] :
                /\ \A id \in Scheduled(out) : \E r \in 1..n : order[r] = id
                /\ \A r, q \in 1..n : order[r] = order[q] => r = q
                /\ UpdateStates(out, order)
                /\ phase' = IF n = 0 THEN "schedule" ELSE "prepare"

(* _rebuild_packed_block_table, from the block table and the metadata of the  *)
(* row; then the kernels run.                                                 *)
PackedRow(r) ==
    LET t == blocks[batch[r]]
    IN  [i \in 1..MaxBlocks |-> [block |-> IF i <= Len(t) THEN t[i] ELSE NoBlock,
                                 rot |-> rotation[r][i]]]

Rebuilt == IF full THEN 1..Len(batch) ELSE {r \in delta : r <= Len(batch)}

PrepareInputs ==
    /\ phase = "prepare"
    /\ packed' = [r \in Row |-> IF r \in Rebuilt THEN PackedRow(r) ELSE packed[r]]
    /\ full' = FALSE /\ delta' = {}
    /\ phase' = "schedule"
    /\ UNCHANGED <<schedulerVars, attached, batch, lastIds, isLazy, rotation, counts>>

Next == Step \/ PrepareInputs

Spec == Init /\ [][Next]_vars

-----------------------------------------------------------------------------
(* Types of the variables; only rows of the batch wait for a rebuild.         *)
TypeOK ==
    /\ life \in [Id -> {"absent", "running", "preempted"}]
    /\ meta \in [Id -> Metadata \cup {<<>>}]
    /\ blocks \in [Id -> Tables \cup {<<>>}]
    /\ attached \in [Id -> Metadata \cup {NoRequest}]
    /\ batch \in Seq(Id) /\ Len(batch) <= MaxRows /\ lastIds = batch
    /\ isLazy \in [Row -> BOOLEAN]
    /\ rotation \in [Row -> [1..MaxBlocks -> Nat]]
    /\ packed \in [Row -> [1..MaxBlocks -> [block : BlockId \cup {NoBlock}, rot : Nat]]]
    /\ counts \in [Row -> 0..MaxBlocks]
    /\ full \in BOOLEAN /\ delta \subseteq 1..Len(batch)
    /\ phase \in {"schedule", "prepare"}

(* What the kernels find in row r is what the scheduler meant for the request *)
(* that has the row: it is lazy or not, its blocks are the ones it holds now, *)
(* and, when it has documents, every block has its own metadata and the       *)
(* blocks behind them have none.  The packed rows are the decode kernel's;    *)
(* a plain row's metadata is stale and not looked at (llama_v1.py:343-345).   *)
RowRight(r) ==
    LET id == batch[r]
    IN  \A i \in 1..Len(blocks[id]) :
           /\ packed[r][i].block = blocks[id][i]
           /\ meta[id] # <<>> => packed[r][i].rot = MetadataRow(meta[id])[i]
DecodeReadsOwn == phase = "schedule" => \A r \in 1..Len(batch) : RowRight(r)

(* The prefill kernel reads is_lazy and the metadata by row, unpacked.        *)
PrefillReadsOwn ==
    \A r \in 1..Len(batch) :
       /\ isLazy[r] = (meta[batch[r]] # <<>>)
       /\ meta[batch[r]] # <<>> => rotation[r] = MetadataRow(meta[batch[r]])
=============================================================================
