# A TLA+ model of LazyAttention

LazyAttention serves requests that carry *documents* with a vLLM v1 engine. Each
document is encoded on its own, cached by blocks, and shared by all requests that
name it, whatever stands in front of it; the query attends to all documents, and the
decode kernel turns the query, not the keys, to give every document token the
distance it would have had in one long prompt. This directory holds TLA+ modules for
the parts of the program where that can go wrong, TLC configurations that check them
on small instances, and TLAPS proofs of what holds for every instance.

Paths below are relative to `src/`; `lazy/` stands for `lazy_attn/lazy/`. vLLM is a
dependency whose code is not in the repository: what the program needs of it (the
block pool, `update_from_output`, `finish_requests`, the input batch) is modelled
from how the program uses it, and marked `external` in `PROJECT.json`.

## 1. Inventory

| Component | State it keeps | Operations | Hard behaviour |
| --- | --- | --- | --- |
| Scheduler, `lazy/core/sched/scheduler.py` | `waiting`, `running`, `requests`, the queue of skipped requests, the token budget of a call | `schedule`, `add_request`, `is_doc_ready`, `add_doc_request`, `metadata_for_*` | chunking, preemption, spawning inside the loop that consumes, failed attempts after the merge |
| Request, `lazy/request.py` | status, tokens, `documents_merged`, `num_computed_tokens` | `merge_documents`, `document_request` | the merge must happen once although the attempt may be repeated |
| KV cache manager and hashing, `lazy/core/kv_cache_manager.py`, `kv_cache_utils.py` | block tables, hash lists, registered blocks, free queue | `get_computed_blocks`, `get_computed_blocks_docs`, `allocate_slots`, `free`, `free_block_hashes` | sharing, eviction, hash chains seeded by documents |
| Block pool replacement, `lazy/core/block_pool.py` | none of its own | `cache_full_blocks` | is installed by `block_attn_vllm` only |
| Rotation bound and metadata, `lazy/utils/rotation.py`, `scheduler.py:750-793` | none | `max_rotation_offset`, `metadata_for_lazy_attention` | two functions that must agree; padding; 16-bit fields |
| Model runner, `lazy/worker/gpu_model_runner.py`, `gpu_input_batch.py`, `core/sched/output.py` | metadata buffers by row, packed block table, counts, last batch | `_update_states`, `_rebuild_packed_block_table`, `_attach_lazy_attn_metadata` | rows move between requests; the table is updated by difference |
| Decode kernel, `lazy/attention/ops/models/llama_v1.py` | the rotation of Q carried from block to block | the block loop | 0, 1 and other offsets; masks |
| Prefill kernel and dispatch, `lazy/attention/ops/prefix_prefill.py`, `chunked_prefill_paged_decode.py`, `backends/triton_attn.py` | none | context attention behind documents, own keys, launch of both kernels | the same metadata, unpacked; every row must be left to exactly one kernel |
| Ablation kernels, layer, rotary embeddings, model patch | none | tensor code | numerical; the angle at which a key is cached |
| Processor, `lazy/engine/processor.py` | none | padding, refusals | the rules admission must enforce for the rest to be sound |
| Engines, `lazy/engine/*.py` | registered ids, fan-outs, collectors, two channels between processes | `generate`, `add_request`, `abort`, the busy loop, the death of the core | cancellation at every await, ids used twice, fan-out, exceptions that know only an id |
| Entry point, `lazy/entrypoints/llm.py` | request counter, the outputs collected | `generate`, `_validate_and_add_requests` | a batch refused half-way |
| Patch registry, `lazy/vllm_patch.py`, `ctxmgr.py`, `lazy/__vllm__.py` | originals of the patched names, the saved `run_engine_core`, whether CUDA is up | apply, revert, enter and leave a context, start an engine process | repeated and partial application; fork or spawn |
| Block attention, `block_attn_vllm/` | copies of document blocks by request | a second `schedule` that copies and rotates | copy-on-write, references, failure half way |
| Monitoring, benchmarks, scripts | – | – | – |

How they meet: the engine core is one thread that calls `schedule()`, runs the model
with its output, and calls `update_from_output`. Additions and aborts are taken
between steps. Only the compilation of a grammar runs on another thread and is seen
inside `schedule()`. The engine core is a process of its own: coroutines (or one
thread, in the batch entry point) register a request with the output processor of their
process, send it over one FIFO channel, and take what comes back over another. What
runs in either process is decided before, by the patches each of them applied. The
scheduler spawns *document requests* (ids derived from their
parent's) that live in the same queues and meet their parent only in the prefix
cache: the parent is ready when the cache holds every block of every document. The
runner keeps its own copy of each request and of the block table, which the
scheduler's output updates by differences.

What makes the program correct:

* *cache*: a registered block holds the state of its hash; a held block does not
  change; a block being written belongs to one position of one request; blocks are
  in the free queue exactly when nobody holds them.
* *scheduler*: a request is in one queue once; documents come out before their
  parent; the merge happens once and puts tokens, hits and hashes in the same order;
  budgets hold; every accepted request is served, even on a pool where requests
  evict each other's documents.
* *rotation*: what is admitted fits the fields; a token, prefilled or decoded, scores
  every real key at the distance of the unpadded context, and nothing else; one kernel
  stores it.
* *runner*: every row of the packed table is that of the request which has the row
  now, with its blocks as they are now.
* *front end*: a call that waits has something on its way to it, and nobody else's; a
  call that is cancelled leaves nothing running; a batch leaves no prompt without an
  answer and answers none twice; every call ends, also when the core dies.
* *patches*: what is recorded is vLLM's own and comes back; the engine process of a patched
  program runs the lazy code in every target, whatever its start method. (It does not run
  what its program installed: see `block_engine` in section 6.)

`PROJECT.json` lists the hazards behind these properties, each at its line.

## 2. Modules

### KVCache — the contract

`KVCache.tla` says what the paged cache promises whoever drives it: `Rehash`,
`Allocate` (hits, fresh blocks, registration), `Free`, `Finish` over `table`,
`hashes`, `blockHash` and the ghost `content`, the state really computed into a
block. It leaves open which unheld block is taken and which prefix is found. Hashes
are collision free, so a hash is the key it was taken over. Checked by `kv_cache`
(`MCKVCache` enumerates the candidates of each step), proved in `KVCacheProofs`,
implemented by `LazyScheduler`.

### LazyScheduler — the scheduler, with its requests and cache

`schedule()` is modelled one loop iteration at a time, `pc` naming the loop:

| `pc` | Code | Actions |
| --- | --- | --- |
| `idle` | between engine steps | `AddRequest`, `Abort`, `StartSchedule` |
| `running` | the loop over `running`, 172-283 | `RunningSchedule`, `RunningPreempt`, `EndRunning` |
| `waiting` | the loop over `waiting`, 297-614 | `SkipForGrammar` (323-330), `SpawnDocuments` (343-356), `DropCachedDocument` (Case 1.1), `AttemptFails` (565-570), `AttemptSucceeds` |
| `finish` | 616 to the end | `FinishSchedule` |
| `update` | the model runs, `update_from_output` | `KeepRunning`, `FinishRequest`, `EndUpdate` |

`CompileGrammar` may happen at any time. An attempt is one action with everything it
does: lookup, the merge of documents' tokens, hits and hashes, allocation,
registration, and the change of queue. A failed attempt keeps the merge, as the code
does. Tokens are small integers, and a key is the list of documents that seed a hash
chain together with the tokens hashed. `ComputedState` says what the model would
write into a block: the state its context stands for if every block before it holds
what it should, and `Poison` when a document would be prefilled behind another one
or a block in front is wrong. So `CacheSound` and `TableSpellsContext` see any mix-up
of hits, hashes or boundaries, not just of block numbers.

It refines the contract: `Cache == INSTANCE KVCache WITH ...` maps tables, hash lists,
registered hashes and contents to themselves, and the free queue, the two request queues
and `pc` have no counterpart. The pressure run checks `ImplementsCache == Cache!Spec`.

### LazyAttention — from admission to the stored output

One request of any documents in `DocumentSets` and any sliding window in `Windows`,
alone or beside longer queries:

| Step | Code | Actions |
| --- | --- | --- |
| admission | `processor.py:128-239`, `utils/rotation.py` | `Arrive`: padding, the rotation bound |
| before the kernels | `scheduler.py:758-781`, `gpu_model_runner.py:193-343`, `triton_attn.py:57-187` | `PrepareInputs`: a chunk of any size, the metadata, one row of the packed table, which kernels are launched |
| prefill kernel | `prefix_prefill.py` | `PrefillSkips`, `LazyContextBlock`, `LazyOwnTile`, `LazyStoreTile`, and the `Plain...` actions of a row without documents |
| decode kernel | `ops/models/llama_v1.py` | `DecodeSkips`, `VisitBlock`, `LazyOnlyVisitBlock`, `PlainVisitBlock`, `StoreToken` |

A program of a kernel is one tile of the query; an action is one iteration of one of its
loops, with the rotation and the running maximum it carries. The decode kernel turns the
query back by `q_offset`, the prefill kernel turns the keys forward: `AttentionExact`
asks of both the distance of the context without padding.

A rotation is an integer, and a score is the distance of two angles. A weight of the
online softmax is one of three classes, scored, -10000 (out of the window) and -inf
(masked), because a weight of a lower class vanishes beside one of a higher class and
three classes are enough to see a row that is masked altogether (`MaximumFinite`).
Floating point is left out. The field width is a constant, so the carry out of a 16-bit
field is reached with 16 values instead of 65536; it is at least 2, as a field must tell 0
and 1 apart. What the code says of a list of documents (the region, the documents' first
blocks, the rotation of a block, the padding it masks) are operators over the list, so that
the same definitions serve admission, metadata and reference. `BlocksSuffice` names the one
assumption on sizes: the block table has room for the longest request.

### ModelRunner — the rows of the batch

One engine step is two actions: `Step`, the scheduler's output and `_update_states`,
and `PrepareInputs`, `_rebuild_packed_block_table` before the kernels run. The
scheduler and vLLM's part of the runner are the environment. `Legal` is any output
`schedule()` can send: requests new (also under an id that finished just now),
resumed with any blocks, running on with a longer table or left out, preempted (then
nothing waiting is taken). The scheduled requests are put on the rows in any order,
which covers removal, condensing and the reordering of an attention backend. A
preempted request is left out of the batch for at least one step, because the loop over
`waiting` is not entered in a step that preempts (scheduler.py:301).

The metadata of a block, `q_offset` and `q_mask` together, is one number: `LazyAttention`
says which one it must be, `ModelRunner` whether it reaches its row.
`DecodeReadsOwn` is what the packed table must hold when the kernels run, and
`PrefillReadsOwn` what the unpacked buffers must hold. The row of a request without
documents keeps stale metadata, in the buffers and in the packed table, because the
device copy is skipped when no request of the batch is lazy; the plain branch of the
kernel takes the block number only (`llama_v1.py:341-346`), so the properties ask for
no more.

### Frontend — from a caller to the engine core and back

`api` says which entry point the program uses. A coroutine of `AsyncLazyLLM.generate` runs
without interruption from one await to the next, so an action is what happens between
two awaits:

| Action | Code |
| --- | --- |
| `Generate` | `generate` and `add_request` up to the first send: `errored`, the pooling check, `process_inputs`, registration |
| `Sent` | the send is over; the next child is registered, or the call waits |
| `Take`, `Resume`, `Close` | an output is taken and yielded; the caller comes back or closes the generator |
| `Cancel` | `CancelledError` at an await; the send may have taken place or not |
| `SendAbort` | the await in `abort`, behind `CancelledError` and other exceptions (async_llm.py:204-229) |
| `HandleOutput`, `NoticeDeath`, `PropagateDeath` | vLLM's output handler |
| `StartBatch`, `AddPrompt`, `RefuseBatch`, `RunEngine`, `EngineError`, `ReturnBatch` | `LazyLLM.generate` |
| `Receive`, `SpawnDocument`, `Sample`, `Finish`, `Die` | the engine core, as a client sees it |

`AddPrompt` follows `LazyLLMEngine.add_request`: a prompt with documents is one request, and
n > 1 is refused; one without is left to vLLM, which registers and sends n children at once and
has the prompt's output when the last of them has ended (`Waiting`). A guided request with
documents is accepted; once its documents are spawned the core is `Stuck`, as `schedule()` does
not return, and takes neither messages nor steps.

`Outcome` is `process_inputs` as its callers tell it apart: accepted, a `ValueError`, or
another exception, which leads to another except clause. A request carries the ghost
`by`, the call that sent it, so that an output given to another call is seen
(`OwnOutputs`).

### PatchRegistry — how the code gets into vLLM

An attribute of vLLM holds vLLM's own value, the lazy one or the block-attention one. All
are *targets* of the registry but `CacheFullBlocks`, which block attention assigns itself. `ApplyAll`, `ImportLazy`, `ImportBlock`, `RevertAll`, `Enter`, `EnterSubproc`
and `Exit` are the calls a program makes, in any order. A target may be missing (`absent`):
`_apply_targets` then stops there and leaves what it did. `StartEngine` computes what an
engine process runs: the function that is `run_engine_core` of the class that
`EngineCoreProc` names, in a forked process, which has a copy of everything, or in a spawned
one, which has vLLM as it was, with what the main module imports if it is run again. If the
function is the context's replacement the start fails: vLLM does not pass its required
keyword. `StartInProcess` builds vLLM's `EngineCore`, which is no target, from what is
installed in this process; the field `own` tells the two apart.

## 3. Runs

| Run | Instance | Shows |
| --- | --- | --- |
| `kv_cache` | 2 requests, 3 blocks, 2 keys, tables up to 2 blocks, all symmetric | types, `TableSound`, `WriterExclusive`, and that no step changes a held block |
| `pressure` | 4 requests, 5 blocks of 2 tokens, budget 3, fair | all safety properties of the scheduler; `ImplementsCache`: each of its steps is one the contract allows; `EveryRequestServed` |
| `attention` | lists of up to three documents of 1 to 7 tokens at block size 3, fields of 16 values, 6 query and output tokens in chunks of any size, tiles of 4 and 2, windows 0 and 4 | the admission bound, exact distances, masked padding, finite maxima, each token stored once |
| `runner` | 2 requests, 2 rows, 2 blocks, requests with no, one and two blocks of metadata, all symmetric but the metadata | every row the kernels read is that of its request |
| `frontend` | 2 calls in 9 scenarios, 3 batches of up to 2 prompts, of which 2 are given, a core that may die, fair | nobody waits for nothing; a cancelled call leaves nothing running; own outputs only; batches with an answer for each prompt, and none twice; every call ends, unless a guided request with documents stops the core |
| `patches` | 5 targets, 2 of them attention targets, each missing or none, three kinds of program, one open context | originals are kept and come back; the engine process of a patched program is the lazy one, forked or spawned |
| `alias`, `drop_first`, `guided_docs`, `empty_query`, `empty_document`, `block_engine` | the smallest instance each | the disagreements of section 6 |

Why the bounds are enough. `pressure` has two requests that share two documents in
two orders (order of merge, sharing, query seeding), one that names a document twice
(one block at two positions of a table), and a guided one without documents whose
prompt begins with the text of a document (a plain prefix and a document meet under
one hash; a request is set aside). Documents are one and two blocks long, so the
budget of 3 chunks one of them and a document is finished in a later step than it
began. Five blocks are the least that holds each request alone: a document is evicted
between the gate and the attempt, attempts fail after the merge, running requests are
preempted in the middle of decoding, and the requests evict each other's documents.
For `attention`, lengths 1 to 7 at block size 3 are below, at and above one and two blocks,
with every amount of padding; three documents have a first, a middle and a last one; `<<7, 3, 4>>`
is the largest rotation the field takes and `<<7, 4, 3>>` is refused. Six tokens cross a block
border and fill two query tiles, the second in part; chunks of one token meet longer
queries of other rows, so that both kernels are launched and one must skip. Two
keys and tables of two blocks in `kv_cache` are enough for a stale hit, a shared
block, a block recycled under another hash and a partial last block; the proof covers
the rest. `CacheSound` is not among the properties of `kv_cache`, as the contract's rule for
registering a block says it; `pressure` checks it of the algorithm.

The scenarios of `frontend` put side by side what can disturb each other: two calls under
one id, the second accepted or refused; two fan-outs under one id; a fan-out that is
cancelled between its children, next to a call that is served or refused; a call that
streams and is closed, next to one that fails with an exception that aborts. One
batch fans a prompt out, one is refused at its second prompt; two batches are
enough for the leftovers of a refused one to answer in the next. In one scenario a
guided request with documents stops the core next to a call that streams: the only excuse
`CallsEnd` allows. In `patches` a target may be
missing among the attention targets and behind them.

In `runner` two ids on two rows swap, leave, come back and are used again; two tables of the
same length with other blocks, and a table that grows, are there to be missed; and
metadata of length 0, 1 and 2 leaves something behind for a shorter successor. The
proof covers the rest.

A run of `LazyScheduler` needs queries that are at least a block long for
`CacheSound`: shorter ones break it, and the run `alias` shows how.

`CHECK_DEADLOCK` is off for `kv_cache` (the contract has no obligation to move) and
for `attention` and `empty_document` (the bound on new tokens ends a behaviour). The
scheduler's runs check deadlock: only the state where all are served may last. So does
`frontend`: its `Quiescent` step is allowed only when every call has ended and the channels
to the core are empty.

**Fairness.** `FairSpec` of `LazyScheduler` assumes two things. The engine keeps
stepping while it has work, which is the busy loop of `engine/core.py`. It is written
`EngineFair == []<>~EngineBusy \/ []<><<EngineMoves>>_vars`, without `ENABLED`: an
engine step is enabled exactly when `EngineBusy` holds, which the deadlock check of
`pressure` confirms. And a grammar whose compilation was started is compiled. Nothing
is assumed of clients: no addition or abort has to happen.

`Fairness` of `Frontend`: the event loop runs a coroutine that can go on and the output
handler (asyncio is fair among ready tasks); the caller's thread goes on with its batch; the
core reads its channel and finishes what it computes, which is what `EveryRequestServed`
shows of the scheduler. A core that is `Stuck` owes nothing, as neither action is enabled
then. Nobody has to make a call, to leave one, or to come back to a
generator's yield at once; `Resume` is fair, since a caller that never resumes its generator
has no call that could end.

## 4. Proofs

`KVCacheProofs` proves, for any sets of requests, blocks and keys with
`NoKey \notin Key`:

* `KVCacheSafe == Spec => [](TypeOK /\ CacheSound /\ TableSound /\ WriterExclusive)`
* `HeldBlocksNeverChange == Spec => HeldBlocksStable`

The four invariants are inductive only together. A step writes to the fresh blocks
and to the unfinished blocks of one request. `WriterExclusive` gives that nobody else
has those in a table, which is what keeps `TableSound` and `CacheSound` for everyone
else; `TableSound` gives that a registered block at a position bears the hash the
request has there, which is what lets a hit be added to a table; and the rule that a
block is registered only under the state just computed gives `CacheSound`. The proof
has one lemma per action (`RehashIInv`, `ReleaseIInv`, `AllocateIInv`) and one step
per conjunct below it. `HeldBlocksStable` follows from the same invariant: a held
registered block is neither fresh nor unfinished, and nothing else is written.

`ModelRunnerProofs` proves, for any ids, rows, block tables and metadata that satisfy
`RunnerAssumption`,

* `KernelsReadOwn == Spec => [](TypeOK /\ DecodeReadsOwn /\ PrefillReadsOwn)`.

`DecodeReadsOwn` says nothing between the two actions of a step, so the invariant
carries what is true there. `Pending`: a row that is not right waits in `full` or
`delta`, and between steps nothing waits. `Counted`: the counts recorded are the
lengths of the tables last sent, so an equal count of a row that kept its request means
an equal table, as tables only grow while a request runs. `Known`: the metadata the
runner attached is what the request has, and every row belongs to a request that runs,
so a batch that is not recomposed has none that was preempted, resumed or replaced in
between. `StepIInv` proves that `_update_states` keeps this, with a case for a
recomposed batch and one for the other; `PrepareIInv` that the rebuild discharges
`Pending`.

`PatchRegistryProofs` proves, for any list of targets, any of which may be missing,

* `RecordsSound == Spec => []OriginalsSound`
* `RevertAllRestores == Spec => RevertRestores`
* `LeavingRestores == Spec => LeaveRestores`
* `EngineProcessesAreLazy == Spec => []EngineProcessIsLazy`
* `PatchTypes == Spec => []TypeOK`.

For the first the invariant is `OriginalsSound` with the types of `attr` and
`originals`. The step that needs thought is `ImportBlock`, which assigns the runner
behind the registry's back: `Recorded` has put down vLLM's own runner by then, as the
assignment comes after an application that did not stop. The others need
`ContextInv`: contexts touch the attention targets only, the function that engine
processes start with is the outermost context's or vLLM's, a target that is missing
is never replaced, as an application stops in front of it, and `cache_full_blocks` is
vLLM's own unless block attention was imported. So `RevertAllRestores` says of the
targets that all come back, and of all of vLLM that it is as it was in a program that did not
import block attention; in one that did it is not (section 6). `EngineProcessesAreLazy`
says nothing of what the program installed: the process patches again, with the lazy
scheduler, which is why it is lazy and why block attention is lost (`block_engine`).
Two facts about the list of targets are assumed and hold for `DEFAULT_TARGETS`:
no target is listed twice, and `EngineCoreProc` is neither the scheduler nor the runner.

`FrontendProofs` proves, for any calls, scenarios and batches,

* `FrontendTypes == Spec => []TypeOK`
* `BatchesComplete == Spec => []BatchComplete`
* `NobodyForgotten == NamesApart => (Spec => []NobodyWaitsForNothing)`
* `CancelledLeavesNothing == NamesApart => (Spec => []CancelledIsAborted)`
* `OutputsAreOwn == NamesApart => (Spec => []OwnOutputs)`.

Of the invariant of the first two, `ChannelOK` and `CallOK` are types of what is in the channel
and of what the coroutines keep. `BatchOK` is the accounting of the batch: while it is added
and run each of its prompts has requests that are registered (`Waiting`) or is answered, and never
both; whatever else is registered or answered was left by a batch that was refused half-way;
and a prompt that was returned once has nothing registered, so it cannot be returned again.
That a prompt is answered with the last of its children, and not before, is what keeps the two
apart for a prompt that is fanned out. When the loop over `has_unfinished_requests` ends nothing
is registered, so all of the batch is answered.

The last three share `CallsInv`, which follows one request across both processes. `FlightOK`:
what is in either channel or in the core under an id was sent by one call; the id is
registered for that call, or the call has ended and aborts it. `OnceOK`: it is in one of the
three places, and its last output is behind the others, so a token is not overtaken by the end.
`TokenOK` is the heart: for every id an active call has registered there is something on its
way, or it is the one being sent, or the core died and the call was told. `WaitOK` adds that who waits
has something registered. `KidsOK` and `CoverOK` say that the name of a call leads to all its
children, so an abort of the name (`AbortOK`) reaches all that the call left (`CancelOK`).
`CoreOK` and `ErrorOK` are about the death of the core: its notice is last in the channel.
`NamesApart` is the hypothesis: a call that may abort its id, because it can be left, asks for
pooling or fails with an exception that is not a `ValueError`, shares the name with no other
call. Without it the code does abort another call's request (section 5). Calls that do not
abort may share names, and the scenarios have both kinds.

The first part of `AttentionProofs` proves, for any sizes of tiles and blocks, documents and chunks,

* `TokensStoredOnce == Spec => []StoredOnce`.

The invariant `TilesOK` says that the prefill kernel has stored the tokens in front of its
tile and no other, and that by the decode kernel's launch the row is stored, or untouched
when it has one token. It is kept at the end of a program because the tiles meet
(`TileArithmetic`) and because the grid covers the longest query of the batch, which is no
shorter than this row's.

Its layout part proves what the metadata of any list of documents is: prefix sums exist and
are the recursive sums the model uses (`PrefixSumDef`), documents start at blocks
(`DocumentsStartAtBlocks`), every block belongs to one document or is behind all
(`Covering`, `HoldsUnique`), the rotation of a block closes the gap that padding opened
(`GapClosed`), the mask leaves out the padding and nothing else (`MaskExact`), a packed entry
unpacks to its three fields (`Fields`). The library's induction theorems cannot be
instantiated, but induction over numbers can be stated as the existence of a least
counterexample (`LeastElement`, from `WFMin`), and what is needed of a recursive sum follows
from its defining equation. The last part builds on it:

* `LazyAttentionTypes == Spec => []TypeOK`
* `AdmissionIsEnough == Spec => []AdmittedFits`
* `MaximaFinite == Spec => []MaximumFinite`
* `OutputsExact == NonEmptyDocuments => (Spec => []AttentionExact)`
* `PaddingLeftOut == NonEmptyDocuments => (Spec => []PaddingNeverAttended)`.

The invariant `Base` has the row (`RowOK`: the chunk is behind the documents, the request was
admitted), the packed table (`PackedOK`: every entry is the metadata of its block, however
often the table has grown), the turn of the query (`TurnOK`: what the decode kernel carries is
the rotation of the last block it visited) and what the kernels keep (`KeysOK`: after the first
block no maximum is masked). `Exact` adds `SoftmaxOK`: after the keys in front of a position
the online softmax holds the real keys in front of it, each at its distance in the context
without padding, whichever kernel runs, and what is stored is complete. `NonEmptyDocuments` is
needed: a document without tokens erases its neighbour's mask (run `empty_document`). The
first three theorems hold for empty documents too.

`LazySchedulerProofs`, with the lemmas about queues, hashes and blocks in
`SchedulerLemmas`, proves, for any requests, documents, pool and budget,

* `SchedulerFreeQueue == Spec => []FreeQueueExact`
* `SchedulerForgets == Spec => []TrackedAreLive`,

the first from the invariant `Shape` (what each variable is, and that the free queue and the
reference counts agree), the second from `Live` (who is in a queue, has blocks or is skipped is
tracked and not finished). Two conditions, that no guided request has documents and that no
document is longer than what one step may compute of a request,

    DocumentsUnguided == \A r \in Guided : Docs[r] = <<>>
    DocumentsUncut == Threshold = 0 \/ \A r \in Request : \A d \in DOMAIN Docs[r] : Len(Docs[r][d]) <= Threshold

are enough for documents to be requested once and in order:

* `SchedulerLiveOnce == ASSUME DocumentsUnguided, DocumentsUncut PROVE Spec => []LiveOnce`
* `SchedulerOrdersDocuments ==` the same for `DocumentsAheadOfParent`
* `SchedulerSpawnsOnce ==` the same for `DocumentSpawnedOnce`.

The three are one induction, as each needs the others. That a request is in one queue once
depends on a document being spawned once; that a document is not spawned again depends on
`AskedOnce`: when the parent is looked at, a document spawned before is either ahead of it in
the queue or done and found whole in the cache. It is found because it was registered under its
own chain of hashes (`Registered`), because its blocks were not reused since (its parent asks in
the step the document ends, or is behind what still holds the budget: `Swift`, `Hungry`,
`Ahead`, `Parted`), and because nothing registered a wrong block (`Writes`: the blocks
behind the full ones are exclusive and unregistered). `Counts` relates how many tokens are
computed, granted and held in blocks, `Places` who can be where. Both hypotheses are needed:
the run `guided_docs` shows what happens without the first, and a chunk threshold below the
length of a document separates the document from its parent in the same way.

`SchedulerContextProofs` builds on this and proves what the blocks hold. Two more conditions
enter, each broken by a run of its own,

    HitsWhole == ~DropFirst
    QueriesFillBlock == \A r \in Request : Docs[r] # <<>> => Len(Prompt[r]) >= BlockSize

(`drop_first` and `alias`; the instance of `pressure` satisfies all four). With
`DocumentsUnguided` and `DocumentsUncut`

* `SchedulerTypes == ASSUME` these two `PROVE Spec => []TypeOK`
* `SchedulerCacheSound == ASSUME` all four `PROVE Spec => []CacheSound`
* `SchedulerSpellsContext ==` the same for `TableSpellsContext`
* `SchedulerNeverPoisoned ==` the same for `QueriesDoNotAlias /\ CacheNotPoisoned`
* `SchedulerImplementsCache == ASSUME` all four `PROVE Spec => ImplementsCache`
* `SchedulerHoldsBlocks ==` the same for `[](Cache!TableSound /\ Cache!WriterExclusive) /\ Cache!HeldBlocksStable`
* `SchedulerAdvances == ASSUME DocumentsUnguided, DocumentsUncut, QueriesNonEmpty PROVE Spec => []SomethingToSchedule`
* `SchedulerAssertionsHold == ASSUME` all four and `FiniteRequests PROVE Spec => []AssertionsHold`.

`Spelled` says that a request's list of hashes is the one its context spells out: none before
the merge, and from the merge on one that reaches behind the documents. This is where a query
must fill a block, as otherwise vLLM hashes the first full block behind the documents without
their seed. `Truthful` says that the blocks of every request hold the state of its context up
to where it is computed, together with `CacheSound`, and that whoever runs has its documents
merged and computed. One step adds blocks to one request: the hits hold the right state because
`CacheSound` says so of the hash they were found under and `Spelled` says that this is the hash
of the context (`HitReaches`, `AttemptSpells`); the fresh ones because what is written is computed from blocks that
are right (`WroteTrue`), which for a document needs that it is alone in front of itself, and for a
query that its documents are whole in the cache. Nobody else is touched, as `Writes` keeps
unfinished blocks exclusive. For `TypeOK` one thing had to be proved that is not a type of
the code: whatever is computed has a key or is `Poison` (`Typed`), which holds because only merged
requests run. For the refinement, each action is one of `Rehash`, `Allocate`, `Free`, `Finish` or
a stutter (`CacheRun`, `CacheAttempt`, `CacheRest`); the contract registers a block only under the
state computed into it, so this needs what `CacheSound` needs. `KVCacheProofs` is instantiated for
the scheduler's variables (`Contract`), so what it proves of the contract is a theorem about the
scheduler: `SchedulerHoldsBlocks`.

`SchedulerAdvances` is `assert num_new_tokens > 0` (scheduler.py:542) for any state of the cache;
`QueriesNonEmpty == \A r \in Request : Prompt[r] # <<>>` is needed (`empty_query`). For the other
assertions `Wanting` says that who runs and was granted nothing has something left to compute,
and `Spent` that the tokens granted are what is missing of the budget. The sum is the fold
`SumFunction` of the community modules: that its recursion has a solution over any finite set,
and how a sum changes with one value, is shown by induction up to a number (`SumsExist`,
`SumOfChange`), which is why `FiniteRequests == IsFiniteSet(Request)` is assumed there.

Only model-checked are the liveness properties, as TLAPS does not prove liveness under
fairness or reason about `ENABLED`. The safety properties of the runs that expect a violation
are refuted by them; under the conditions named above those of the scheduler are theorems.

Recursive operators are kept out of all modules.

## 5. Not modelled

* Encoder inputs and multi-modal prompts, LoRA, the KV connector, speculative tokens:
  vLLM features that the document path refuses or that copy vLLM's code.
* The priority policy: only FCFS, the default. `prepend_request` means something else
  there, see the hazard at `scheduler.py:237`.
* The clamp to `max_model_len` (186-188). It is `min(n, max_model_len - computed)`, and without
  speculative tokens it binds only for a request that is longer than `max_model_len`.
  `update_from_output` ends a request when it has `max_model_len` tokens, and a merged
  prompt that is longer, which nothing refuses (`processor.py:261` validates the query alone), ends
  the engine core in the step that first schedules it from the waiting queue: the runner puts the whole prompt and its metadata
  into rows of `max_model_len` tokens (`gpu_model_runner.py:88, 224-226`). So no request that the
  clamp would shorten reaches the loop over `running`. That such a prompt stops the engine is
  outside of the model; its hazard is at `processor.py:199`.
* The branch that skips a running request
  with nothing to schedule (199-211), which without pipeline parallelism and encoder
  inputs is not reached.
* Several KV cache groups, in the scheduler and in the runner, and the zero offsets of the MEPIC variant.
* Numerics: trigonometry, dtypes, fp8 scales, ALiBi, soft caps, and the decode kernel's
  `IGNORE_Q_MASK`, an ablation switch that attends the padding on purpose.
* The kernels of the MEPIC variant, which rotate in the kernel and read `q_mask` for every
  row. There a plain request reads the stale metadata described under ModelRunner.
* `backends/flash_attn.py` but for its metadata class: the program runs the Triton backend.
  With local attention (`use_irope`) no packed table is built; no model of the repository
  sets it.
* Collisions of hashes, and the timing of GPU kernels within a step: a block is
  computed when it is allocated.
* What a client does after its call has ended. The id of a cancelled call can be used again
  while outputs of the first are on their way, which then reach the second: vLLM's output
  processor tells ids apart and not calls. A call that fails with an exception other than
  a `ValueError` aborts its id, also when that id is another call's (async_llm.py:224-225).
  No scenario of `frontend` does either. A generator closed at a yield
  is not aborted; its request runs to its end.
* `process_input_socket` of `LazyEngineCoreProc` (core.py:121-152): vLLM 0.9.2, which the
  repository installs, starts `process_input_sockets`.
* Contexts mixed with `apply_all_patches`, and, in the runs (`MaxDepth = 1`), contexts inside
  each other; leaving an inner one reverts the outer one's patches too, as there is one record.
  The theorems about `PatchRegistry` hold for any `MaxDepth`. `VLLM_ATTENTION_BACKEND`, which
  `clear_attention_backend` removes although the user may have set it; the launch hook of the
  pip package.
* The scheduler and runner of block attention: an engine process replaces them by the lazy
  ones (run `block_engine`), and in the process of the program the scheduler puts a plain
  deque in the place of vLLM's request queue (`block_attn_vllm/scheduler.py:112`), which the
  `schedule()` it then calls cannot use.
* Logging, statistics, benchmarks.

## 6. What the code does and its text does not say

* `alias`. `docs/design.md:155-157` says that equal queries behind different
  documents do not alias. They do when the query is shorter than a block: the block
  it fills by generating is hashed by vLLM's `cache_full_blocks` from the last
  document's own hash, as the seeded replacement in `lazy/core/block_pool.py` is not
  among the patches that are installed.
* `drop_first`. With `MEPIC_FIRST_BLOCK_RECOMPUTE` the first hit of a document is cut
  off and the rest moves forward; what is computed behind it is registered under the
  canonical hashes.
* `guided_docs`. A guided request with documents is accepted; its document requests
  inherit the wait for a grammar nobody compiles for them, and `schedule()` spawns
  them without end. No other call of that engine ends then either (`Stuck` in `Frontend`).
* `empty_query`. The first token of a query with documents is dropped after the prompt
  was validated. A query of only a BOS token becomes empty, its documents are the whole
  prompt, and once they are cached `assert num_new_tokens > 0` (scheduler.py:542) fails
  in the engine core. `AssertionsHold` has this assertion as a conjunct and holds where
  queries are not empty.
* `empty_document`. A document that has no token left after its BOS is dropped erases
  the mask of the document before it.
* `block_engine`. A program that imports `block_attn_vllm` gets, in an engine process of its
  own, the lazy scheduler and runner instead of the block-attention ones: the process applies all
  patches again, with their default scheduler.

Each is a run whose counterexample is the evidence; `PROJECT.json` quotes the lines.

Met without a run of their own, with the line of a `.cfg` that shows them:

* `docs/design.md:511` says that `revert_all_patches()` restores stock vLLM in place. After
  `import block_attn_vllm.__vllm__` it does not: `BlockPool.cache_full_blocks` is assigned past the
  registry (`block_attn_vllm/__vllm__.py:25`). `PROPERTY RevertsInPlace` in `Patches.cfg` is
  violated; `RevertRestores` says what does come back.
* `docs/usage.md:42-45` says that the context arranges for the engine-core subprocess to apply the
  attention patches. The function it installs for that requires a keyword `ready_pipe`
  (`ctxmgr.py:12`), which vLLM 0.9.2 does not pass (`core.py:59-62`, written for it, has none): an
  engine process that is started inside a context raises `TypeError`. `INVARIANT KernelsFollow` in
  `Patches.cfg` is violated.
* `entrypoints/llm.py:106-108` promises outputs in the order of the input prompts. The prompts that a
  refused batch left registered answer in the next call, sort before its own, and shift them.
  `INVARIANT AnswersInOrder` in `Frontend.cfg` is violated. `BatchComplete` says what does hold: none
  of its own is missing, and none is answered twice.
* With `long_prefill_token_threshold` below a document's length a running document is requested a
  second time under the same id in the same call: `GuidedDocs.cfg` with `Threshold = 2` and no guided
  request.
* `lazy_attn/tests/utils.py:56` names a revert function without calling it.

## 7. Plan

Done in this order: `KVCache` and `LazyScheduler`; the metadata and the decode kernel;
`ModelRunner`; the prefill kernel as a second reader of the same metadata
(`LazyAttention`); admission, both engines and the batch entry point (`Frontend`);
`PatchRegistry`. Left, should the code grow there:

1. The MEPIC kernels as a third reader in `LazyAttention`, with the rows of other requests.
2. `BlockAttn`: the deferring scheduler, copies and references, once it can run.
3. `ModelRunner` with several KV cache groups, which share the set of delta rows.
