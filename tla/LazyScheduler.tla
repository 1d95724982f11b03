--------------------------- MODULE LazyScheduler ---------------------------
(***************************************************************************)
(* LazyScheduler.schedule (lazy/core/sched/scheduler.py) with the part of   *)
(* LazyRequest and LazyKVCacheManager it drives: requests with documents,   *)
(* the document requests spawned for them, the prefix cache they meet in,   *)
(* preemption, and the engine step that follows each schedule().            *)
(*                                                                         *)
(* schedule() is one call, but it is modelled one loop iteration at a time: *)
(* pc says which loop the call is in.  Nothing else runs between two        *)
(* iterations but the compilation of a grammar, as the engine core is one   *)
(* thread.                                                                  *)
(*                                                                         *)
(* Tokens are integers; a hash is the token sequence it is taken over,      *)
(* together with the documents that seed its chain (see KVCache).           *)
(***************************************************************************)
EXTENDS Integers, Sequences, FiniteSets, SequencesExt

CONSTANTS
  Request,      \* users' requests
  Docs,         \* documents_token_ids_padded of each; <<>> when it has none
  Prompt,       \* the tokens of each one's query
  MaxTokens,    \* sampling_params.max_tokens of each
  Guided,       \* the requests with sampling_params.guided_decoding
  Abortable,    \* the requests whose client may disconnect
  GenToken,     \* the token the model samples
  NumBlocks,    \* KV blocks in the pool
  BlockSize,    \* tokens per block
  TokenBudget,  \* max_num_scheduled_tokens
  MaxRunning,   \* max_num_running_reqs
  Threshold,    \* long_prefill_token_threshold, 0 when off
  DropFirst,    \* IS_MEPIC and MEPIC_FIRST_BLOCK_RECOMPUTE
  NoKey,        \* an unregistered block
  Poison        \* state computed in a context no hash stands for

(* What a block's state can be the encoding of: tokens, and the documents that  *)
(* seed their hash chain.                                                     *)
Key == [docs : Seq(Seq(Int)), toks : Seq(Int)]

ASSUME SchedulerAssumption ==
    /\ NumBlocks \in Nat /\ BlockSize \in Nat \ {0} /\ TokenBudget \in Nat \ {0}
    /\ MaxRunning \in Nat \ {0} /\ Threshold \in Nat /\ DropFirst \in BOOLEAN
    /\ Guided \subseteq Request /\ Abortable \subseteq Request /\ GenToken \in Int
    /\ Docs \in [Request -> Seq(Seq(Int))] /\ Prompt \in [Request -> Seq(Int)]
    /\ MaxTokens \in [Request -> Nat \ {0}]
    /\ \A r \in Request : /\ Prompt[r] = <<>> => Docs[r] # <<>>
                          /\ \A d \in DOMAIN Docs[r] : Len(Docs[r][d]) % BlockSize = 0
    /\ NoKey \notin Key /\ Poison \notin Key \cup {NoKey}

VARIABLES
  waiting, running,  \* the two queues, as sequences of ids
  skipped,           \* skipped_waiting_requests of the current schedule()
  tracked,           \* the keys of self.requests
  status,            \* RequestStatus; "ABSENT" before the request exists
  computed,          \* num_computed_tokens
  out,               \* the number of output tokens
  merged,            \* documents_merged
  grammar,           \* the requests whose grammar is compiled
  table, hashes, blockHash, content,   \* see KVCache
  free,              \* the free queue of the block pool, next block first
  pc,                \* "idle", or where the engine step is
  idx,               \* req_index: the position in running
  budget,            \* token_budget
  preempted,         \* whether preempted_reqs is not empty
  scheduled          \* num_scheduled_tokens of this step; 0 for absent

queueVars == <<waiting, running, skipped, tracked>>
reqVars   == <<status, computed, out, merged>>
kvVars    == <<table, hashes, blockHash, content, free>>
stepVars  == <<pc, idx, budget, preempted, scheduled>>
vars      == <<queueVars, reqVars, grammar, kvVars, stepVars>>

-----------------------------------------------------------------------------
(* The entries of s that are in S, in their order: SelectSeq, as a recursive   *)
(* function.                                                                  *)
Only(s, S) ==
    LET kept[n \in 0..Len(s)] ==
            IF n = 0 THEN <<>>
            ELSE IF s[n] \in S THEN Append(kept[n - 1], s[n]) ELSE kept[n - 1]
    IN  kept[Len(s)]

Positions(s) == [i \in 1..Len(s) |-> i]

(* Requests.                                                                  *)

User(r) == <<r, 0>>
Users == {User(r) : r \in Request}

(* document_request: the id of the d-th document of request id.               *)
DocId(id, d) == <<id[1], d>>

Id == Users \cup UNION {{DocId(User(r), d) : d \in DOMAIN Docs[r]} : r \in Request}

IsDoc(id) == id[2] > 0
DocsOf(id) == IF IsDoc(id) THEN <<>> ELSE Docs[id[1]]
HasDocs(id) == DocsOf(id) # <<>>
PromptOf(id) == IF IsDoc(id) THEN Docs[id[1]][id[2]] ELSE Prompt[id[1]]
MaxOut(id) == IF IsDoc(id) THEN 1 ELSE MaxTokens[id[1]]

(* all_token_ids, before (m = FALSE) and after merge_documents.               *)
Tokens(id, m) == (IF m THEN FlattenSeq(DocsOf(id)) ELSE <<>>)
                    \o PromptOf(id) \o [i \in 1..out[id] |-> GenToken]
NumTokens(id) == Len(Tokens(id, merged[id]))
DocLen(id, m) == IF m THEN Len(FlattenSeq(DocsOf(id))) ELSE 0

(* A request starts out waiting, for its grammar when it is guided.  A        *)
(* document request inherits guided_decoding with the sampling parameters.    *)
NewStatus(id) == IF id[1] \in Guided THEN "WAITING_FOR_FSM" ELSE "WAITING"

(* structured_output_request.grammar; a document request has none.            *)
GrammarDone(id) == ~IsDoc(id) /\ id[1] \in grammar

-----------------------------------------------------------------------------
(* Hashes and cache lookups.                                                  *)

Block == 1..NumBlocks
CeilDiv(a, b) == (a + b - 1) \div b

(* Mutant of HashChain: the documents in front of a query do not seed it.     *)
HashChainUnseeded(seed, toks) ==
    [i \in 1..(Len(toks) \div BlockSize) |->
        [docs |-> <<>>, toks |-> SubSeq(toks, 1, i * BlockSize)]]

(* hash_request_tokens (seed <<>>) and hash_request_tokens_with_doc_hash.     *)
HashChain(seed, toks) ==
    [i \in 1..(Len(toks) \div BlockSize) |->
        [docs |-> seed, toks |-> SubSeq(toks, 1, i * BlockSize)]]

(* hash_request_tokens_docs: each document from None, as its own request.     *)
DocHashes(id) == [d \in DOMAIN DocsOf(id) |-> HashChain(<<>>, DocsOf(id)[d])]

(* get_computed_blocks computes a request's hashes once and keeps them.       *)
HashesOf(id) == IF hashes[id] # <<>> THEN hashes[id]
                ELSE HashChain(DocsOf(id), Tokens(id, merged[id]))

Cached(k) == \E b \in Block : blockHash[b] = k

(* find_longest_cache_hit, as the hashes of the blocks it returns.            *)
LongestHit(hs, maxTokens) ==
    LET n == Min({Len(hs), maxTokens \div BlockSize})
        miss == {i \in 1..n : ~Cached(hs[i])}
    IN  SubSeq(hs, 1, IF miss = {} THEN n ELSE Min(miss) - 1)

(* Mutant of IsDocReady: a document is capped one token short like a query.   *)
IsDocReadyCapped(id, d) ==
    LET doc == DocsOf(id)[d]
    IN  Len(LongestHit(DocHashes(id)[d], Len(doc) - 1)) * BlockSize = Len(doc)

IsDocReady(id, d) ==
    LET doc == DocsOf(id)[d]
    IN  Len(LongestHit(DocHashes(id)[d], Len(doc))) * BlockSize = Len(doc)

MissingDocs(id) == {d \in DOMAIN DocsOf(id) : ~IsDocReady(id, d)}

(* get_computed_blocks: only a document may be served whole from the cache.   *)
OwnHit(id) ==
    LET n == NumTokens(id)
    IN  LongestHit(HashesOf(id), IF IsDoc(id) THEN n ELSE n - 1)

(* Mutant of DocsHit: the hits are put in front one by one, first one first.  *)
DocsHitBackwards(id) ==
    FlattenSeq(Reverse([d \in DOMAIN DocsOf(id) |->
        LongestHit(DocHashes(id)[d], Len(DocsOf(id)[d]))]))

(* get_computed_blocks_docs, with the first hit block of each document        *)
(* dropped when its recomputation is asked for.                               *)
DocsHit(id) ==
    FlattenSeq([d \in DOMAIN DocsOf(id) |->
        LET hit == LongestHit(DocHashes(id)[d], Len(DocsOf(id)[d]))
        IN  IF DropFirst /\ hit # <<>> THEN Tail(hit) ELSE hit])

(* Every choice of cached blocks for a list of hashes: several blocks can be  *)
(* registered under one hash, and which of them is returned is left open.     *)
BlocksWith(keys) ==
    LET choices[n \in 0..Len(keys)] ==
            IF n = 0 THEN {<<>>}
            ELSE {Append(s, b) : s \in choices[n - 1],
                                 b \in {c \in Block : blockHash[c] = keys[n]}}
    IN  choices[Len(keys)]

-----------------------------------------------------------------------------
(* What the model computes into the blocks.                                   *)

(* The state position p of a request is meant to have: a document on its own, *)
(* the query behind all documents.                                            *)
TrueKey(id, m, p) ==
    LET n == DocLen(id, m)
        End(d) == Len(FlattenSeq(SubSeq(DocsOf(id), 1, d)))
    IN  IF p > n
        THEN [docs |-> IF m THEN DocsOf(id) ELSE <<>>, toks |-> SubSeq(Tokens(id, m), n + 1, p)]
        ELSE LET d == CHOOSE e \in DOMAIN DocsOf(id) : End(e - 1) < p /\ p <= End(e)
             IN  [docs |-> <<>>, toks |-> SubSeq(Tokens(id, m), End(d - 1) + 1, p)]

(* What is computed into the i-th block of table t when positions from+1..upto *)
(* run.  Attention reads every block before it, so the state is the meant one *)
(* only if they all hold what they should; and a merged prompt is prefilled   *)
(* as one stream, so a document behind the first would see its predecessors.  *)
ComputedState(id, m, t, from, upto, i) ==
    IF /\ \A j \in 1..CeilDiv(from, BlockSize) :
              content[t[j]] = TrueKey(id, m, Min({j * BlockSize, from}))
       /\ \/ from >= DocLen(id, m)
          \/ i * BlockSize <= Len(DocsOf(id)[1])
    THEN TrueKey(id, m, Min({i * BlockSize, upto}))
    ELSE Poison

-----------------------------------------------------------------------------
(* allocate_slots and free.                                                   *)

OtherBlocks(id) == UNION {Range(table[j]) : j \in Id \ {id}}

NewBlocks(id, hits, upto) ==
    Max({0, CeilDiv(upto, BlockSize) - Len(hits) - Len(table[id])})

(* The blocks to take, and the hits that leave the free queue, must fit in it. *)
CanAllocate(id, hits, upto) ==
    NewBlocks(id, hits, upto) + Cardinality({i \in DOMAIN hits : hits[i] \in Range(free)})
        <= Len(free)

(* cache_full_blocks (vLLM's own: the replacement in lazy/core/block_pool.py  *)
(* is not installed) hashes blocks its list does not reach yet in one chain   *)
(* from the last hash of the list.                                            *)
ExtendHashes(hs, toks, full) ==
    LET n == Len(hs)
        last == IF n = 0 THEN [docs |-> <<>>, toks |-> <<>>] ELSE hs[n]
    IN  hs \o [i \in 1..Max({0, full - n}) |->
                  [docs |-> last.docs,
                   toks |-> last.toks \o SubSeq(toks, n * BlockSize + 1, (n + i) * BlockSize)]]

(* Request id, whose tokens up to `from` are computed, gets slots for the     *)
(* tokens up to `upto`, and these are run.                                    *)
Allocate(id, m, hs, hits, from, upto) ==
    LET n == NewBlocks(id, hits, upto)
        rest == Only(free, Block \ Range(hits))
        fresh == SubSeq(rest, 1, n)
        t == table[id] \o hits \o fresh
        full == upto \div BlockSize
        h == ExtendHashes(hs, Tokens(id, m), full)
        registered == (from \div BlockSize) + 1 .. full
        written == (from \div BlockSize) + 1 .. CeilDiv(upto, BlockSize)
        At(b, S) == CHOOSE i \in S : t[i] = b
        Among(b, S) == \E i \in S : t[i] = b
    IN  /\ free' = SubSeq(rest, n + 1, Len(rest))
        /\ table' = [table EXCEPT ![id] = t]
        /\ hashes' = [hashes EXCEPT ![id] = h]
        /\ blockHash' = [b \in Block |->
              IF Among(b, registered) THEN h[At(b, registered)]
              ELSE IF b \in Range(fresh) THEN NoKey ELSE blockHash[b]]
        /\ content' = [b \in Block |->
              IF Among(b, written)
              THEN ComputedState(id, m, t, from, upto, At(b, written))
              ELSE content[b]]

(* Mutant of FreeBlocks: a block the table names twice is given back twice.   *)
FreeBlocksTwice(id) ==
    /\ free' = free \o Reverse(Only(table[id], Block \ OtherBlocks(id)))
    /\ table' = [table EXCEPT ![id] = <<>>]

(* Blocks are given back last first; those nobody else holds join the queue.  *)
FreeBlocks(id) ==
    LET t == table[id]
        own == Only(Positions(t), {i \in 1..Len(t) : /\ t[i] \notin OtherBlocks(id)
                                                     /\ \A j \in 1..i-1 : t[j] # t[i]})
    IN  /\ free' = free \o Reverse([k \in 1..Len(own) |-> t[own[k]]])
        /\ table' = [table EXCEPT ![id] = <<>>]

-----------------------------------------------------------------------------
Init ==
    /\ waiting = <<>> /\ running = <<>> /\ skipped = <<>> /\ tracked = {}
    /\ status = [id \in Id |-> "ABSENT"]
    /\ computed = [id \in Id |-> 0]
    /\ out = [id \in Id |-> 0]
    /\ merged = [id \in Id |-> FALSE]
    /\ grammar = {}
    /\ table = [id \in Id |-> <<>>]
    /\ hashes = [id \in Id |-> <<>>]
    /\ blockHash = [b \in Block |-> NoKey]
    /\ content = [b \in Block |-> NoKey]
    /\ free = [b \in Block |-> b]
    /\ pc = "idle" /\ idx = 1 /\ budget = 0 /\ preempted = FALSE
    /\ scheduled = [id \in Id |-> 0]

(* The engine receives a user's request: add_request, at the tail.            *)
AddRequest(r) ==
    /\ pc = "idle"
    /\ status[User(r)] = "ABSENT"
    /\ status' = [status EXCEPT ![User(r)] = NewStatus(User(r))]
    /\ waiting' = Append(waiting, User(r))
    /\ tracked' = tracked \cup {User(r)}
    /\ UNCHANGED <<running, skipped, computed, out, merged, grammar, kvVars, stepVars>>

(* The structured-output manager finishes a grammar, on its own thread.       *)
CompileGrammar(r) ==
    /\ r \in Guided \ grammar
    /\ User(r) \in tracked
    /\ grammar' = grammar \cup {r}
    /\ UNCHANGED <<queueVars, reqVars, kvVars, stepVars>>

(* Mutant of Retire: the request stays in self.requests.                      *)
RetireTracked(id) ==
    /\ status' = [status EXCEPT ![id] = "FINISHED"]
    /\ FreeBlocks(id)
    /\ hashes' = [hashes EXCEPT ![id] = <<>>]
    /\ UNCHANGED <<tracked, blockHash, content>>

(* A request leaves the engine, finished or aborted.                          *)
Retire(id) ==
    /\ status' = [status EXCEPT ![id] = "FINISHED"]
    /\ tracked' = tracked \ {id}
    /\ FreeBlocks(id)
    /\ hashes' = [hashes EXCEPT ![id] = <<>>]
    /\ UNCHANGED <<blockHash, content>>

(* finish_requests: a client disconnects.  Only the id it knows is aborted,   *)
(* not the document requests spawned for it.                                  *)
Abort(r) ==
    /\ pc = "idle"
    /\ r \in Abortable
    /\ User(r) \in tracked
    /\ waiting' = Only(waiting, Id \ {User(r)})
    /\ running' = Only(running, Id \ {User(r)})
    /\ Retire(User(r))
    /\ UNCHANGED <<skipped, computed, out, merged, grammar, stepVars>>

-----------------------------------------------------------------------------
(* schedule().                                                                *)

StartSchedule ==
    /\ pc = "idle"
    /\ waiting # <<>> \/ running # <<>>
    /\ pc' = "running" /\ idx' = 1 /\ budget' = TokenBudget
    /\ UNCHANGED <<queueVars, reqVars, grammar, kvVars, preempted, scheduled>>

(* Mutant of NumNew: the token budget is forgotten for long prompts.          *)
NumNewUncapped(missing) == IF Threshold > 0 THEN Min({missing, Threshold}) ELSE missing

(* How many of the tokens a request lacks are scheduled now.                  *)
NumNew(missing) ==
    Min({missing, budget, IF Threshold > 0 THEN Threshold ELSE missing})

RunningHead == running[idx]

(* The clamp to max_model_len (scheduler.py:186-188) never binds here: a        *)
(* request ends when it has max_model_len tokens, and a merged prompt that is  *)
(* longer stops the engine in the step that first schedules it, before it is   *)
(* taken up by this loop.                                                      *)
RunningUpto == computed[RunningHead] + NumNew(NumTokens(RunningHead) - computed[RunningHead])
InRunningLoop == pc = "running" /\ idx <= Len(running) /\ budget > 0

(* The next running request gets slots for its next tokens.                   *)
RunningSchedule ==
    /\ InRunningLoop
    /\ CanAllocate(RunningHead, <<>>, RunningUpto)
    /\ Allocate(RunningHead, merged[RunningHead], hashes[RunningHead], <<>>,
                computed[RunningHead], RunningUpto)
    /\ scheduled' = [scheduled EXCEPT ![RunningHead] = RunningUpto - computed[RunningHead]]
    /\ budget' = budget - (RunningUpto - computed[RunningHead])
    /\ idx' = idx + 1
    /\ UNCHANGED <<queueVars, reqVars, grammar, pc, preempted>>

(* It does not: the last running request is preempted.  The loop goes on      *)
(* trying unless the victim is the request itself.                            *)
RunningPreempt ==
    /\ InRunningLoop
    /\ ~CanAllocate(RunningHead, <<>>, RunningUpto)
    /\ LET victim == Last(running)
       IN  /\ FreeBlocks(victim)
           /\ status' = [status EXCEPT ![victim] = "PREEMPTED"]
           /\ computed' = [computed EXCEPT ![victim] = 0]
           /\ running' = Front(running)
           /\ waiting' = <<victim>> \o waiting
           /\ pc' = IF victim = RunningHead THEN "finish" ELSE "running"
    /\ preempted' = TRUE
    /\ UNCHANGED <<skipped, tracked, out, merged, grammar, hashes, blockHash, content,
                   idx, budget, scheduled>>

(* Waiting requests are looked at only if nothing was preempted.              *)
EndRunning ==
    /\ pc = "running" /\ ~InRunningLoop
    /\ pc' = IF preempted THEN "finish" ELSE "waiting"
    /\ UNCHANGED <<queueVars, reqVars, grammar, kvVars, idx, budget, preempted, scheduled>>

InWaitingLoop == /\ pc = "waiting" /\ waiting # <<>> /\ budget > 0
                 /\ Len(running) # MaxRunning

NeedsGrammar(id) == status[id] = "WAITING_FOR_FSM" /\ ~GrammarDone(id)

(* A request that waits for its grammar is set aside for this schedule().     *)
SkipForGrammar ==
    /\ InWaitingLoop
    /\ NeedsGrammar(Head(waiting))
    /\ waiting' = Tail(waiting)
    /\ skipped' = <<Head(waiting)>> \o skipped
    /\ UNCHANGED <<running, tracked, reqVars, grammar, kvVars, stepVars>>

(* The status after the grammar check.                                        *)
Cleared(id) == IF status[id] = "WAITING_FOR_FSM" THEN "WAITING" ELSE status[id]

(* Mutant of Enqueued: add_request without left=True.                         *)
EnqueuedLast(reqs) == waiting \o reqs

(* add_request with left=True for each of reqs in turn.                       *)
Enqueued(reqs) == Reverse(reqs) \o waiting

(* is_doc_ready fails for some documents of the head: each is requested, in   *)
(* front of it and of everything else, and the loop goes on with them.        *)
SpawnDocuments ==
    /\ InWaitingLoop
    /\ LET id == Head(waiting)
           missing == Only(Positions(DocsOf(id)), MissingDocs(id))
           spawned == {DocId(id, d) : d \in MissingDocs(id)}
       IN  /\ ~NeedsGrammar(id) /\ MissingDocs(id) # {}
           /\ waiting' = Enqueued([k \in 1..Len(missing) |-> DocId(id, missing[k])])
           /\ tracked' = tracked \cup spawned
           /\ status' = [j \in Id |-> IF j \in spawned THEN NewStatus(j)
                                      ELSE IF j = id THEN Cleared(id) ELSE status[j]]
           /\ computed' = [j \in Id |-> IF j \in spawned THEN 0 ELSE computed[j]]
           /\ out' = [j \in Id |-> IF j \in spawned THEN 0 ELSE out[j]]
    /\ UNCHANGED <<running, skipped, merged, grammar, kvVars, stepVars>>

(* The head gets as far as the cache lookup.                                  *)
AtLookup(id) ==
    /\ InWaitingLoop /\ id = Head(waiting)
    /\ ~NeedsGrammar(id) /\ MissingDocs(id) = {}

FullyCachedDoc(id) == IsDoc(id) /\ Len(OwnHit(id)) * BlockSize = NumTokens(id)

(* Case 1.1: a document that got cached meanwhile is dropped from the queue.  *)
DropCachedDocument ==
    \E id \in Id :
       /\ AtLookup(id) /\ FullyCachedDoc(id)
       /\ hashes' = [hashes EXCEPT ![id] = HashesOf(id)]
       /\ waiting' = Tail(waiting)
       /\ UNCHANGED <<running, skipped, tracked, reqVars, grammar,
                      table, blockHash, content, free, stepVars>>

(* Mutants: a preempted request merges again; the hashes of the documents are *)
(* put behind the query's.                                                    *)
JustMergesAlways(id) == HasDocs(id)
AttemptHashesBehind(id) ==
    IF HasDocs(id) /\ ~merged[id] THEN HashesOf(id) \o FlattenSeq(DocHashes(id))
    ELSE HashesOf(id)

(* The scheduling attempt: the merge, which happens once, puts the documents' *)
(* tokens, hits and hashes in front of the query's.                           *)
JustMerges(id) == HasDocs(id) /\ ~merged[id]
AttemptHashes(id) == IF JustMerges(id) THEN FlattenSeq(DocHashes(id)) \o HashesOf(id)
                     ELSE HashesOf(id)
AttemptHit(id) == IF JustMerges(id) THEN DocsHit(id) \o OwnHit(id) ELSE OwnHit(id)
AttemptFrom(id) == Len(AttemptHit(id)) * BlockSize
AttemptUpto(id) ==
    AttemptFrom(id) + NumNew(Len(Tokens(id, HasDocs(id))) - AttemptFrom(id))

Attempts(id) == AtLookup(id) /\ ~FullyCachedDoc(id)

(* allocate_slots finds no room: the loop ends, the merge stays done.         *)
AttemptFails ==
    \E id \in Id :
       /\ Attempts(id)
       /\ \E hits \in BlocksWith(AttemptHit(id)) : ~CanAllocate(id, hits, AttemptUpto(id))
       /\ merged' = [merged EXCEPT ![id] = HasDocs(id)]
       /\ hashes' = [hashes EXCEPT ![id] = AttemptHashes(id)]
       /\ status' = [status EXCEPT ![id] = Cleared(id)]
       /\ pc' = "finish"
       /\ UNCHANGED <<queueVars, computed, out, grammar, table, blockHash, content, free,
                      idx, budget, preempted, scheduled>>

AttemptSucceeds ==
    \E id \in Id :
       /\ Attempts(id)
       /\ \E hits \in BlocksWith(AttemptHit(id)) :
             /\ CanAllocate(id, hits, AttemptUpto(id))
             /\ Allocate(id, HasDocs(id), AttemptHashes(id), hits,
                         AttemptFrom(id), AttemptUpto(id))
       /\ merged' = [merged EXCEPT ![id] = HasDocs(id)]
       /\ status' = [status EXCEPT ![id] = "RUNNING"]
       /\ computed' = [computed EXCEPT ![id] = AttemptFrom(id)]
       /\ waiting' = Tail(waiting)
       /\ running' = Append(running, id)
       /\ scheduled' = [scheduled EXCEPT ![id] = AttemptUpto(id) - AttemptFrom(id)]
       /\ budget' = budget - (AttemptUpto(id) - AttemptFrom(id))
       /\ UNCHANGED <<skipped, tracked, out, grammar, pc, idx, preempted>>

(* Mutant of PutBack: requests that were set aside are lost.                  *)
PutBackNone == waiting

(* prepend_requests(skipped_waiting_requests).                                *)
PutBack == skipped \o waiting

(* The loop is over: what was set aside goes back to the head, and the        *)
(* scheduled tokens count as computed.                                        *)
FinishSchedule ==
    /\ pc = "finish" \/ (pc = "waiting" /\ ~InWaitingLoop)
    /\ waiting' = PutBack
    /\ skipped' = <<>>
    /\ computed' = [id \in Id |-> computed[id] + scheduled[id]]
    /\ pc' = "update" /\ idx' = 1
    /\ UNCHANGED <<running, tracked, status, out, merged, grammar, kvVars,
                   budget, preempted, scheduled>>

-----------------------------------------------------------------------------
(* The model runs and update_from_output takes its tokens: a request all of   *)
(* whose tokens are computed samples one, and may finish with it.             *)

Samples(id) == scheduled[id] > 0 /\ computed[id] >= NumTokens(id)

KeepRunning ==
    /\ pc = "update" /\ idx <= Len(running)
    /\ LET id == running[idx]
       IN  /\ Samples(id) => out[id] + 1 < MaxOut(id)
           /\ out' = IF Samples(id) THEN [out EXCEPT ![id] = @ + 1] ELSE out
    /\ idx' = idx + 1
    /\ UNCHANGED <<queueVars, status, computed, merged, grammar, kvVars,
                   pc, budget, preempted, scheduled>>

(* A stop token or max_tokens: the request finishes.                          *)
FinishRequest ==
    /\ pc = "update" /\ idx <= Len(running)
    /\ LET id == running[idx]
       IN  /\ Samples(id)
           /\ out' = [out EXCEPT ![id] = @ + 1]
           /\ Retire(id)
    /\ running' = RemoveAt(running, idx)
    /\ UNCHANGED <<waiting, skipped, computed, merged, grammar, stepVars>>

EndUpdate ==
    /\ pc = "update" /\ idx > Len(running)
    /\ pc' = "idle" /\ idx' = 1 /\ budget' = 0 /\ preempted' = FALSE
    /\ scheduled' = [id \in Id |-> 0]
    /\ UNCHANGED <<queueVars, reqVars, grammar, kvVars>>

Schedule == \/ StartSchedule \/ RunningSchedule \/ RunningPreempt \/ EndRunning
            \/ SkipForGrammar \/ SpawnDocuments \/ DropCachedDocument
            \/ AttemptFails \/ AttemptSucceeds \/ FinishSchedule
Update == KeepRunning \/ FinishRequest \/ EndUpdate

(* The engine has work while it is in a step or holds a request; a state where *)
(* it has none and everybody was served is the only one that may last.        *)
EngineBusy == pc # "idle" \/ waiting # <<>> \/ running # <<>>
Quiescent == /\ ~EngineBusy
             /\ \A r \in Request : status[User(r)] = "FINISHED"
             /\ UNCHANGED vars

Next == \/ Schedule \/ Update \/ Quiescent
        \/ \E r \in Request : AddRequest(r) \/ CompileGrammar(r) \/ Abort(r)

Spec == Init /\ [][Next]_vars

(* The engine loop keeps stepping while it has work.  This is                 *)
(* WF_vars(Schedule \/ Update) written out: the engine can step exactly when  *)
(* EngineBusy holds (the runs check that no busy state is a deadlock), and    *)
(* apart from a compilation only its steps happen inside a step or change pc. *)
EngineMoves == pc' # pc \/ (pc # "idle" /\ grammar' = grammar)
EngineFair == []<>~EngineBusy \/ []<><<EngineMoves>>_vars

(* And a compilation that was started ends.                                   *)
FairSpec == Spec /\ EngineFair /\ \A r \in Request : WF_vars(CompileGrammar(r))

-----------------------------------------------------------------------------
Queued == waiting \o skipped \o running

(* Types of the variables.                                                    *)
TypeOK ==
    /\ waiting \in Seq(Id) /\ running \in Seq(Id) /\ skipped \in Seq(Id)
    /\ tracked \subseteq Id /\ grammar \subseteq Guided
    /\ status \in [Id -> {"ABSENT", "WAITING", "WAITING_FOR_FSM", "RUNNING",
                          "PREEMPTED", "FINISHED"}]
    /\ computed \in [Id -> Nat] /\ out \in [Id -> Nat] /\ merged \in [Id -> BOOLEAN]
    /\ table \in [Id -> Seq(Block)] /\ hashes \in [Id -> Seq(Key)]
    /\ blockHash \in [Block -> Key \cup {NoKey}]
    /\ content \in [Block -> Key \cup {NoKey, Poison}]
    /\ free \in Seq(Block)
    /\ pc \in {"idle", "running", "waiting", "finish", "update"}
    /\ idx \in Nat \ {0} /\ budget \in 0..TokenBudget /\ preempted \in BOOLEAN
    /\ scheduled \in [Id -> 0..TokenBudget]

(* Every block is either held by some request or in the free queue, once:     *)
(* nothing leaks and nothing is handed out while it is held.                  *)
FreeQueueExact ==
    /\ Range(free) = Block \ UNION {Range(table[id]) : id \in Id}
    /\ Cardinality(Range(free)) = Len(free)

(* A block registered in the prefix cache holds the state its hash stands     *)
(* for, so that no request is served from another context's state.            *)
CacheSound == \A b \in Block : blockHash[b] # NoKey => content[b] = blockHash[b]

(* How far the tokens of a running request are computed, in the middle of a   *)
(* schedule() as well.                                                        *)
DoneUpto(id) == IF pc = "update" THEN computed[id] ELSE computed[id] + scheduled[id]

(* The table of a running request spells out its own context: its documents   *)
(* in order, each encoded on its own, then its query and output behind all of *)
(* them.  Merging, hits, chunking, preemption and resumption all meet here.   *)
TableSpellsContext ==
    \A id \in Range(running) :
       \A i \in 1..CeilDiv(DoneUpto(id), BlockSize) :
          content[table[id][i]] = TrueKey(id, merged[id], Min({i * BlockSize, DoneUpto(id)}))

(* A request is in one queue, in one place, with the status of that queue;    *)
(* only running requests hold blocks.                                         *)
LiveOnce ==
    /\ Cardinality(Range(Queued)) = Len(Queued)
    /\ \A id \in Id : /\ (status[id] = "RUNNING") = (id \in Range(running))
                      /\ table[id] # <<>> => id \in Range(running)

(* A document request that waits is ahead of the request it was spawned for:  *)
(* otherwise the parent, reached first, would spawn it again.                 *)
DocumentsAheadOfParent ==
    \A i, j \in 1..Len(waiting) :
       IsDoc(waiting[i]) /\ waiting[j] = User(waiting[i][1]) => i < j

(* scheduler.py:542, `assert num_new_tokens > 0`: an attempt has something to  *)
(* compute, however much of the request is found in the cache.                *)
SomethingToSchedule == \A id \in Id : Attempts(id) => AttemptUpto(id) > AttemptFrom(id)

(* The assertions of schedule(): a request that is tried has tokens left to   *)
(* compute and documents that are cached whole; the budget and the number of  *)
(* running requests are kept to.                                              *)
AssertionsHold ==
    /\ InRunningLoop => NumTokens(RunningHead) > computed[RunningHead]
    /\ SomethingToSchedule
    /\ \A id \in Id : Attempts(id) =>
          /\ Cleared(id) \in {"WAITING", "PREEMPTED"}
          /\ table[id] = <<>>
          /\ merged[id] => AttemptFrom(id) >= DocLen(id, TRUE)
    /\ pc = "finish" =>
          /\ SumFunction(scheduled) <= TokenBudget
          /\ Len(running) <= MaxRunning
          /\ Cardinality({id \in Id : scheduled[id] > 0}) <= Len(running)

(* self.requests forgets whoever finished or was aborted.  It may outlive     *)
(* only a document found cached before its turn came (Case 1.1), which leaves *)
(* the queue without finishing.                                               *)
TrackedAreLive ==
    \A id \in tracked :
       id \in Range(Queued) \/ (IsDoc(id) /\ status[id] \in {"WAITING", "PREEMPTED"})

(* docs/design.md:155-157: equal queries behind different documents must not   *)
(* alias.  What is registered under one hash is one state.                    *)
QueriesDoNotAlias ==
    \A b, c \in Block :
       blockHash[b] = blockHash[c] /\ blockHash[b] # NoKey => content[b] = content[c]

(* scheduler.py:436-445: never a poisoned cache, whatever the ablation.  No   *)
(* registered block holds a state computed in a context its hash leaves out.  *)
CacheNotPoisoned == \A b \in Block : blockHash[b] # NoKey => content[b] # Poison

(* scheduler.py:346-347: a document that is fully scheduled counts as ready,  *)
(* so that no document is requested while a request for it is queued.         *)
DocumentSpawnedOnce ==
    \A i, j \in 1..Len(Queued) : IsDoc(Queued[i]) /\ Queued[i] = Queued[j] => i = j

(* The blocks, hashes and tables move only as the KV cache contract allows.   *)
Cache == INSTANCE KVCache WITH
    Id <- Id, Block <- Block, Key <- Key, NoKey <- NoKey,
    table <- table, hashes <- hashes, blockHash <- blockHash, content <- content
ImplementsCache == Cache!Spec

(* Every request that was accepted is served in the end.                      *)
EveryRequestServed ==
    \A r \in Request : status[User(r)] # "ABSENT" ~> status[User(r)] = "FINISHED"
=============================================================================
