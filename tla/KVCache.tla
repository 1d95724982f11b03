------------------------------ MODULE KVCache ------------------------------
(***************************************************************************)
(* What the paged KV cache promises the scheduler: LazyKVCacheManager      *)
(* (lazy/core/kv_cache_manager.py) on top of vLLM's block pool.            *)
(*                                                                         *)
(* A block holds the attention state of BlockSize consecutive tokens.  What *)
(* that state is depends on everything those tokens attended to, so a full *)
(* block is named by a Key: the documents in front of the chain and all    *)
(* its tokens so far.  content[b] is the Key of the state that was really  *)
(* computed into b, a ghost of the model; blockHash[b] is the Key b is     *)
(* registered under in the prefix cache.  A hash is modelled as collision  *)
(* free, so a block hash and a Key are the same thing.                     *)
(*                                                                         *)
(* The module is the contract, not the algorithm: which unheld block is    *)
(* taken next (the LRU queue) and which blocks of a request are found in   *)
(* the cache are left open here and fixed in LazyScheduler, which is shown *)
(* to implement it.                                                        *)
(***************************************************************************)
EXTENDS Integers, Sequences

CONSTANTS Id,      \* request ids, of users' requests and of document requests
          Block,   \* physical KV blocks
          Key,     \* what a block's state can be the encoding of
          NoKey    \* an unregistered block; a block nothing was written to

ASSUME NoKeyAssumption == NoKey \notin Key

VARIABLES table,      \* req_to_blocks: the blocks of each request, in order
          hashes,     \* req_to_block_hashes: the keys its full blocks will have
          blockHash,  \* KVCacheBlock.block_hash of each block
          content     \* ghost: the state really computed into each block

vars == <<table, hashes, blockHash, content>>

-----------------------------------------------------------------------------
BlocksOf(id) == {table[id][i] : i \in DOMAIN table[id]}

Held == UNION {BlocksOf(id) : id \in Id}

(* Mutant of Unfinished: a request writes to the shared blocks of its table.  *)
UnfinishedAll(id) == BlocksOf(id)

(* The blocks of id that are not in the prefix cache yet: id writes to them. *)
Unfinished(id) == {b \in BlocksOf(id) : blockHash[b] = NoKey}

Extends(s, t) == Len(s) <= Len(t) /\ \A i \in 1..Len(s) : t[i] = s[i]

Init == /\ table = [id \in Id |-> <<>>]
        /\ hashes = [id \in Id |-> <<>>]
        /\ blockHash = [b \in Block |-> NoKey]
        /\ content = [b \in Block |-> NoKey]

OnlyTable(id, t) == table' = [table EXCEPT ![id] = t]

(* Mutant of OnlyHashes: dropped from the dictionary, not left empty.         *)
OnlyHashesPopped(id, h) ==
    hashes' = [who \in {w \in Id : w = id => h # <<>>} |-> IF who = id THEN h ELSE hashes[who]]

OnlyHashes(id, h) == hashes' = [hashes EXCEPT ![id] = h]

(* get_computed_blocks hashes a request that holds nothing, and the merge of  *)
(* its documents puts their hashes in front.                                  *)
Rehash(id) ==
    /\ table[id] = <<>>
    /\ hashes'[id] \in Seq(Key)
    /\ OnlyHashes(id, hashes'[id])
    /\ UNCHANGED <<table, blockHash, content>>

(* Mutants of FreshBlocks: a held block is taken; a block is taken twice.     *)
FreshThoughHeld(id, t, hit) ==
    \A i \in hit+1..Len(t) : \A j \in 1..Len(t) : t[i] = t[j] => i = j
FreshTwice(id, t, hit) ==
    \A i \in hit+1..Len(t) : t[i] \notin Held

(* The positions of t above `hit` get blocks nobody holds, each of them once. *)
FreshBlocks(id, t, hit) ==
    /\ \A i \in hit+1..Len(t) : t[i] \notin Held
    /\ \A i \in hit+1..Len(t) : \A j \in 1..Len(t) : t[i] = t[j] => i = j

(* The positions up to `hit` are cache hits: registered under the hash the    *)
(* request has there.                                                         *)
HitBlocks(t, h, hit) ==
    \A i \in 1..hit : i <= Len(h) /\ blockHash[t[i]] = h[i]

(* Only the request's own unfinished block and the fresh blocks are written;  *)
(* a block is registered under its request's hash for that position, and only *)
(* once that is what was computed into it.                                    *)
WrittenAt(t, W, h) ==
    /\ \A b \in Block \ W : blockHash'[b] = blockHash[b] /\ content'[b] = content[b]
    /\ \A i \in 1..Len(t) : t[i] \in W =>
          \/ blockHash'[t[i]] = NoKey
          \/ /\ i <= Len(h)
             /\ blockHash'[t[i]] = h[i]
             /\ content'[t[i]] = h[i]

(* allocate_slots: a request that holds nothing takes the cached blocks of a  *)
(* prefix, then every request takes as many unheld blocks as it needs.        *)
Allocate(id) ==
    /\ table'[id] \in Seq(Block)
    /\ hashes'[id] \in Seq(Key)
    /\ OnlyTable(id, table'[id])
    /\ OnlyHashes(id, hashes'[id])
    /\ Extends(table[id], table'[id])
    /\ table[id] # <<>> => Extends(hashes[id], hashes'[id])
    /\ blockHash' \in [Block -> Key \cup {NoKey}]
    /\ DOMAIN content' = Block
    /\ \E hit \in Len(table[id])..Len(table'[id]) :
          /\ hit > Len(table[id]) =>
                /\ table[id] = <<>>
                /\ HitBlocks(table'[id], hashes'[id], hit)
          /\ FreshBlocks(id, table'[id], hit)
          /\ WrittenAt(table'[id],
                       Unfinished(id) \cup {table'[id][i] : i \in hit+1..Len(table'[id])},
                       hashes'[id])

(* free: a preempted request gives its blocks back and keeps its hashes.      *)
Free(id) ==
    /\ OnlyTable(id, <<>>)
    /\ UNCHANGED <<hashes, blockHash, content>>

(* A finished request gives back its blocks, and free_block_hashes drops its  *)
(* hashes.                                                                    *)
Finish(id) ==
    /\ OnlyTable(id, <<>>)
    /\ OnlyHashes(id, <<>>)
    /\ UNCHANGED <<blockHash, content>>

Next == \E id \in Id : Rehash(id) \/ Allocate(id) \/ Free(id) \/ Finish(id)

Spec == Init /\ [][Next]_vars

-----------------------------------------------------------------------------
(* Types of the four variables.                                               *)
TypeOK == /\ table \in [Id -> Seq(Block)]
          /\ hashes \in [Id -> Seq(Key)]
          /\ blockHash \in [Block -> Key \cup {NoKey}]
          /\ DOMAIN content = Block

(* A block that can be found in the prefix cache holds the state its hash     *)
(* stands for: whoever hits it reads what a recomputation would give.         *)
CacheSound == \A b \in Block : blockHash[b] # NoKey => content[b] = blockHash[b]

(* The blocks a request holds are never evicted, re-registered or recycled    *)
(* under it: a registered block at position i of its table still is the block *)
(* its own hash list names there.                                             *)
TableSound ==
    \A id \in Id : \A i \in 1..Len(table[id]) :
       blockHash[table[id][i]] # NoKey =>
          i <= Len(hashes[id]) /\ blockHash[table[id][i]] = hashes[id][i]

(* A block that is still being written belongs to one position of one         *)
(* request: sharing starts when the block is full and registered.             *)
WriterExclusive ==
    \A id1, id2 \in Id : \A i \in 1..Len(table[id1]), j \in 1..Len(table[id2]) :
       table[id1][i] = table[id2][j] /\ <<id1, i>> # <<id2, j>>
          => blockHash[table[id1][i]] # NoKey

(* No step changes a registered block while some request holds it before and  *)
(* after the step: whoever reads a block for its attention reads one state.   *)
KeepsHeldBlocks ==
    \A id \in Id : \A i \in 1..Len(table[id]) :
       LET b == table[id][i]
       IN  blockHash[b] # NoKey /\ Extends(table[id], table'[id])
              => blockHash'[b] = blockHash[b] /\ content'[b] = content[b]
HeldBlocksStable == [][KeepsHeldBlocks]_vars
=============================================================================
