--------------------------- MODULE LazyAttention ---------------------------
(***************************************************************************)
(* How a query finds every document token at its distance.  A document's    *)
(* keys are cached at angles counted from its own start, padded to blocks;  *)
(* the attention kernels close the gap, block by block, as far as the        *)
(* rotation metadata says: the decode kernel (ops/models/llama_v1.py) turns  *)
(* the query back, the prefill kernel (ops/prefix_prefill.py) turns the keys *)
(* forward.  The module follows one request from admission (LazyProcessor)   *)
(* through the metadata of the scheduler, the packed block table of          *)
(* LazyGPUModelRunner and the dispatch of chunked_prefill_paged_decode, one  *)
(* engine step after the other, each with a chunk of any size.  The other    *)
(* rows of the batch appear as what they decide for this one: the longest    *)
(* query of the batch, and whether all rows are lazy.  A request without     *)
(* documents takes the plain branches of the kernels.                       *)
(*                                                                         *)
(* Positions count from 0, blocks and documents from 1.  A rotation by n     *)
(* positions is the number n; a score depends on the two angles only by     *)
(* their difference, the distance.  A weight of the softmax is one of three  *)
(* classes: scored, -10000 (out of the sliding window) and -inf (masked).   *)
(***************************************************************************)
EXTENDS Integers, Sequences, FiniteSets, FiniteSetsExt, Functions

CONSTANTS
  BlockSize,     \* tokens per block
  FieldSize,     \* 2^16: what a field of the packed table can hold, plus one
  TileM,         \* BLOCK_M: query tokens of a prefill program
  TileN,         \* BLOCK_N: own keys it takes at a time
  DocumentSets,  \* the document lengths of the requests that are tried
  Windows,       \* the values of SLIDING_WINDOW that are tried, 0 for none
  MaxNew,        \* bound: query and output tokens of a request
  BlockAt        \* the physical block of each block position

MAX_PACKED_Q_OFFSET == FieldSize - 1

ASSUME AttentionAssumption ==
    /\ BlockSize \in Nat \ {0} /\ FieldSize \in Nat \ {0, 1} /\ BlockSize <= FieldSize
    /\ TileM \in Nat \ {0} /\ TileN \in Nat \ {0}
    /\ MaxNew \in Nat \ {0} /\ DocumentSets \subseteq Seq(Nat) /\ Windows \subseteq Nat
    /\ BlockAt \in Seq(Nat) /\ IsInjective(BlockAt)

VARIABLES lens,      \* document_lens of the request
          window,    \* sliding_window of the model
          seqLen,    \* the request's tokens up to this step, padding included
          chunk,     \* query_len: how many of them are computed in this step
          packed,    \* its row of packed_block_table
          maxQuery,  \* max_query_len of the batch
          lazyOnly,  \* LAZY_FORCE_SPLIT_DECODE, and all rows are lazy
          phase,     \* where the step is
          tile,      \* prefill: program_id(2), the tile of the query
          j, own,    \* the next block is j + 1; the next own key is own
          prev,      \* decode: prev_rot_offset
          rot,       \* decode: how far Q_rotated is turned back from Q_full
          level,     \* the class of the running maximum of each query token
          attended,  \* the position and distance of each key that has weight
          out        \* what has been stored for each token of the chunk

rowVars    == <<lens, window, seqLen, chunk, packed>>
launchVars == <<maxQuery, lazyOnly>>
vars == <<rowVars, launchVars, phase, tile, j, own, prev, rot, level, attended, out>>

-----------------------------------------------------------------------------
(* Layout of the merged prompt, for a list ds of document lengths.            *)

CeilDiv(a, b) == (a + b - 1) \div b

(* What a loop over a list has added up after its first i elements.           *)
PrefixSum(s) ==
    LET sum[i \in 0..Len(s)] == IF i = 0 THEN 0 ELSE sum[i - 1] + s[i]
    IN  sum

PaddedLen(n) == CeilDiv(n, BlockSize) * BlockSize
Padding(n) == PaddedLen(n) - n
TotalPadding(ds) == PrefixSum([d \in DOMAIN ds |-> Padding(ds[d])])[Len(ds)]

TrueBefore(ds, d) == PrefixSum(ds)[d - 1]
PaddedBefore(ds, d) == PrefixSum([e \in DOMAIN ds |-> PaddedLen(ds[e])])[d - 1]

(* Positions the documents take, with and without their padding.              *)
DocRegion(ds) == PaddedBefore(ds, Len(ds) + 1)
DocTokens(ds) == TrueBefore(ds, Len(ds) + 1)

(* Bound: every document list that is tried has its blocks.                   *)
ASSUME BlocksSuffice ==
    \A ds \in DocumentSets : DocRegion(ds) + MaxNew <= Len(BlockAt) * BlockSize

NumBlocks == CeilDiv(seqLen, BlockSize)
Lazy == lens # <<>>
ctx == seqLen - chunk

-----------------------------------------------------------------------------
(* metadata_for_lazy_attention: one entry per document block and one for the  *)
(* query's first block.                                                       *)

MetadataLen(ds) == DocRegion(ds) \div BlockSize + 1
Blocks(ds, d) == PaddedBefore(ds, d) \div BlockSize + 1 .. PaddedBefore(ds, d + 1) \div BlockSize
DocumentAt(ds, k) == CHOOSE d \in DOMAIN ds : k \in Blocks(ds, d)

(* The rotation of a document's blocks with a bias of 1, so that 0 can stand  *)
(* for "keep it" and 1 for "none".                                            *)
QOffset(ds, k) ==
    IF k = MetadataLen(ds) THEN 1
    ELSE 1 + TotalPadding(ds) + TrueBefore(ds, DocumentAt(ds, k))

(* q_mask[cursor - 1] = padding_lens[doc_idx] for each document in turn: a    *)
(* document without blocks overwrites what the one before it left there.      *)
QMask(ds, k) ==
    LET ends == {d \in DOMAIN ds : PaddedBefore(ds, d + 1) \div BlockSize = k}
    IN  IF ends = {} THEN 0 ELSE Padding(ds[Max(ends)])

(* Mutant of MaxRotationOffset: the bias is forgotten.                        *)
MaxRotationOffsetUnbiased(ds) == TotalPadding(ds) + TrueBefore(ds, Len(ds))

(* max_rotation_offset, by which a request is admitted.                       *)
MaxRotationOffset(ds) ==
    IF ds = <<>> THEN 0 ELSE TotalPadding(ds) + TrueBefore(ds, Len(ds)) + 1

-----------------------------------------------------------------------------
(* The buffers q_offset and q_mask, zero behind the metadata and for a request *)
(* without documents.                                                        *)
OffsetAt(k) == IF Lazy /\ k <= MetadataLen(lens) THEN QOffset(lens, k) ELSE 0
MaskAt(k) == IF Lazy /\ k <= MetadataLen(lens) THEN QMask(lens, k) ELSE 0

(* _rebuild_packed_block_table: [block | q_offset | q_mask].                  *)
PackedEntry(k) == (BlockAt[k] * FieldSize + OffsetAt(k)) * FieldSize + MaskAt(k)

BlockField(v) == v \div (FieldSize * FieldSize)
OffsetField(v) == (v \div FieldSize) % FieldSize
MaskField(v) == v % FieldSize

(* The position of a slot of a physical block in this request.               *)
PositionOf(block, n) == ((CHOOSE i \in DOMAIN BlockAt : BlockAt[i] = block) - 1) * BlockSize + n

(* The angle of the key at position p: a document's keys are those of its own  *)
(* request, the query's are at their positions.                              *)
KeyAngle(ds, p) ==
    IF p >= DocRegion(ds) THEN p ELSE p - PaddedBefore(ds, DocumentAt(ds, p \div BlockSize + 1))

-----------------------------------------------------------------------------
(* The online softmax.                                                        *)

MASKED == 0
FAR == 1
SCORED == 2

(* Mutant of Weight: what is out of the window is masked like the rest.       *)
WeightMasked(masked, back) ==
    IF masked \/ (window > 0 /\ back >= window) THEN MASKED ELSE SCORED

(* The class of a key that stands back positions before the query token: the  *)
(* window is applied last, over whatever was masked.                         *)
Weight(masked, back) ==
    IF window > 0 /\ back >= window THEN FAR
    ELSE IF masked THEN MASKED ELSE SCORED

(* Keys <<position, distance, class>> meet the running maximum of token i: a   *)
(* weight below the maximum is exp(-inf) or exp(-10000 - m), which is 0.      *)
Top(i, keys) == Max({level[i]} \cup {key[3] : key \in keys})
Kept(i, keys) ==
    (IF level[i] = Top(i, keys) THEN attended[i] ELSE {})
       \cup {<<key[1], key[2]>> : key \in {k \in keys : k[3] = Top(i, keys)}}

Accumulate(Keys(_)) ==
    /\ level' = [i \in DOMAIN level |-> Top(i, Keys(i))]
    /\ attended' = [i \in DOMAIN level |-> Kept(i, Keys(i))]

Fresh(tokens) ==
    /\ level' = [i \in tokens |-> MASKED]
    /\ attended' = [i \in tokens |-> {}]
    /\ j' = 0 /\ own' = 0 /\ prev' = -1 /\ rot' = 0

-----------------------------------------------------------------------------
Init ==
    /\ lens = <<>> /\ window = 0 /\ seqLen = 0 /\ chunk = 0 /\ packed = <<>>
    /\ maxQuery = 0 /\ lazyOnly = FALSE /\ phase = "new"
    /\ tile = 0 /\ j = 0 /\ own = 0 /\ prev = -1 /\ rot = 0
    /\ level = <<>> /\ attended = <<>> /\ out = <<>>

(* process_inputs: a request arrives, and is refused when its rotation does   *)
(* not fit the field.  When it is scheduled its documents are in the cache.   *)
Arrive ==
    /\ phase = "new"
    /\ lens' \in DocumentSets /\ window' \in Windows
    /\ phase' = IF MaxRotationOffset(lens') > MAX_PACKED_Q_OFFSET THEN "refused" ELSE "ready"
    /\ seqLen' = DocRegion(lens')
    /\ UNCHANGED <<chunk, packed, launchVars, tile, j, own, prev, rot, level, attended, out>>

(* The tokens of the request's tile in prefill program t.                     *)
TileTokens(t) == {i \in t * TileM .. (t + 1) * TileM - 1 : i < chunk}

(* chunked_prefill_paged_decode: the prefill kernel is launched for the whole *)
(* batch when one of its rows has more than one query token.                 *)
LaunchPrefill(longest) == longest > 1

(* Whether the decode kernel for lazy rows may be launched: it takes the switch *)
(* and a batch of lazy rows.                                                  *)
DecodeKernels == {FALSE, Lazy}

(* An engine step: some tokens of the request are scheduled, its row of the    *)
(* packed table is rebuilt when its table has grown, and the kernels run.     *)
PrepareInputs ==
    /\ phase = "ready"
    /\ chunk' \in 1..MaxNew /\ seqLen' = seqLen + chunk' /\ seqLen' <= DocRegion(lens) + MaxNew
    /\ maxQuery' \in {chunk', MaxNew} /\ lazyOnly' \in DecodeKernels
    /\ packed' = IF Len(packed) # NumBlocks'
                 THEN [k \in 1..NumBlocks' |-> PackedEntry(k)] ELSE packed
    /\ phase' = IF LaunchPrefill(maxQuery') THEN "prefill" ELSE "decode"
    /\ tile' = 0
    /\ Fresh(IF LaunchPrefill(maxQuery') THEN TileTokens(0)' ELSE {0})
    /\ out' = [i \in 0..chunk'-1 |-> <<>>]
    /\ UNCHANGED <<lens, window>>

-----------------------------------------------------------------------------
(* The prefill kernel: one program for each tile of the longest query.        *)

(* The program ends; the next tile's runs, or the decode kernel is launched.  *)
EndProgram ==
    IF (tile + 1) * TileM < maxQuery
    THEN tile' = tile + 1 /\ phase' = phase /\ Fresh(TileTokens(tile + 1))
    ELSE tile' = tile /\ phase' = "decode" /\ Fresh({0})

(* Mutant of SkipDecode: the kernel computes decode rows as well.             *)
SkipDecodeNever == FALSE

(* SKIP_DECODE: a row with one query token is left to the decode kernel.      *)
SkipDecode == chunk = 1

PrefillSkips ==
    /\ phase = "prefill" /\ SkipDecode
    /\ EndProgram
    /\ UNCHANGED <<rowVars, launchVars, out>>

(* Mutant of ForwardRotation: the bias of 1 is not taken off.                 *)
ForwardRotationBiased(k) == OffsetAt(k)

(* abs_rot_pos: how far the keys of the k-th block are turned forward.        *)
ForwardRotation(k) == IF OffsetAt(k) # 0 THEN OffsetAt(k) - 1 ELSE 0

(* Mutant of ContextEnd: the padding of the document is not left out.         *)
ContextEndPadded(k) == Min({ctx, k * BlockSize})

(* seq_bound: where the keys of the k-th block of the context end.            *)
ContextEnd(k) == Min({ctx, k * BlockSize - MaskAt(k)})

(* The keys of block j + 1 of the context in the lazy and in the plain branch, *)
(* as token i of the chunk sees them.                                        *)
LazyContextKeys(i) ==
    {LET p == j * BlockSize + n
         key == PositionOf(BlockAt[j + 1], n)
     IN  <<key, ctx + i - (KeyAngle(lens, key) + ForwardRotation(j + 1)),
           Weight(p >= ContextEnd(j + 1), ctx + i - p)>> : n \in 0..BlockSize-1}

PlainContextKeys(i) ==
    {LET p == j * BlockSize + n
         key == PositionOf(BlockAt[j + 1], n)
     IN  <<key, ctx + i - KeyAngle(lens, key), Weight(p >= ctx, ctx + i - p)>> :
        n \in 0..BlockSize-1}

LazyContextBlock ==
    /\ phase = "prefill" /\ ~SkipDecode /\ Lazy /\ j * BlockSize < ctx
    /\ Accumulate(LazyContextKeys)
    /\ j' = j + 1
    /\ UNCHANGED <<rowVars, launchVars, phase, tile, own, prev, rot, out>>

PlainContextBlock ==
    /\ phase = "prefill" /\ ~SkipDecode /\ ~Lazy /\ j * BlockSize < ctx
    /\ Accumulate(PlainContextKeys)
    /\ j' = j + 1
    /\ UNCHANGED <<rowVars, launchVars, phase, tile, own, prev, rot, out>>

(* Where the loop over the chunk's own keys ends: at the end of the tile, and  *)
(* at once for a tile behind the row's query (block_mask).                   *)
OwnEnd == IF tile * TileM < chunk THEN (tile + 1) * TileM ELSE 0

(* The keys of the chunk itself, taken from the layer and not from the cache, *)
(* under the causal mask.                                                    *)
OwnKeys(i) == {<<ctx + n, i - n, Weight(n > i, i - n)>> : n \in own .. own + TileN - 1}

LazyOwnTile ==
    /\ phase = "prefill" /\ ~SkipDecode /\ Lazy /\ j * BlockSize >= ctx /\ own < OwnEnd
    /\ Accumulate(OwnKeys)
    /\ own' = own + TileN
    /\ UNCHANGED <<rowVars, launchVars, phase, tile, j, prev, rot, out>>

PlainOwnTile ==
    /\ phase = "prefill" /\ ~SkipDecode /\ ~Lazy /\ j * BlockSize >= ctx /\ own < OwnEnd
    /\ Accumulate(OwnKeys)
    /\ own' = own + TileN
    /\ UNCHANGED <<rowVars, launchVars, phase, tile, j, prev, rot, out>>

(* The tokens of the tile that belong to the row are stored.                  *)
StoreTokens ==
    out' = [i \in DOMAIN out |-> IF i \in DOMAIN level THEN Append(out[i], attended[i]) ELSE out[i]]

LazyStoreTile ==
    /\ phase = "prefill" /\ ~SkipDecode /\ Lazy /\ j * BlockSize >= ctx /\ own >= OwnEnd
    /\ StoreTokens /\ EndProgram
    /\ UNCHANGED <<rowVars, launchVars>>

PlainStoreTile ==
    /\ phase = "prefill" /\ ~SkipDecode /\ ~Lazy /\ j * BlockSize >= ctx /\ own >= OwnEnd
    /\ StoreTokens /\ EndProgram
    /\ UNCHANGED <<rowVars, launchVars>>

-----------------------------------------------------------------------------
(* The decode kernel.                                                         *)

(* filter_by_query_len: a row of several query tokens was prefilled.          *)
DecodeSkips ==
    /\ phase = "decode" /\ chunk > 1
    /\ phase' = "done"
    /\ UNCHANGED <<rowVars, launchVars, tile, j, own, prev, rot, level, attended, out>>

(* Mutant of RotationAfter: 0 is not told from the other offsets.             *)
RotationAfterZero(offset) == IF offset = prev THEN rot ELSE offset - 1

(* Q_rotated at a block: kept on 0, rebuilt from Q_full otherwise.            *)
RotationAfter(offset) == IF offset \in {0, prev} THEN rot ELSE offset - 1

(* The keys of block j + 1, which is the physical block that the entry names,  *)
(* for a query turned back by r and a mask over the last slots.              *)
BlockKeys(block, r, mask) ==
    {LET p == j * BlockSize + n
         key == PositionOf(block, n)
     IN  <<key, seqLen - 1 - r - KeyAngle(lens, key),
           Weight(p >= seqLen \/ n >= BlockSize - mask, seqLen - 1 - p)>> : n \in 0..BlockSize-1}

VisitLazyBlock ==
    LET v == packed[j + 1]
        Keys(i) == BlockKeys(BlockField(v), rot', MaskField(v))
    IN  /\ rot' = RotationAfter(OffsetField(v))
        /\ prev' = OffsetField(v)
        /\ Accumulate(Keys)
        /\ j' = j + 1
        /\ UNCHANGED <<rowVars, launchVars, phase, tile, own, out>>

(* One iteration of the block loop: in the branch for lazy rows, in the kernel *)
(* for batches of lazy rows, and in the branch for plain rows, which looks at  *)
(* nothing but the block.                                                    *)
VisitBlock ==
    /\ phase = "decode" /\ chunk = 1 /\ j < NumBlocks /\ ~lazyOnly /\ Lazy
    /\ VisitLazyBlock

LazyOnlyVisitBlock ==
    /\ phase = "decode" /\ chunk = 1 /\ j < NumBlocks /\ lazyOnly
    /\ VisitLazyBlock

PlainVisitBlock ==
    /\ phase = "decode" /\ chunk = 1 /\ j < NumBlocks /\ ~lazyOnly /\ ~Lazy
    /\ LET Keys(i) == BlockKeys(BlockField(packed[j + 1]), 0, 0) IN Accumulate(Keys)
    /\ j' = j + 1
    /\ UNCHANGED <<rowVars, launchVars, phase, tile, own, prev, rot, out>>

StoreToken ==
    /\ phase = "decode" /\ chunk = 1 /\ j = NumBlocks
    /\ StoreTokens
    /\ phase' = "done"
    /\ UNCHANGED <<rowVars, launchVars, tile, j, own, prev, rot, level, attended>>

(* The step is over; the next one schedules more of the query, or the token    *)
(* that was sampled.                                                         *)
NextStep ==
    /\ phase = "done" /\ phase' = "ready"
    /\ UNCHANGED <<rowVars, launchVars, tile, j, own, prev, rot, level, attended, out>>

Next == \/ Arrive \/ PrepareInputs
        \/ PrefillSkips \/ LazyContextBlock \/ PlainContextBlock
        \/ LazyOwnTile \/ PlainOwnTile \/ LazyStoreTile \/ PlainStoreTile
        \/ DecodeSkips \/ VisitBlock \/ LazyOnlyVisitBlock \/ PlainVisitBlock \/ StoreToken
        \/ NextStep

Spec == Init /\ [][Next]_vars

-----------------------------------------------------------------------------
(* Types of the variables.                                                    *)
TypeOK ==
    /\ lens \in Seq(Nat) /\ window \in Nat /\ seqLen \in Nat /\ chunk \in 0..MaxNew
    /\ packed \in Seq(Nat) /\ maxQuery \in 0..MaxNew /\ lazyOnly \in BOOLEAN
    /\ phase \in {"new", "refused", "ready", "prefill", "decode", "done"}
    /\ tile \in Nat /\ j \in 0..NumBlocks /\ own \in Nat
    /\ prev \in -1..MAX_PACKED_Q_OFFSET /\ rot \in 0..MAX_PACKED_Q_OFFSET
    /\ \A i \in DOMAIN level : level[i] \in MASKED..SCORED /\ attended[i] \subseteq Nat \X Int
    /\ \A i \in DOMAIN out : out[i] \in Seq(SUBSET (Nat \X Int))

(* What an admitted request's metadata holds fits the fields of the packed    *)
(* table: nothing carries into the physical block, and the model runner never *)
(* has to raise for it (gpu_model_runner.py:217-225).                         *)
AdmittedFits ==
    phase \notin {"new", "refused"} =>
       \A k \in 1..MetadataLen(lens) : /\ QOffset(lens, k) \in 1..MAX_PACKED_Q_OFFSET
                                       /\ QMask(lens, k) \in 0..MAX_PACKED_Q_OFFSET

(* Where a token of the merged prompt stands when the documents follow each   *)
(* other without padding; Real leaves out the padding.                        *)
Real(ds, p) == \/ p >= DocRegion(ds)
               \/ \E d \in DOMAIN ds : p - PaddedBefore(ds, d) \in 0..ds[d]-1
ContextPosition(ds, p) ==
    IF p >= DocRegion(ds) THEN DocTokens(ds) + p - DocRegion(ds)
    ELSE LET d == CHOOSE e \in DOMAIN ds : p - PaddedBefore(ds, e) \in 0..ds[e]-1
         IN  TrueBefore(ds, d) + p - PaddedBefore(ds, d)

(* Every output stored, by either kernel, is attention over each real key up  *)
(* to the token, at the distance the two have in the context without padding, *)
(* and over nothing else.  A sliding window is counted in positions of the     *)
(* merged prompt, padding included.                                          *)
AttentionExact ==
    phase \in {"prefill", "decode", "done"} =>
       \A i \in DOMAIN out : \A n \in DOMAIN out[i] :
          LET q == ctx + i
          IN  out[i][n] = {<<p, ContextPosition(lens, q) - ContextPosition(lens, p)>> :
                  p \in {o \in 0..q : Real(lens, o) /\ (window = 0 \/ q - o < window)}}

(* A token of the chunk is stored by one program of one kernel, however long   *)
(* the other queries of the batch are.                                       *)
StoredOnce ==
    /\ phase \in {"prefill", "decode"} => \A i \in DOMAIN out : Len(out[i]) <= 1
    /\ phase = "done" => \A i \in DOMAIN out : Len(out[i]) = 1

(* prefix_prefill.py:287-290, 493-496: no row is masked altogether, so the     *)
(* running maximum is never -inf when exp() takes a difference with it.      *)
MaximumFinite ==
    phase \in {"prefill", "decode"} /\ j + own > 0 =>
       \A i \in DOMAIN level : level[i] # MASKED

(* docs/design.md:219-221: padding never contributes to a score.              *)
PaddingNeverAttended ==
    \A i \in DOMAIN out : \A n \in DOMAIN out[i] : \A key \in out[i][n] : Real(lens, key[1])
=============================================================================
