----------------------------- MODULE MCKVCache -----------------------------
(* KVCache on a small pool.  KVCache says what a step may do; MCNext lists    *)
(* the candidates of each step so that TLC can enumerate them: tables and     *)
(* hash lists up to MaxTable, and any states and hashes for the blocks that   *)
(* may be written.                                                            *)
EXTENDS KVCache, TLC

CONSTANT MaxTable   \* the longest table, in blocks

Lists(S) == UNION {[1..n -> S] : n \in 0..MaxTable}

Candidate(id, t, h, W) ==
    \E written \in [W -> Key], registered \in [W -> Key \cup {NoKey}] :
       /\ table' = [table EXCEPT ![id] = t]
       /\ hashes' = [hashes EXCEPT ![id] = h]
       /\ content' = [b \in Block |-> IF b \in W THEN written[b] ELSE content[b]]
       /\ blockHash' = [b \in Block |-> IF b \in W THEN registered[b] ELSE blockHash[b]]

MCAllocate ==
    \E id \in Id : \E t \in Lists(Block), h \in Lists(Key) :
       /\ Extends(table[id], t) /\ t # table[id]
       /\ table[id] # <<>> => Extends(hashes[id], h)
       /\ \E hit \in Len(table[id])..Len(t) :
             /\ FreshBlocks(id, t, hit)
             /\ hit > Len(table[id]) => table[id] = <<>> /\ HitBlocks(t, h, hit)
             /\ Candidate(id, t, h, Unfinished(id) \cup {t[i] : i \in hit+1..Len(t)})
       /\ Allocate(id)

MCRehash == \E id \in Id : \E h \in Lists(Key) :
               /\ hashes' = [hashes EXCEPT ![id] = h]
               /\ Rehash(id)

MCRelease == \E id \in Id : table[id] # <<>> /\ (Free(id) \/ Finish(id))

MCNext == MCAllocate \/ MCRehash \/ MCRelease

MCSpec == Init /\ [][MCNext]_vars

Symmetry == Permutations(Block) \cup Permutations(Id) \cup Permutations(Key)
=============================================================================
