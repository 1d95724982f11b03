-------------------------- MODULE MCLazyAttention --------------------------
(* Instances of LazyAttention for TLC.                                        *)
EXTENDS LazyAttention, SequencesExt

(* No document, one, or two of every length that is less than a block, a block *)
(* and more than a block, three in a row, and the largest rotation that is     *)
(* admitted with the smallest that is refused.                               *)
SmallDocuments ==
    BoundedSeq(1..5, 2) \cup {<<7>>, <<1, 7>>, <<7, 2>>} \cup [1..3 -> {1, 3}]
                        \cup {<<7, 3, 4>>, <<7, 4, 3>>}

(* The same with documents that have no token left after the start token was  *)
(* taken off.                                                                 *)
EmptyToo == BoundedSeq({0, 1, 3, 6}, 2)

(* Windows shorter than the context of every document list, and none.         *)
SlidingWindows == {0, 4}

(* Twelve blocks, allocated from the end of the pool.                         *)
FromTheEnd == [k \in 1..12 |-> 40 - 3 * k]
=============================================================================
