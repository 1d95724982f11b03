--------------------------- MODULE MCModelRunner ---------------------------
(* ModelRunner for TLC.                                                       *)
EXTENDS ModelRunner, TLC

CONSTANTS x, y

(* No documents, one block of metadata, and two.                              *)
SmallMetadata == {<<>>, <<1>>, <<7, 1>>}

(* One or two blocks of a pool of two.                                        *)
SmallTables == {<<x>>, <<y>>, <<x, y>>, <<y, x>>}

Symmetry == Permutations(Id) \cup Permutations(BlockId)
=============================================================================
