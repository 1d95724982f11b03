--------------------------- MODULE MCPatchRegistry ---------------------------
(* Instances of PatchRegistry for TLC.                                        *)
EXTENDS PatchRegistry

SmallOrder == <<"RotaryEmbedding", "Attention.forward", "EngineCoreProc", "GPUModelRunner", "Scheduler">>
SmallAttention == {"RotaryEmbedding", "Attention.forward"}
=============================================================================
