---------------------------- MODULE PatchRegistry ----------------------------
(***************************************************************************)
(* How the lazy code gets into vLLM and out again.  vllm_patch.py replaces    *)
(* attributes of vLLM's modules, its targets, and keeps what they held;       *)
(* ctxmgr.py scopes the attention targets and replaces the function that the  *)
(* engine process is started with.  The engine process is forked, with a copy *)
(* of everything, or spawned, with vLLM as it was: LazyEngineCoreProc          *)
(* therefore patches again when it starts.                                    *)
(*                                                                         *)
(* One thread; a step is one call of the program.                             *)
(***************************************************************************)
EXTENDS Integers, Sequences

CONSTANTS
  Order,         \* the targets, in the order in which the registry lists them
  Attention,     \* those of attention_targets()
  EngineProc,    \* vllm.v1.engine.core.EngineCoreProc
  Runner,        \* vllm.v1.worker.gpu_model_runner.GPUModelRunner
  Scheduler,     \* vllm.v1.core.sched.scheduler.Scheduler
  CacheFullBlocks, \* vllm.v1.core.block_pool.BlockPool.cache_full_blocks, which is no target
  Nothing,       \* no target
  Programs,      \* the kinds of program: "lazy", "block" or "context"
  MaxDepth       \* bound: contexts inside each other

Target == {Order[i] : i \in 1..Len(Order)}
Attribute == Target \cup {CacheFullBlocks}

ASSUME PatchAssumption ==
    /\ Order \in Seq(Target) /\ Attention \subseteq Target
    /\ \A i, j \in 1..Len(Order) : Order[i] = Order[j] => i = j
    /\ {EngineProc, Runner, Scheduler} \subseteq Target \ Attention
    /\ EngineProc \notin {Scheduler, Runner} /\ Runner # Scheduler
    /\ CacheFullBlocks \notin Target /\ Nothing \notin Target
    /\ Programs \subseteq {"lazy", "block", "context"} /\ MaxDepth \in Nat

VARIABLES
  program,    \* what the program uses: it imports one of the packages, or enters contexts
  absent,     \* a target this vLLM does not have, or Nothing
  attr,       \* what each attribute holds: vLLM's own, the lazy or the block one
  originals,  \* _ORIGINALS
  imported,   \* the package whose __vllm__ module is imported
  run,        \* the function that is run_engine_core of each class
  saved,      \* _ORIGINAL_RUN_ENGINE_CORE
  depth,      \* contexts that are open
  cuda,       \* CUDA is initialised in this process
  engine      \* the engine that was started last, or NoEngine

registry == <<attr, originals, imported>>
context == <<run, saved, depth, cuda>>
vars == <<program, absent, registry, context, engine>>

Stock == [t \in Attribute |-> "stock"]
Own == [class \in {"stock", "lazy"} |-> class]
NoEngine == [own |-> FALSE, proc |-> "none", attr |-> Stock, client |-> Stock, inside |-> FALSE]

Init ==
    /\ program \in Programs /\ absent \in Target \cup {Nothing}
    /\ attr = Stock /\ originals = [t \in Target |-> "none"] /\ imported = "none"
    /\ run = Own /\ saved = "none" /\ depth = 0 /\ cuda = FALSE
    /\ engine = NoEngine

-----------------------------------------------------------------------------
(* The registry.                                                              *)

(* The replacement of a target; the scheduler's is the caller's choice.       *)
Replacement(t, scheduler) == IF t = Scheduler THEN scheduler ELSE "lazy"

(* _apply_targets works in order, and raises at a target that is not there.    *)
Listed(t, u) == \E i, j \in 1..Len(Order) : i < j /\ Order[i] = t /\ Order[j] = u
Reached(targets) == IF absent \in targets THEN {t \in targets : Listed(t, absent)} ELSE targets
Raises(targets) == absent \in targets

(* What the attributes hold when _apply_targets has gone over the targets.     *)
Patched(a, targets, scheduler) ==
    [t \in Attribute |-> IF t \in Reached(targets) THEN Replacement(t, scheduler) ELSE a[t]]

(* Mutant of Recorded: what a target holds is recorded at each application.    *)
RecordedAgain(targets) == [t \in Target |-> IF t \in Reached(targets) THEN attr[t] ELSE originals[t]]

(* _ORIGINALS then: a target that is recorded already keeps its record.        *)
Recorded(targets) ==
    [t \in Target |-> IF t \in Reached(targets) /\ originals[t] = "none" THEN attr[t] ELSE originals[t]]

(* Mutant of Restored: what was recorded of the attention targets is dropped.  *)
RestoredLess(targets) ==
    [t \in Attribute |-> IF t \in targets \ Attention /\ originals[t] # "none"
                         THEN originals[t] ELSE attr[t]]

(* _revert_targets puts back what is recorded, and forgets it.                *)
Restored(targets) ==
    [t \in Attribute |-> IF t \in targets /\ originals[t] # "none" THEN originals[t] ELSE attr[t]]
Forgotten(targets) == [t \in Target |-> IF t \in targets THEN "none" ELSE originals[t]]

Apply(targets, scheduler) ==
    /\ attr' = Patched(attr, targets, scheduler)
    /\ originals' = Recorded(targets)

Revert(targets) ==
    /\ attr' = Restored(targets)
    /\ originals' = Forgotten(targets)

(* apply_all_patches, called by the program or by import lazy.__vllm__.        *)
ApplyAll(scheduler) ==
    /\ program \in {"lazy", "block"} /\ Apply(Target, scheduler)
    /\ UNCHANGED <<program, absent, imported, context, engine>>

ImportLazy ==
    /\ program = "lazy" /\ imported = "none"
    /\ Apply(Target, "lazy")
    /\ imported' = IF Raises(Target) THEN imported ELSE "lazy"
    /\ UNCHANGED <<program, absent, context, engine>>

(* What block_attn_vllm.__vllm__ leaves: its scheduler goes through the        *)
(* registry; cache_full_blocks and the runner are assigned past it.           *)
BlockPatched(a) ==
    LET b == Patched(a, Target, "block")
    IN  IF Raises(Target) THEN b ELSE [b EXCEPT ![CacheFullBlocks] = "lazy", ![Runner] = "block"]

ImportBlock ==
    /\ program = "block" /\ imported = "none"
    /\ originals' = Recorded(Target) /\ attr' = BlockPatched(attr)
    /\ imported' = IF Raises(Target) THEN imported ELSE "block"
    /\ UNCHANGED <<program, absent, context, engine>>

RevertAll ==
    /\ program \in {"lazy", "block"} /\ Revert(Target)
    /\ UNCHANGED <<program, absent, imported, context, engine>>

-----------------------------------------------------------------------------
(* LazyAttentionContextManager.                                               *)

(* Mutant of Saved: the function is saved at each application.                 *)
SavedAgain == run[attr[EngineProc]]

(* _ORIGINAL_RUN_ENGINE_CORE is set once.                                     *)
Saved == IF saved = "none" THEN run[attr[EngineProc]] ELSE saved

(* Both halves of __enter__; the attention patches may raise between them.     *)
(* torch.cuda.synchronize initialises CUDA in this process.                   *)
ApplyCurproc ==
    /\ Apply(Attention, "lazy")
    /\ cuda' = (cuda \/ ~Raises(Attention))

ApplySubproc ==
    /\ saved' = Saved
    /\ run' = [run EXCEPT ![attr[EngineProc]] = "patched"]

Enter ==
    /\ program = "context" /\ depth < MaxDepth
    /\ ApplyCurproc
    /\ IF Raises(Attention) THEN UNCHANGED <<saved, run, depth>>
       ELSE ApplySubproc /\ depth' = depth + 1
    /\ UNCHANGED <<program, absent, imported, engine>>

(* apply_patches_subprocess alone, which may be repeated.                      *)
EnterSubproc ==
    /\ program = "context" /\ depth > 0
    /\ ApplySubproc /\ cuda' = TRUE
    /\ UNCHANGED <<program, absent, registry, depth, engine>>

(* Mutant of RevertSubproc: it is named and not called (lazy_attn/tests/utils.py:56). *)
RevertSubprocNot == UNCHANGED run

RevertSubproc ==
    run' = IF saved # "none" THEN [run EXCEPT ![attr[EngineProc]] = saved] ELSE run

Exit ==
    /\ program = "context" /\ depth > 0
    /\ RevertSubproc /\ Revert(Attention)
    /\ depth' = depth - 1 /\ cuda' = TRUE
    /\ UNCHANGED <<program, absent, imported, saved, engine>>

-----------------------------------------------------------------------------
(* The engine process.                                                        *)

(* Mutant of Reapplied: "the attention path only" (docs/design.md:500).        *)
ReappliedAttention(a) == Patched(a, Attention, "lazy")

(* LazyEngineCoreProc.run_engine_core patches before it builds the engine.     *)
Reapplied(a) == Patched(a, Target, "lazy")

(* What one of the two classes' own functions starts where the attributes hold *)
(* a.  vLLM's builds what EngineCoreProc is there.                            *)
Builds(f, a) ==
    CASE f = "lazy" /\ Raises(Target)  -> [proc |-> "failed", attr |-> Reapplied(a)]
      [] f = "lazy" /\ ~Raises(Target) -> [proc |-> "lazy", attr |-> Reapplied(a)]
      [] f = "stock"                   -> [proc |-> a[EngineProc], attr |-> a]

(* What any function that is run_engine_core starts.  patched_run_engine_core   *)
(* has a keyword ready_pipe without a default, which vLLM 0.9.2 does not pass   *)
(* (core.py:59-62, written for it, has none): the call raises TypeError before  *)
(* anything is applied.                                                       *)
Runs(f, a) == IF f = "patched" THEN [proc |-> "failed", attr |-> a] ELSE Builds(f, a)

(* The attributes in a spawned process: the main module may be run again up to *)
(* its guard, and its imports with it.                                        *)
SpawnedWith(again) ==
    CASE again /\ imported = "lazy"  -> Patched(Stock, Target, "lazy")
      [] again /\ imported = "block" -> BlockPatched(Stock)
      [] OTHER -> Stock

(* vLLM starts EngineCoreProc.run_engine_core in another process.  It forks    *)
(* unless CUDA is initialised; a spawned process looks vLLM's function up by   *)
(* its name.                                                                 *)
Fork == Runs(run[attr[EngineProc]], attr)
Spawn(again) ==
    LET a == SpawnedWith(again)
        f == run[attr[EngineProc]]
    IN  Runs(IF f = "stock" THEN Own[a[EngineProc]] ELSE f, a)

(* InprocClient builds vLLM's EngineCore, which is no target, from what this    *)
(* process has installed.                                                     *)
InProcess == [proc |-> "stock", attr |-> attr]

Started(own, e) ==
    [own |-> own, proc |-> e.proc, attr |-> e.attr, client |-> attr, inside |-> depth > 0]

StartEngine ==
    /\ \/ ~cuda /\ engine' = Started(TRUE, Fork)
       \/ \E again \in BOOLEAN : engine' = Started(TRUE, Spawn(again))
    /\ UNCHANGED <<program, absent, registry, context>>

(* VLLM_ENABLE_V1_MULTIPROCESSING=0: the engine is built in this process.      *)
StartInProcess ==
    /\ engine' = Started(FALSE, InProcess)
    /\ UNCHANGED <<program, absent, registry, context>>

Next ==
    \/ \E scheduler \in {"lazy", "block"} : ApplyAll(scheduler)
    \/ ImportLazy \/ ImportBlock \/ RevertAll
    \/ Enter \/ EnterSubproc \/ Exit
    \/ StartEngine \/ StartInProcess

Spec == Init /\ [][Next]_vars

-----------------------------------------------------------------------------
(* Types; the function that is kept to be put back is not the replacement.     *)
TypeOK ==
    /\ program \in Programs /\ absent \in Target \cup {Nothing}
    /\ attr \in [Attribute -> {"stock", "lazy", "block"}]
    /\ originals \in [Target -> {"none", "stock", "lazy", "block"}]
    /\ imported \in {"none", "lazy", "block"}
    /\ run \in [{"stock", "lazy"} -> {"stock", "lazy", "patched"}]
    /\ saved \in {"none", "stock", "lazy"}
    /\ depth \in 0..MaxDepth /\ cuda \in BOOLEAN
    /\ engine.proc \in {"none", "stock", "lazy", "failed"}

(* design.md:511: "Every patch also records the original": what is recorded is *)
(* vLLM's own, however often and with whatever scheduler the patches are       *)
(* applied, and a target without a record still holds vLLM's own.             *)
OriginalsSound ==
    \A t \in Target : /\ originals[t] \in {"none", "stock"}
                      /\ originals[t] = "none" => attr[t] = "stock"

(* vllm_patch.py:174-183: revert_all_patches puts vLLM's own back into every   *)
(* target, also when applying stopped half-way or the runner was assigned      *)
(* over; and all of vLLM is as it was, unless block attention was imported,    *)
(* which assigns cache_full_blocks past the registry.                         *)
RevertRestores ==
    [][RevertAll => /\ \A t \in Target : attr'[t] = "stock"
                    /\ imported # "block" => attr' = Stock]_vars

(* design.md:511 as it stands: "so revert_all_patches() restores stock vLLM in *)
(* place".  It does not hold: see README.md, section 6.                        *)
RevertsInPlace == [][RevertAll => attr' = Stock]_vars

(* design.md:505-507: the context scopes the attention patches, "with matching  *)
(* revert paths": after it nothing is patched, and engines start as before.    *)
LeaveRestores == [][depth = 1 /\ depth' = 0 => attr' = Stock /\ run' = Own]_vars

(* core.py:64-71, "so the worker actually runs lazy attention instead of       *)
(* vanilla vLLM": where all targets are patched, an engine process is the lazy *)
(* one and has the lazy code in every target, however it is started and        *)
(* whatever scheduler and runner its program has installed.                   *)
EngineProcessIsLazy ==
    engine.own /\ (\A t \in Target : engine.client[t] # "stock") =>
       engine.proc = "lazy" /\ \A t \in Target : engine.attr[t] = "lazy"

(* usage.md:43-45: the context applies the attention patches "and arranges for *)
(* the engine-core subprocess to do the same".  It does not hold: see           *)
(* README.md, section 6.                                                       *)
KernelsFollow == engine.inside /\ engine.own => \A t \in Attention : engine.attr[t] = "lazy"

(* block_attn_vllm/__vllm__.py:12-16: "The block-attention scheduler adds      *)
(* copy-on-write of document blocks; the runner rotates those copies before    *)
(* the kernel": the engine of a program that imported it has both.            *)
BlockEngineRuns ==
    engine.client[Scheduler] = "block" /\ engine.client[Runner] = "block" =>
       engine.attr[Scheduler] = "block" /\ engine.attr[Runner] = "block"
=============================================================================
