------------------------- MODULE PatchRegistryProofs -------------------------
(* For every list of targets and every sequence of applications, failed        *)
(* applications, contexts and reverts, the registry has kept vLLM's own        *)
(* attributes and reverting restores them.                                    *)
EXTENDS PatchRegistry, TLAPS

(* What the registry holds.  That attr is a function on the attributes is what *)
(* makes "each of them holds vLLM's own" the same as attr = Stock.            *)
Holds == {"stock", "lazy", "block"}
RegistryOK ==
    /\ attr \in [Attribute -> Holds]
    /\ originals \in [Target -> {"none"} \cup Holds]

Inv == RegistryOK /\ OriginalsSound

(* However far an application comes, it records vLLM's own for what it          *)
(* replaces, and nothing else for what was replaced before.                   *)
LEMMA ApplySound ==
    ASSUME Inv, NEW targets \in SUBSET Target, NEW scheduler \in {"lazy", "block"},
           Apply(targets, scheduler)
    PROVE  Inv'
<1> DEFINE R == Reached(targets)
<1>1. attr' = [t \in Attribute |-> IF t \in R THEN Replacement(t, scheduler) ELSE attr[t]]
  BY DEF Apply, Patched
<1>2. originals' = [t \in Target |-> IF t \in R /\ originals[t] = "none" THEN attr[t] ELSE originals[t]]
  BY DEF Apply, Recorded
<1>3. \A t \in Attribute : Replacement(t, scheduler) \in Holds
  BY DEF Replacement, Holds
<1> HIDE DEF R
<1>4. RegistryOK'
  <2>1. Target \subseteq Attribute
    BY DEF Attribute
  <2> QED BY <2>1, <1>1, <1>2, <1>3 DEF Inv, RegistryOK
<1>5. ASSUME NEW t \in Target
      PROVE  originals'[t] \in {"none", "stock"} /\ (originals'[t] = "none" => attr'[t] = "stock")
  <2>1. /\ originals[t] \in {"none", "stock"} /\ (originals[t] = "none" => attr[t] = "stock")
        /\ t \in Attribute
    BY <1>5 DEF Inv, OriginalsSound, Attribute
  <2>2. CASE t \in R
    BY <2>1, <2>2, <1>1, <1>2, <1>5
  <2>3. CASE t \notin R
    BY <2>1, <2>3, <1>1, <1>2, <1>5
  <2> QED BY <2>2, <2>3
<1> QED BY <1>4, <1>5 DEF Inv, OriginalsSound

(* Reverting any part of the targets keeps the rest recorded.                  *)
LEMMA RevertSound ==
    ASSUME Inv, NEW targets \in SUBSET Target, Revert(targets)
    PROVE  Inv'
<1>0. Target \subseteq Attribute
  BY DEF Attribute
<1>1. attr' = [t \in Attribute |-> IF t \in targets /\ originals[t] # "none" THEN originals[t] ELSE attr[t]]
  BY DEF Revert, Restored
<1>2. originals' = [t \in Target |-> IF t \in targets THEN "none" ELSE originals[t]]
  BY DEF Revert, Forgotten
<1>3. RegistryOK'
  <2>1. ASSUME NEW t \in Attribute
        PROVE  (IF t \in targets /\ originals[t] # "none" THEN originals[t] ELSE attr[t]) \in Holds
    BY <2>1 DEF Inv, RegistryOK
  <2>2. \A t \in Target : (IF t \in targets THEN "none" ELSE originals[t]) \in {"none"} \cup Holds
    BY DEF Inv, RegistryOK
  <2> QED BY <1>1, <1>2, <2>1, <2>2 DEF RegistryOK
<1>4. ASSUME NEW t \in Target
      PROVE  originals'[t] \in {"none", "stock"} /\ (originals'[t] = "none" => attr'[t] = "stock")
  BY <1>0, <1>1, <1>2, <1>4 DEF Inv, OriginalsSound
<1> QED BY <1>3, <1>4 DEF Inv, OriginalsSound

(* The invariant is kept by the import that assigns past the registry, as the  *)
(* runner is recorded by then and cache_full_blocks is no target.             *)
LEMMA ImportBlockSound ==
    ASSUME Inv, ImportBlock
    PROVE  Inv'
<1>1. CASE Raises(Target)
  <2>1. Apply(Target, "block")
    BY <1>1 DEF ImportBlock, Apply, BlockPatched
  <2> QED BY <2>1, ApplySound
<1>2. CASE ~Raises(Target)
  <2>1. Reached(Target) = Target
    BY <1>2 DEF Raises, Reached
  <2>2. originals' = [t \in Target |-> IF originals[t] = "none" THEN attr[t] ELSE originals[t]]
    BY <2>1 DEF ImportBlock, Recorded
  <2>3. attr' = [Patched(attr, Target, "block") EXCEPT ![CacheFullBlocks] = "lazy", ![Runner] = "block"]
    BY <1>2 DEF ImportBlock, BlockPatched
  <2>4. Patched(attr, Target, "block") \in [Attribute -> Holds]
    BY DEF Patched, Replacement, Holds, Inv, RegistryOK
  <2>5. attr' \in [Attribute -> Holds]
    BY <2>3, <2>4 DEF Holds
  <2>6. originals' \in [Target -> {"none"} \cup Holds]
    BY <2>2 DEF Inv, RegistryOK, Attribute
  <2>7. ASSUME NEW t \in Target PROVE originals'[t] = "stock"
    BY <2>2, <2>7 DEF Inv, OriginalsSound
  <2> QED BY <2>5, <2>6, <2>7 DEF Inv, RegistryOK, OriginalsSound
<1> QED BY <1>1, <1>2

(* The invariant in every reachable state.                                     *)
LEMMA InvInvariant == Spec => []Inv
<1>1. Init => Inv
  BY DEF Init, Inv, RegistryOK, OriginalsSound, Stock, Holds, Attribute
<1>2. Inv /\ [Next]_vars => Inv'
  <2> SUFFICES ASSUME Inv, [Next]_vars PROVE Inv'
    OBVIOUS
  <2>0. Attention \in SUBSET Target /\ Target \in SUBSET Target
    BY PatchAssumption
  <2>1. CASE \E scheduler \in {"lazy", "block"} : ApplyAll(scheduler)
    BY <2>0, <2>1, ApplySound DEF ApplyAll
  <2>2. CASE ImportLazy
    BY <2>0, <2>2, ApplySound DEF ImportLazy
  <2>3. CASE ImportBlock
    BY <2>3, ImportBlockSound
  <2>4. CASE RevertAll
    BY <2>0, <2>4, RevertSound DEF RevertAll
  <2>5. CASE Enter
    BY <2>0, <2>5, ApplySound DEF Enter, ApplyCurproc
  <2>6. CASE Exit
    BY <2>0, <2>6, RevertSound DEF Exit
  <2>7. CASE EnterSubproc \/ StartEngine \/ StartInProcess \/ UNCHANGED vars
    <3>1. UNCHANGED <<attr, originals>>
      BY <2>7 DEF EnterSubproc, StartEngine, StartInProcess, vars, registry
    <3> QED BY <3>1 DEF Inv, RegistryOK, OriginalsSound
  <2> QED BY <2>1, <2>2, <2>3, <2>4, <2>5, <2>6, <2>7 DEF Next
<1> QED BY <1>1, <1>2, PTL DEF Spec

(* The records are sound in every reachable state.                             *)
THEOREM RecordsSound == Spec => []OriginalsSound
<1>1. Inv => OriginalsSound
  BY DEF Inv
<1> QED BY <1>1, InvInvariant, PTL

-----------------------------------------------------------------------------
(* A program that enters contexts changes the attention targets only, and the  *)
(* function it saves is vLLM's; another program leaves run_engine_core alone.  *)
ContextOK ==
    /\ depth \in Nat /\ saved \in {"none", "stock"}
    /\ run \in [{"stock", "lazy"} -> {"stock", "lazy", "patched"}] /\ run["lazy"] = "lazy"
    /\ saved = "none" => run["stock"] = "stock"
    /\ depth = 0 => run["stock"] = "stock"
    /\ depth > 0 => program = "context" /\ saved = "stock"
    /\ program = "context" => \A t \in Attribute \ Attention : attr[t] = "stock"

(* A target that is missing is never replaced.                                 *)
AbsentOK == absent \in Target => attr[absent] = "stock"

(* What a program can put in the place of EngineCoreProc has its own           *)
(* run_engine_core.                                                           *)
ClassOK == attr[EngineProc] \in {"stock", "lazy"}

(* Only block attention assigns cache_full_blocks, when it has been imported.  *)
BlockOK ==
    /\ imported # "block" => attr[CacheFullBlocks] = "stock"
    /\ imported = "block" => program = "block"

ContextInv == Inv /\ ContextOK /\ AbsentOK /\ ClassOK /\ BlockOK

(* An application stops before the target that is missing.                     *)
LEMMA AbsentNotReached ==
    ASSUME NEW targets \in SUBSET Target, absent \in Target
    PROVE  absent \notin Reached(targets)
<1>1. CASE absent \in targets
  <2>1. ~Listed(absent, absent)
    BY PatchAssumption DEF Listed
  <2> QED BY <1>1, <2>1 DEF Reached
<1>2. CASE absent \notin targets
  BY <1>2 DEF Reached
<1> QED BY <1>1, <1>2

LEMMA ReachedSubset ==
    ASSUME NEW targets \in SUBSET Target
    PROVE  Reached(targets) \subseteq targets
BY DEF Reached

LEMMA ApplyContext ==
    ASSUME ContextInv, NEW targets \in SUBSET Target, NEW scheduler \in {"lazy", "block"},
           Apply(targets, scheduler)
    PROVE  /\ AbsentOK' \/ absent' # absent
           /\ ClassOK'
           /\ \A t \in Attribute \ targets : attr'[t] = attr[t]
           /\ attr'[CacheFullBlocks] = attr[CacheFullBlocks]
<1>1. attr' = [t \in Attribute |-> IF t \in Reached(targets) THEN Replacement(t, scheduler) ELSE attr[t]]
  BY DEF Apply, Patched
<1>2. \A t \in Attribute \ targets : attr'[t] = attr[t]
  BY <1>1, ReachedSubset
<1>3. /\ EngineProc \in Target /\ EngineProc # Scheduler
      /\ Target \subseteq Attribute /\ CacheFullBlocks \in Attribute \ targets
  BY PatchAssumption DEF Attribute
<1>4. ClassOK'
  BY <1>1, <1>3 DEF ContextInv, ClassOK, Replacement
<1>5. ASSUME absent \in Target PROVE attr'[absent] = "stock"
  BY <1>1, <1>3, <1>5, AbsentNotReached DEF ContextInv, AbsentOK
<1> QED BY <1>2, <1>3, <1>4, <1>5 DEF AbsentOK

LEMMA RevertContext ==
    ASSUME ContextInv, NEW targets \in SUBSET Target, Revert(targets)
    PROVE  /\ \A t \in Attribute : attr'[t] \in {"stock", attr[t]}
           /\ \A t \in targets : attr'[t] = "stock"
           /\ attr'[CacheFullBlocks] = attr[CacheFullBlocks]
<1>1. attr' = [t \in Attribute |-> IF t \in targets /\ originals[t] # "none" THEN originals[t] ELSE attr[t]]
  BY DEF Revert, Restored
<1>2. \A t \in Target : originals[t] \in {"none", "stock"} /\ (originals[t] = "none" => attr[t] = "stock")
  BY DEF ContextInv, Inv, OriginalsSound
<1>3. Target \subseteq Attribute /\ CacheFullBlocks \in Attribute \ targets
  BY PatchAssumption DEF Attribute
<1> QED BY <1>1, <1>2, <1>3

LEMMA EnterContext ==
    ASSUME ContextInv, Enter
    PROVE  ContextInv'
<1>0. Attention \in SUBSET Target /\ EngineProc \in Attribute \ Attention
  BY PatchAssumption DEF Attribute
<1>1. Apply(Attention, "lazy") /\ program = "context" /\ UNCHANGED <<program, absent, imported>>
  BY DEF Enter, ApplyCurproc
<1>2. Inv'
  BY <1>0, <1>1, ApplySound DEF ContextInv
<1>3. /\ AbsentOK' /\ ClassOK' /\ BlockOK'
      /\ \A t \in Attribute \ Attention : attr'[t] = attr[t]
  BY <1>0, <1>1, ApplyContext DEF ContextInv, BlockOK
<1>4. ContextOK'
  <2>1. \A t \in Attribute \ Attention : attr'[t] = "stock"
    BY <1>1, <1>3 DEF ContextInv, ContextOK
  <2>2. CASE Raises(Attention)
    <3>1. UNCHANGED <<saved, run, depth, program>>
      BY <2>2 DEF Enter
    <3> QED BY <2>1, <3>1 DEF ContextInv, ContextOK
  <2>3. CASE ~Raises(Attention)
    <3>1. ApplySubproc /\ depth' = depth + 1 /\ program' = "context"
      BY <1>1, <2>3 DEF Enter
    <3>2. attr[EngineProc] = "stock"
      BY <1>0, <1>1 DEF ContextInv, ContextOK
    <3>3. saved' = "stock"
      BY <3>1, <3>2 DEF ApplySubproc, Saved, ContextInv, ContextOK
    <3>4. run' = [run EXCEPT !["stock"] = "patched"]
      BY <3>1, <3>2 DEF ApplySubproc
    <3> QED BY <2>1, <3>1, <3>3, <3>4 DEF ContextInv, ContextOK
  <2> QED BY <2>2, <2>3
<1> QED BY <1>2, <1>3, <1>4 DEF ContextInv

LEMMA ExitContext ==
    ASSUME ContextInv, Exit
    PROVE  /\ ContextInv'
           /\ attr' = Stock /\ run' = Own
<1>0. Attention \in SUBSET Target /\ EngineProc \in Attribute \ Attention /\ Target \subseteq Attribute
  BY PatchAssumption DEF Attribute
<1>1. /\ Revert(Attention) /\ program = "context" /\ depth > 0 /\ saved = "stock"
      /\ UNCHANGED <<program, absent, imported, saved>> /\ depth' = depth - 1
  BY DEF Exit, ContextInv, ContextOK
<1>2. Inv'
  BY <1>0, <1>1, RevertSound DEF ContextInv
<1>3. \A t \in Attribute : attr'[t] = "stock"
  BY <1>0, <1>1, RevertContext DEF ContextInv, ContextOK
<1>4. attr' \in [Attribute -> Holds]
  BY <1>2 DEF Inv, RegistryOK
<1>5. attr' = Stock
  BY <1>3, <1>4 DEF Stock
<1>6. attr[EngineProc] = "stock"
  BY <1>0, <1>1 DEF ContextInv, ContextOK
<1>7. run' = [run EXCEPT !["stock"] = "stock"]
  BY <1>1, <1>6 DEF Exit, RevertSubproc
<1>8. run' = Own
  BY <1>7 DEF Own, ContextInv, ContextOK
<1>9. ContextOK'
  BY <1>1, <1>3, <1>8 DEF ContextInv, ContextOK, Own
<1>10. BlockOK'
  BY <1>1, <1>3 DEF ContextInv, BlockOK, Attribute
<1> QED BY <1>0, <1>1, <1>2, <1>3, <1>5, <1>8, <1>9, <1>10 DEF ContextInv, AbsentOK, ClassOK

LEMMA ImportBlockContext ==
    ASSUME ContextInv, ImportBlock
    PROVE  ContextInv'
<1>0. Target \in SUBSET Target
  OBVIOUS
<1>1. program = "block" /\ UNCHANGED <<program, absent, run, saved, depth>>
  BY DEF ImportBlock, context
<1>2. Inv'
  BY ImportBlockSound DEF ContextInv
<1>3. ContextOK'
  BY <1>1 DEF ContextInv, ContextOK
<1>4. CASE Raises(Target)
  <2>1. Apply(Target, "block") /\ imported' = imported
    BY <1>4 DEF ImportBlock, Apply, BlockPatched
  <2>2. BlockOK'
    BY <1>0, <1>1, <2>1, ApplyContext DEF ContextInv, BlockOK
  <2> QED BY <1>0, <1>1, <1>2, <1>3, <2>1, <2>2, ApplyContext DEF ContextInv
<1>5. CASE ~Raises(Target)
  <2>1. AbsentOK'
    BY <1>1, <1>5 DEF Raises, AbsentOK
  <2>2. EngineProc \in Attribute /\ EngineProc \notin {Scheduler, Runner, CacheFullBlocks}
    BY PatchAssumption DEF Attribute
  <2>3. attr' = [Patched(attr, Target, "block") EXCEPT ![CacheFullBlocks] = "lazy", ![Runner] = "block"]
    BY <1>5 DEF ImportBlock, BlockPatched
  <2>4. attr'[EngineProc] \in {"lazy", attr[EngineProc]}
    BY <2>2, <2>3 DEF Patched, Replacement
  <2>5. ClassOK'
    BY <2>4 DEF ContextInv, ClassOK
  <2>6. BlockOK'
    BY <1>1, <1>5 DEF ImportBlock, BlockOK
  <2> QED BY <1>2, <1>3, <2>1, <2>5, <2>6 DEF ContextInv
<1> QED BY <1>4, <1>5

LEMMA ContextInvInvariant == Spec => []ContextInv
<1>1. Init => ContextInv
  <2> SUFFICES ASSUME Init PROVE ContextInv
    OBVIOUS
  <2>1. Inv
    BY DEF Init, Inv, RegistryOK, OriginalsSound, Stock, Holds, Attribute
  <2>2. EngineProc \in Attribute /\ Target \subseteq Attribute /\ CacheFullBlocks \in Attribute
    BY PatchAssumption DEF Attribute
  <2> QED BY <2>1, <2>2 DEF Init, Stock, Own, ContextInv, ContextOK, AbsentOK, ClassOK, BlockOK
<1>2. ContextInv /\ [Next]_vars => ContextInv'
  <2> SUFFICES ASSUME ContextInv, [Next]_vars PROVE ContextInv'
    OBVIOUS
  <2>0. Target \in SUBSET Target /\ EngineProc \in Target
    BY PatchAssumption
  <2>1. CASE (\E scheduler \in {"lazy", "block"} : ApplyAll(scheduler)) \/ ImportLazy
    <3>1. PICK scheduler \in {"lazy", "block"} : Apply(Target, scheduler)
      BY <2>1 DEF ApplyAll, ImportLazy
    <3>2. /\ Inv' /\ (AbsentOK' \/ absent' # absent) /\ ClassOK'
          /\ attr'[CacheFullBlocks] = attr[CacheFullBlocks]
      BY <2>0, <3>1, ApplySound, ApplyContext DEF ContextInv
    <3>3. program \in {"lazy", "block"} /\ UNCHANGED <<program, absent, run, saved, depth>>
      BY <2>1 DEF ApplyAll, ImportLazy, context
    <3>4. imported' = imported \/ (imported = "none" /\ imported' = "lazy")
      BY <2>1 DEF ApplyAll, ImportLazy
    <3>5. BlockOK'
      BY <3>2, <3>3, <3>4 DEF ContextInv, BlockOK
    <3> QED BY <3>2, <3>3, <3>5 DEF ContextInv, ContextOK
  <2>2. CASE ImportBlock
    BY <2>2, ImportBlockContext
  <2>3. CASE RevertAll
    <3>1. /\ Revert(Target) /\ UNCHANGED <<program, absent, imported, run, saved, depth>>
          /\ program \in {"lazy", "block"}
      BY <2>3 DEF RevertAll, context
    <3>2. Inv'
      BY <2>0, <3>1, RevertSound DEF ContextInv
    <3>3. (\A t \in Target : attr'[t] = "stock") /\ attr'[CacheFullBlocks] = attr[CacheFullBlocks]
      BY <2>0, <3>1, RevertContext
    <3> QED BY <2>0, <3>1, <3>2, <3>3 DEF ContextInv, ContextOK, AbsentOK, ClassOK, BlockOK
  <2>4. CASE Enter
    BY <2>4, EnterContext
  <2>5. CASE Exit
    BY <2>5, ExitContext
  <2>6. CASE EnterSubproc
    <3>1. /\ ApplySubproc /\ program = "context"
          /\ UNCHANGED <<program, absent, attr, originals, imported, depth>>
      BY <2>6 DEF EnterSubproc, registry
    <3>2. attr[EngineProc] = "stock"
      BY <3>1, PatchAssumption DEF ContextInv, ContextOK, Attribute
    <3>3. saved' = "stock" /\ run' = [run EXCEPT !["stock"] = "patched"] /\ depth > 0
      BY <2>6, <3>1, <3>2 DEF ApplySubproc, Saved, EnterSubproc, ContextInv, ContextOK
    <3>4. ContextOK'
      BY <3>1, <3>3 DEF ContextInv, ContextOK
    <3> QED BY <3>1, <3>4 DEF ContextInv, Inv, RegistryOK, OriginalsSound, AbsentOK, ClassOK, BlockOK
  <2>7. CASE StartEngine \/ StartInProcess \/ UNCHANGED vars
    <3>1. UNCHANGED <<program, absent, attr, originals, imported, run, saved, depth>>
      BY <2>7 DEF StartEngine, StartInProcess, vars, registry, context
    <3> QED BY <3>1 DEF ContextInv, ContextOK, Inv, RegistryOK, OriginalsSound, AbsentOK, ClassOK, BlockOK
  <2> QED BY <2>1, <2>2, <2>3, <2>4, <2>5, <2>6, <2>7 DEF Next
<1> QED BY <1>1, <1>2, PTL DEF Spec

(* revert_all_patches puts vLLM's own back into every target, from every state  *)
(* the program can be in, and all of vLLM is as it was unless block attention   *)
(* was imported.                                                              *)
THEOREM RevertAllRestores == Spec => RevertRestores
<1> DEFINE P == /\ \A t \in Target : attr'[t] = "stock"
                /\ imported # "block" => attr' = Stock
<1>1. ASSUME ContextInv, RevertAll PROVE P
  <2>1. Revert(Target) /\ Target \in SUBSET Target
    BY <1>1 DEF RevertAll
  <2>2. (\A t \in Target : attr'[t] = "stock") /\ attr'[CacheFullBlocks] = attr[CacheFullBlocks]
    BY <1>1, <2>1, RevertContext
  <2>3. ASSUME imported # "block" PROVE attr' = Stock
    <3>1. \A t \in Attribute : attr'[t] = "stock"
      BY <1>1, <2>2, <2>3 DEF ContextInv, BlockOK, Attribute
    <3>2. attr' = [t \in Attribute |-> IF originals[t] # "none" /\ t \in Target THEN originals[t] ELSE attr[t]]
      BY <2>1 DEF Revert, Restored
    <3> QED BY <3>1, <3>2 DEF Stock
  <2> QED BY <2>2, <2>3
<1>2. ContextInv /\ [Next]_vars => [RevertAll => P]_vars
  BY <1>1
<1> QED BY <1>2, ContextInvInvariant, PTL DEF Spec, RevertRestores

(* Leaving the outermost context puts back vLLM and the function its engine    *)
(* processes start with, also after contexts inside it and after one that       *)
(* could not be entered.                                                      *)
THEOREM LeavingRestores == Spec => LeaveRestores
<1>1. ASSUME ContextInv, [Next]_vars, depth = 1, depth' = 0
      PROVE  attr' = Stock /\ run' = Own
  <2>1. Exit
    BY <1>1 DEF Next, ApplyAll, ImportLazy, ImportBlock, RevertAll, Enter, EnterSubproc,
                StartEngine, StartInProcess, vars, context
  <2> QED BY <1>1, <2>1, ExitContext
<1>2. ContextInv /\ [Next]_vars => [depth = 1 /\ depth' = 0 => attr' = Stock /\ run' = Own]_vars
  BY <1>1
<1> QED BY <1>2, ContextInvInvariant, PTL DEF Spec, LeaveRestores

-----------------------------------------------------------------------------
(* Where no target is vLLM's own, an engine process is the lazy one, and every  *)
(* target in it is the lazy code's.                                           *)
LEMMA PatchedEngine ==
    ASSUME ContextInv, \A t \in Target : attr[t] # "stock",
           NEW e, e = Fork \/ (\E again \in BOOLEAN : e = Spawn(again))
    PROVE  e.proc = "lazy" /\ \A t \in Target : e.attr[t] = "lazy"
<1>0. EngineProc \in Target
  BY PatchAssumption
<1>1. attr[EngineProc] = "lazy" /\ absent \notin Target
  BY <1>0 DEF ContextInv, ClassOK, AbsentOK
<1>2. run["lazy"] = "lazy"
  BY DEF ContextInv, ContextOK
<1>3. ~Raises(Target)
  BY <1>1 DEF Raises
<1>4. Reached(Target) = Target
  BY <1>3 DEF Raises, Reached
<1>5. ASSUME NEW a
      PROVE  Runs("lazy", a) = [proc |-> "lazy", attr |-> Reapplied(a)]
  BY <1>3 DEF Runs, Builds
<1>6. ASSUME NEW a, NEW t \in Target
      PROVE  Reapplied(a)[t] = "lazy"
  BY <1>4, <1>6 DEF Reapplied, Patched, Replacement, Attribute
<1>7. \E a : e = Runs("lazy", a)
  <2>1. CASE e = Fork
    BY <1>1, <1>2, <2>1 DEF Fork
  <2>2. CASE \E again \in BOOLEAN : e = Spawn(again)
    <3>1. PICK again \in BOOLEAN : e = Spawn(again)
      BY <2>2
    <3>2. e = Runs("lazy", SpawnedWith(again))
      BY <1>1, <1>2, <3>1 DEF Spawn
    <3> QED BY <3>2
  <2> QED BY <2>1, <2>2
<1> QED BY <1>5, <1>6, <1>7

(* An engine process of a program whose vLLM is patched is the lazy one,       *)
(* however it is started and whatever scheduler and runner the program has     *)
(* installed.                                                                *)
THEOREM EngineProcessesAreLazy == Spec => []EngineProcessIsLazy
<1>1. Init => EngineProcessIsLazy
  BY DEF Init, NoEngine, EngineProcessIsLazy
<1>2. ContextInv /\ EngineProcessIsLazy /\ [Next]_vars => EngineProcessIsLazy'
  <2> SUFFICES ASSUME ContextInv, EngineProcessIsLazy, [Next]_vars PROVE EngineProcessIsLazy'
    OBVIOUS
  <2>1. CASE UNCHANGED engine
    BY <2>1 DEF EngineProcessIsLazy
  <2>2. CASE StartEngine
    <3>1. PICK e : (e = Fork \/ \E again \in BOOLEAN : e = Spawn(again)) /\ engine' = Started(TRUE, e)
      BY <2>2 DEF StartEngine
    <3>2. engine'.proc = e.proc /\ engine'.attr = e.attr /\ engine'.client = attr
      BY <3>1 DEF Started
    <3>3. CASE \A t \in Target : attr[t] # "stock"
      <4>1. e.proc = "lazy" /\ \A t \in Target : e.attr[t] = "lazy"
        BY <3>1, <3>3, PatchedEngine
      <4> QED BY <3>2, <4>1 DEF EngineProcessIsLazy
    <3>4. CASE ~(\A t \in Target : attr[t] # "stock")
      BY <3>2, <3>4 DEF EngineProcessIsLazy
    <3> QED BY <3>3, <3>4
  <2>3. CASE StartInProcess
    <3>1. engine'.own = FALSE
      BY <2>3 DEF StartInProcess, Started
    <3> QED BY <3>1 DEF EngineProcessIsLazy
  <2>4. StartEngine \/ StartInProcess \/ UNCHANGED engine
    BY DEF Next, ApplyAll, ImportLazy, ImportBlock, RevertAll, Enter, EnterSubproc, Exit, vars
  <2> QED BY <2>1, <2>2, <2>3, <2>4
<1> QED BY <1>1, <1>2, ContextInvInvariant, PTL DEF Spec

-----------------------------------------------------------------------------
(* What an engine can be, whatever the functions it is started with.           *)
Procs == {"none", "stock", "lazy", "failed"}

LEMMA RunsType ==
    ASSUME NEW f \in {"stock", "lazy", "patched"}, NEW a, a[EngineProc] \in {"stock", "lazy"}
    PROVE  Runs(f, a).proc \in Procs
<1>1. CASE f = "patched"
  BY <1>1 DEF Runs, Procs
<1>2. CASE f \in {"stock", "lazy"}
  BY <1>2 DEF Runs, Builds, Procs
<1> QED BY <1>1, <1>2

LEMMA EngineType ==
    ASSUME ContextInv, StartEngine \/ StartInProcess
    PROVE  engine'.proc \in Procs
<1>0. /\ EngineProc \in Attribute /\ EngineProc \notin {Scheduler, Runner, CacheFullBlocks}
  BY PatchAssumption DEF Attribute
<1>1. /\ attr[EngineProc] \in {"stock", "lazy"}
      /\ run \in [{"stock", "lazy"} -> {"stock", "lazy", "patched"}]
  BY DEF ContextInv, ClassOK, ContextOK
<1>2. InProcess.proc \in Procs
  BY DEF InProcess, Procs
<1>3. Fork.proc \in Procs
  BY <1>1, RunsType DEF Fork
<1>4. ASSUME NEW again \in BOOLEAN PROVE Spawn(again).proc \in Procs
  <2> DEFINE a == SpawnedWith(again)
             f == run[attr[EngineProc]]
             h == IF f = "stock" THEN Own[a[EngineProc]] ELSE f
  <2>1. \A s \in {"lazy", "block"} : Patched(Stock, Target, s)[EngineProc] \in {"stock", "lazy"}
    BY <1>0 DEF Patched, Replacement, Stock
  <2>2. BlockPatched(Stock)[EngineProc] \in {"stock", "lazy"}
    BY <1>0, <2>1 DEF BlockPatched, Patched
  <2>3. Stock[EngineProc] = "stock"
    BY <1>0 DEF Stock
  <2>4. a[EngineProc] \in {"stock", "lazy"}
    BY <2>1, <2>2, <2>3 DEF SpawnedWith
  <2>5. h \in {"stock", "lazy", "patched"}
    BY <1>1, <2>4 DEF Own
  <2>6. Spawn(again) = Runs(h, a)
    BY DEF Spawn
  <2> HIDE DEF a, f, h
  <2> QED BY <2>4, <2>5, <2>6, RunsType
<1>5. \E e, own : engine' = Started(own, e) /\ e.proc \in Procs
  <2>1. CASE StartInProcess
    BY <2>1, <1>2 DEF StartInProcess
  <2>2. CASE StartEngine
    <3>1. CASE engine' = Started(TRUE, Fork)
      BY <3>1, <1>3
    <3>2. CASE \E again \in BOOLEAN : engine' = Started(TRUE, Spawn(again))
      BY <3>2, <1>4
    <3> QED BY <2>2, <3>1, <3>2 DEF StartEngine
  <2> QED BY <2>1, <2>2
<1> QED BY <1>5 DEF Started

(* The rest of the types: how deep contexts are, and what is imported.         *)
RestOK ==
    /\ program \in Programs /\ absent \in Target \cup {Nothing}
    /\ imported \in {"none", "lazy", "block"}
    /\ depth \in 0..MaxDepth /\ cuda \in BOOLEAN /\ engine.proc \in Procs

LEMMA RestAlways == Spec => [](ContextInv /\ RestOK)
<1>1. Init => RestOK
  <2> SUFFICES ASSUME Init PROVE RestOK
    OBVIOUS
  <2>1. program \in Programs /\ absent \in Target \cup {Nothing} /\ imported = "none" /\ depth = 0
    BY DEF Init
  <2>2. 0 \in 0..MaxDepth
    BY PatchAssumption
  <2>3. cuda \in BOOLEAN
    <3>1. cuda = FALSE
      BY DEF Init
    <3> QED BY <3>1
  <2>4. engine.proc = "none"
    BY DEF Init, NoEngine
  <2> QED BY <2>1, <2>2, <2>3, <2>4 DEF RestOK, Procs
<1>2. ContextInv /\ RestOK /\ [Next]_vars => RestOK'
  <2> SUFFICES ASSUME ContextInv, RestOK, [Next]_vars PROVE RestOK'
    OBVIOUS
  <2>0. MaxDepth \in Nat
    BY PatchAssumption
  <2>1. CASE (\E scheduler \in {"lazy", "block"} : ApplyAll(scheduler)) \/ RevertAll \/ UNCHANGED vars
    BY <2>1 DEF ApplyAll, RevertAll, vars, registry, context, RestOK
  <2>2. CASE ImportLazy \/ ImportBlock
    BY <2>2 DEF ImportLazy, ImportBlock, context, RestOK
  <2>3. CASE Enter
    <3>1. /\ UNCHANGED <<program, absent, imported, engine>>
          /\ cuda' \in BOOLEAN
      BY <2>3 DEF Enter, ApplyCurproc
    <3>2. depth' \in 0..MaxDepth
      BY <2>0, <2>3 DEF Enter, RestOK
    <3> QED BY <3>1, <3>2 DEF RestOK
  <2>4. CASE EnterSubproc
    BY <2>4 DEF EnterSubproc, registry, RestOK
  <2>5. CASE Exit
    <3>1. UNCHANGED <<program, absent, imported, engine>> /\ cuda' = TRUE
      BY <2>5 DEF Exit
    <3>2. depth' \in 0..MaxDepth
      BY <2>0, <2>5 DEF Exit, RestOK
    <3> QED BY <3>1, <3>2 DEF RestOK
  <2>6. CASE StartEngine \/ StartInProcess
    <3>1. UNCHANGED <<program, absent, imported, depth, cuda>>
      BY <2>6 DEF StartEngine, StartInProcess, registry, context
    <3>2. engine'.proc \in Procs
      BY <2>6, EngineType
    <3> QED BY <3>1, <3>2 DEF RestOK
  <2> QED BY <2>1, <2>2, <2>3, <2>4, <2>5, <2>6 DEF Next
<1> QED BY <1>1, <1>2, ContextInvInvariant, PTL DEF Spec

(* The types of the registry, of the contexts and of the engine processes.     *)
THEOREM PatchTypes == Spec => []TypeOK
<1>1. ContextInv /\ RestOK => TypeOK
  BY DEF ContextInv, Inv, RegistryOK, Holds, ContextOK, RestOK, Procs, TypeOK
<1> QED BY <1>1, RestAlways, PTL

=============================================================================
