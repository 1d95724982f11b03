----------------------------- MODULE MCFrontend -----------------------------
(* Instances of Frontend for TLC.                                             *)
EXTENDS Frontend, TLC

CONSTANTS C1, C2

Of(docs, kind, n, defect) == [docs |-> docs, kind |-> kind, n |-> n, defect |-> defect]

Plain == Of(FALSE, "sampling", 1, "none")
WithDocs == Of(TRUE, "sampling", 1, "none")
ManyPlain == Of(FALSE, "sampling", 2, "none")
GuidedWithDocs == Of(TRUE, "guided", 1, "none")
ManyWithDocs == Of(TRUE, "sampling", 2, "none")
BadOption == Of(FALSE, "sampling", 1, "option")
BadText == Of(TRUE, "sampling", 1, "text")
Adapter == Of(TRUE, "lora", 1, "none")
Pooling == Of(FALSE, "pooling", 1, "none")

Stays(name, shape) == [name |-> name, shape |-> shape, leaves |-> FALSE, streams |-> FALSE]
Streams(name, shape) == [name |-> name, shape |-> shape, leaves |-> TRUE, streams |-> TRUE]
Leaves(name, shape) == [name |-> name, shape |-> shape, leaves |-> TRUE, streams |-> FALSE]

(* A call and a second one under the same id, accepted or refused; a call that *)
(* fans out, and may be left; one next to it that is served, refused or fails; *)
(* a guided call with documents, and one next to it that may be left.         *)
SmallScenarios ==
    {C1 :> Stays("a", WithDocs) @@ C2 :> Stays("a", s) : s \in {Plain, BadOption}}
    \cup {C1 :> Stays("a", ManyWithDocs) @@ C2 :> Stays("a", ManyWithDocs)}
    \cup {C1 :> Leaves("a", ManyWithDocs) @@ C2 :> Stays("b", s) : s \in {Plain, Adapter}}
    \cup {C1 :> Streams("a", WithDocs) @@ C2 :> Stays("b", s) : s \in {Pooling, BadText, Plain}}
    \cup {C1 :> Stays("a", GuidedWithDocs) @@ C2 :> Streams("b", Plain)}

(* Batches of up to two prompts, one of which fans out and one is refused.     *)
SmallBatches ==
    {<<>>, <<WithDocs, ManyPlain>>, <<Plain, ManyWithDocs>>}
=============================================================================
