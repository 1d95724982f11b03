-------------------------- MODULE MCLazyScheduler --------------------------
(* Instances of LazyScheduler for TLC.                                        *)
EXTENDS LazyScheduler, TLC

CONSTANTS A, B, C, E

(* A long document (two blocks) and a short one (one block).                  *)
D1 == <<1, 1, 1, 1>>
D2 == <<2, 2>>

(* A and B ask the same query behind the same documents in two orders; C      *)
(* names one document twice; E's plain prompt starts with the text of D2.     *)
PressureDocs == A :> <<D1, D2>> @@ B :> <<D2, D1>> @@ C :> <<D2, D2>> @@ E :> <<>>
PressurePrompt == A :> <<5, 6>> @@ B :> <<5, 6>> @@ C :> <<5, 6, 7>> @@ E :> <<2, 2, 5>>
PressureMaxTokens == A :> 3 @@ B :> 2 @@ C :> 2 @@ E :> 2

(* Different document sets with the same last document, and one query that is *)
(* shorter than a block: its first full block holds generated tokens.         *)
D3 == <<3, 3>>
AliasDocs == A :> <<D3, D2>> @@ B :> <<D1, D2>>
AliasPrompt == A :> <<5>> @@ B :> <<5>>
AliasMaxTokens == A :> 3 @@ B :> 3

(* One document of two blocks and a guided request that needs it.             *)
OneDoc == A :> <<D1>>
OneDocPrompt == A :> <<5, 6>>
OneDocMaxTokens == A :> 2

(* A query of nothing but the start token, which the processor takes off.     *)
NoQuery == A :> <<>>
=============================================================================
