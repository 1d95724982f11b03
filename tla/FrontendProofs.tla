--------------------------- MODULE FrontendProofs ---------------------------
(* For any calls, scenarios and batches: the types of Frontend, and that a      *)
(* batch which returns is complete.  For calls that do not share their name     *)
(* with one that may abort it: that no call is forgotten, that nothing of a     *)
(* cancelled one goes on, and that each is given its own outputs.               *)
EXTENDS Frontend, SequenceTheorems, TLAPS

(* The channel to the core carries requests and aborts.                        *)
IdSet == (STRING \cup Nat) \X (0..2)
Kinds == {"sampling", "guided", "pooling", "lora", "logprobs"}
Requests == [id : IdSet, by : Call \cup Nat, docs : BOOLEAN, kind : Kinds,
             spawned : BOOLEAN, told : BOOLEAN]
Message == [type : {"ADD"}, request : Requests] \cup [type : {"ABORT"}, ids : SUBSET IdSet]
ChannelOK == inbox \in Seq(Message)

(* What the coroutines keep: an abort names ids and says how the call ends.    *)
CallOK ==
    /\ kids \in [Call -> SUBSET IdSet]
    /\ aborts \in [Call -> [ids : SUBSET IdSet, to : Ended \cup {"none"}]]
    /\ \A c \in Call : pc[c] = "aborting" => aborts[c].to \in Ended
    /\ \A c \in Call : pc[c] = "sending" => idx[c] \in 1..2
    /\ \A n \in DOMAIN parents : parents[n] \in Call
    /\ api = "AsyncLazyLLM" => \A id \in DOMAIN states : states[id] \in Call

(* The entry point that is not used does nothing.                              *)
ApiOK == /\ api = "LazyLLM" => \A c \in Call : pc[c] = "idle"
         /\ api = "AsyncLazyLLM" => phase = "ready"

(* The prompts of a batch that was refused half-way.                           *)
Abandoned(k) == \E b \in abandoned : k \in b[1] .. b[2] - 1

(* Each prompt of the batch has requests that are registered or was answered;   *)
(* whatever else is registered or answered belongs to a batch that was refused, *)
(* and what was returned once is neither.                                      *)
InBatch(k) == phase # "ready" /\ k \in batch.first .. counter - 1
Adding == phase \in {"adding", "running"}
Known(k) == Abandoned(k) \/ InBatch(k)
Returned(k) == \E l \in DOMAIN answers : k \in answers[l].given
BatchOK ==
    /\ batch.first \in 0..counter /\ batch.prompts \in Seq(Shape)
    /\ answers \in Seq([asked : SUBSET Nat, given : SUBSET Nat])
    /\ \A l \in DOMAIN answers : answers[l].given \subseteq 0..counter-1
    /\ api = "LazyLLM" =>
          /\ \A id \in DOMAIN states :
                \E k \in 0..counter-1, i \in 0..2 : id = <<k, i>> /\ Known(k) /\ ~Returned(k)
          /\ Adding => \A k \in given : /\ k \in 0..counter-1 /\ Known(k) /\ ~Returned(k)
                                       /\ Waiting(k) = {}
          /\ Adding => \A k \in batch.first .. counter - 1 : Waiting(k) # {} \/ k \in given

Inv == TypeOK /\ ChannelOK /\ CallOK /\ ApiOK /\ BatchOK /\ BatchComplete

-----------------------------------------------------------------------------
LEMMA AskTypes ==
    ASSUME TypeOK, NEW c \in Call
    PROVE  ask[c].name \in STRING /\ ask[c].shape \in Shape /\ ask[c].streams \in BOOLEAN
BY FrontendAssumption DEF TypeOK, Ask

LEMMA AddIsMessage ==
    ASSUME NEW id \in IdSet, NEW by \in Call \cup Nat, NEW s \in Shape,
           NEW streams \in BOOLEAN
    PROVE  Add(Request(id, by, s, streams)) \in Message
<1>1. Request(id, by, s, streams) \in Requests
  BY DEF Request, Requests, Shape, Kinds
<1> QED BY <1>1 DEF Add, Message

LEMMA AddOfIsMessage ==
    ASSUME Inv, NEW c \in Call, pc[c] = "sending"
    PROVE  AddOf(c) \in Message
<1>1. IdOf(c, idx[c]) \in IdSet
  BY AskTypes DEF Inv, CallOK, IdOf, SingleId, ChildId, IdSet
<1>2. ask[c].shape \in Shape /\ ask[c].streams \in BOOLEAN
  BY AskTypes DEF Inv, CallOK
<1> QED BY <1>1, <1>2, AddIsMessage DEF AddOf

LEMMA AppendMessage ==
    ASSUME ChannelOK, NEW m \in Message
    PROVE  Append(inbox, m) \in Seq(Message)
BY DEF ChannelOK

-----------------------------------------------------------------------------
(* What an action of a coroutine has to establish.                             *)
CallTypes ==
    /\ pc \in [Call -> Ended \cup {"idle", "sending", "waiting", "yielded", "aborting"}]
    /\ idx \in [Call -> 0..2]
    /\ \A c \in Call : kids[c] \subseteq {<<ask[c].name, i>> : i \in 1..2}
    /\ CallOK

LEMMA InvGivesCallTypes == Inv => CallTypes
BY DEF Inv, TypeOK, CallTypes

LEMMA AsyncStep ==
    ASSUME Inv, api = "AsyncLazyLLM", UNCHANGED <<api, ask, batchVars>>,
           CallTypes', ChannelOK', got' \in [Call -> {"nothing", "part", "final", "error"}],
           strays' \subseteq Call, errored' \in BOOLEAN, coreUp' \in BOOLEAN
    PROVE  Inv'
<1>1. TypeOK'
  BY DEF Inv, TypeOK, CallTypes, CallOK, batchVars
<1>2. ApiOK' /\ BatchComplete'
  BY DEF Inv, ApiOK, BatchComplete, batchVars
<1>3. BatchOK'
  BY DEF Inv, BatchOK, batchVars
<1> QED BY <1>1, <1>2, <1>3 DEF Inv, CallTypes

LEMMA ToAbortIds ==
    ASSUME Inv, NEW c \in Call
    PROVE  ToAbort(ask[c].name) \in SUBSET IdSet
<1>1. SingleId(ask[c].name) \in IdSet
  BY AskTypes DEF Inv, SingleId, IdSet
<1>2. ASSUME ask[c].name \in DOMAIN parents PROVE kids[parents[ask[c].name]] \in SUBSET IdSet
  BY <1>2 DEF Inv, CallOK
<1> QED BY <1>1, <1>2 DEF ToAbort

LEMMA RaiseTypes ==
    ASSUME Inv, api = "AsyncLazyLLM", NEW c \in Call, NEW exception, NEW to \in Ended,
           Raise(c, exception, to), UNCHANGED <<api, ask, idx>>, kids' \in [Call -> SUBSET IdSet],
           \A d \in Call : kids'[d] \subseteq {<<ask[d].name, i>> : i \in 1..2}
    PROVE  CallTypes'
<1>0. CallTypes
  BY InvGivesCallTypes
<1>1. CASE Aborts(exception)
  <2>1. /\ pc' = [pc EXCEPT ![c] = "aborting"]
        /\ aborts' = [aborts EXCEPT ![c] = [ids |-> ToAbort(ask[c].name), to |-> to]]
        /\ states' = Without(ToAbort(ask[c].name))
        /\ parents' = IF Registered(SingleId(ask[c].name)) THEN parents
                      ELSE [n \in DOMAIN parents \ {ask[c].name} |-> parents[n]]
    BY <1>1 DEF Raise
  <2>2. aborts' \in [Call -> [ids : SUBSET IdSet, to : Ended \cup {"none"}]]
    BY <2>1, <1>0, ToAbortIds DEF CallTypes, CallOK
  <2>3. \A d \in Call : pc'[d] = "aborting" => aborts'[d].to \in Ended
    BY <2>1, <1>0 DEF CallTypes, CallOK
  <2>4. \A n \in DOMAIN parents' : parents'[n] \in Call
    BY <2>1, <1>0 DEF CallTypes, CallOK
  <2>5. \A id \in DOMAIN states' : states'[id] \in Call
    BY <2>1, <1>0 DEF CallTypes, CallOK, Without
  <2>6. \A d \in Call : pc'[d] = "sending" => idx'[d] \in 1..2
    BY <2>1, <1>0 DEF CallTypes, CallOK
  <2> QED BY <2>1, <2>2, <2>3, <2>4, <2>5, <2>6, <1>0 DEF CallTypes, CallOK
<1>2. CASE ~Aborts(exception)
  <2>1. pc' = [pc EXCEPT ![c] = to] /\ UNCHANGED <<aborts, states, parents>>
    BY <1>2 DEF Raise
  <2>2. pc' \in [Call -> Ended \cup {"idle", "sending", "waiting", "yielded", "aborting"}]
    BY <2>1, <1>0 DEF CallTypes
  <2>3. \A d \in Call : pc'[d] = "aborting" => aborts'[d].to \in Ended
    BY <2>1, <1>0 DEF CallTypes, CallOK, Ended
  <2>4. \A d \in Call : pc'[d] = "sending" => idx'[d] \in 1..2
    BY <2>1, <1>0 DEF CallTypes, CallOK, Ended
  <2> QED BY <2>1, <2>2, <2>3, <2>4, <1>0 DEF CallTypes, CallOK
<1> QED BY <1>1, <1>2

LEMMA RegisterTypes ==
    ASSUME Inv, api = "AsyncLazyLLM", NEW c \in Call, NEW i \in 1..2,
           Register(c, i), UNCHANGED <<api, ask>>
    PROVE  CallTypes'
<1>0. CallTypes
  BY InvGivesCallTypes
<1>1. ask[c].name \in STRING
  BY AskTypes DEF Inv
<1>2. ASSUME ask[c].shape.n # 1
      PROVE  IdOf(c, i) = <<ask[c].name, i>> /\ IdOf(c, i) \in IdSet
  BY <1>1, <1>2 DEF IdOf, ChildId, IdSet
<1>3. /\ kids' = IF ask[c].shape.n = 1 THEN kids ELSE [kids EXCEPT ![c] = @ \cup {IdOf(c, i)}]
      /\ kids' \in [Call -> SUBSET IdSet]
      /\ \A d \in Call : kids'[d] \subseteq {<<ask[d].name, k>> : k \in 1..2}
  <2>1. kids' = IF ask[c].shape.n = 1 THEN kids ELSE [kids EXCEPT ![c] = @ \cup {IdOf(c, i)}]
    BY DEF Register
  <2> QED BY <2>1, <1>0, <1>2 DEF CallTypes, CallOK
<1>4. CASE Registered(IdOf(c, i))
  <2>1. Raise(c, "ValueError", "refused") /\ UNCHANGED idx
    BY <1>4 DEF Register
  <2> QED BY <2>1, <1>3, RaiseTypes DEF Ended
<1>5. CASE ~Registered(IdOf(c, i))
  <2>1. /\ pc' = [pc EXCEPT ![c] = "sending"] /\ idx' = [idx EXCEPT ![c] = i]
        /\ states' = With(IdOf(c, i), c) /\ UNCHANGED aborts
        /\ \/ UNCHANGED parents
           \/ parents' = [n \in DOMAIN parents \cup {ask[c].name} |->
                             IF n = ask[c].name THEN c ELSE parents[n]]
    BY <1>5 DEF Register
  <2>2. \A n \in DOMAIN parents' : parents'[n] \in Call
    BY <2>1, <1>0 DEF CallTypes, CallOK
  <2>3. \A id \in DOMAIN states' : states'[id] \in Call
    BY <2>1, <1>0 DEF CallTypes, CallOK, With
  <2>4. \A d \in Call : /\ pc'[d] = "aborting" => aborts'[d].to \in Ended
                        /\ pc'[d] = "sending" => idx'[d] \in 1..2
    BY <2>1, <1>0 DEF CallTypes, CallOK
  <2> QED BY <2>1, <2>2, <2>3, <2>4, <1>0, <1>3 DEF CallTypes, CallOK
<1> QED BY <1>4, <1>5

-----------------------------------------------------------------------------
(* One lemma per action of a coroutine.                                        *)
LEMMA GenerateInv ==
    ASSUME Inv, NEW c \in Call, Generate(c)
    PROVE  Inv'
<1>0. CallTypes /\ api = "AsyncLazyLLM" /\ ask[c].shape \in Shape
  BY InvGivesCallTypes, AskTypes DEF Generate, Inv
<1>1. UNCHANGED <<api, ask, got, strays, batchVars, errored, coreVars>>
  BY DEF Generate
<1>2. ASSUME NEW exception, NEW to \in Ended, Raise(c, exception, to), UNCHANGED <<idx, kids>>
      PROVE  CallTypes'
  BY <1>0, <1>1, <1>2, RaiseTypes DEF CallTypes, CallOK
<1>3. ASSUME Register(c, 1)
      PROVE  CallTypes'
  BY <1>0, <1>1, <1>3, RegisterTypes
<1>4. CallTypes'
  <2>1. CASE errored
    <3>1. Raise(c, "EngineDeadError", "failed") /\ UNCHANGED <<idx, kids>>
      BY <2>1 DEF Generate
    <3> QED BY <3>1, <1>2 DEF Ended
  <2>2. CASE ~errored /\ ask[c].shape.kind = "pooling"
    <3>1. Raise(c, "Exception", "failed") /\ UNCHANGED <<idx, kids>>
      BY <2>2 DEF Generate
    <3> QED BY <3>1, <1>2 DEF Ended
  <2>3. CASE ~errored /\ ask[c].shape.kind # "pooling" /\ Outcome(ask[c].shape) # "accepted"
    <3>1. Raise(c, Outcome(ask[c].shape), "refused") /\ UNCHANGED <<idx, kids>>
      BY <2>3 DEF Generate
    <3> QED BY <3>1, <1>2 DEF Ended
  <2>4. CASE ~errored /\ ask[c].shape.kind # "pooling" /\ Outcome(ask[c].shape) = "accepted"
    <3>1. Register(c, 1)
      BY <2>4 DEF Generate
    <3> QED BY <3>1, <2>4, <1>3
  <2> QED BY <2>1, <2>2, <2>3, <2>4
<1>5. ChannelOK'
  BY <1>1 DEF Inv, ChannelOK, coreVars
<1> QED BY <1>0, <1>1, <1>4, <1>5, AsyncStep DEF Inv, TypeOK, coreVars

LEMMA SentInv ==
    ASSUME Inv, NEW c \in Call, Sent(c)
    PROVE  Inv'
<1>0. /\ CallTypes /\ pc[c] = "sending" /\ api = "AsyncLazyLLM"
      /\ ask[c].shape \in Shape /\ idx[c] \in 1..2
  BY InvGivesCallTypes, AskTypes DEF Sent, Inv, ApiOK, CallOK, TypeOK
<1>1. UNCHANGED <<api, ask, got, strays, batchVars, errored, live, outbox, coreUp>>
  BY DEF Sent
<1>2. ChannelOK'
  <2>1. Append(inbox, AddOf(c)) \in Seq(Message)
    BY <1>0, AddOfIsMessage, AppendMessage DEF Inv
  <2> QED BY <2>1 DEF Sent, Inv, ChannelOK
<1>3. CallTypes'
  <2>1. CASE ~Sends
    <3>1. Raise(c, "EngineDeadError", "failed") /\ UNCHANGED <<idx, kids>>
      BY <2>1 DEF Sent
    <3> QED BY <3>1, <1>0, <1>1, RaiseTypes DEF Ended, CallTypes, CallOK
  <2>2. CASE Sends /\ idx[c] < ask[c].shape.n
    <3>1. Register(c, idx[c] + 1)
      BY <2>2 DEF Sent
    <3>2. idx[c] + 1 \in 1..2
      BY <2>2, <1>0 DEF Shape
    <3> QED BY <3>1, <3>2, <1>0, <1>1, RegisterTypes
  <2>3. CASE Sends /\ ~(idx[c] < ask[c].shape.n)
    <3>1. pc' = [pc EXCEPT ![c] = "waiting"] /\ UNCHANGED <<idx, kids, aborts, states, parents>>
      BY <2>3 DEF Sent
    <3> QED BY <3>1, <1>0, <1>1 DEF CallTypes, CallOK, Ended
  <2> QED BY <2>1, <2>2, <2>3
<1> QED BY <1>0, <1>1, <1>2, <1>3, AsyncStep DEF Inv, TypeOK

LEMMA TakeInv ==
    ASSUME Inv, NEW c \in Call, Take(c)
    PROVE  Inv'
<1>0. CallTypes /\ pc[c] = "waiting" /\ api = "AsyncLazyLLM"
  BY InvGivesCallTypes DEF Take, Inv, ApiOK, TypeOK
<1>1. /\ UNCHANGED <<api, ask, idx, kids, strays, batchVars, errored, coreVars>>
      /\ got' = [got EXCEPT ![c] = "nothing"]
  BY DEF Take
<1>2. CallTypes'
  <2>1. CASE got[c] = "error"
    <3>1. Raise(c, "EngineDeadError", "failed")
      BY <2>1 DEF Take
    <3> QED BY <3>1, <1>0, <1>1, RaiseTypes DEF Ended, CallTypes, CallOK
  <2>2. CASE got[c] # "error"
    <3>1. PICK to \in {"yielded", "returned"} :
             pc' = [pc EXCEPT ![c] = to] /\ UNCHANGED <<aborts, states, parents>>
      BY <2>2 DEF Take
    <3> QED BY <3>1, <1>0, <1>1 DEF CallTypes, CallOK, Ended
  <2> QED BY <2>1, <2>2
<1>3. ChannelOK'
  BY <1>1 DEF Inv, ChannelOK, coreVars
<1> QED BY <1>0, <1>1, <1>2, <1>3, AsyncStep DEF Inv, TypeOK, coreVars

LEMMA CancelInv ==
    ASSUME Inv, NEW c \in Call, Cancel(c)
    PROVE  Inv'
<1>0. CallTypes /\ api = "AsyncLazyLLM"
  BY InvGivesCallTypes DEF Cancel, Inv, ApiOK, TypeOK
<1>1. /\ UNCHANGED <<api, ask, got, idx, kids, strays, batchVars, errored, live, outbox, coreUp>>
      /\ Raise(c, "CancelledError", "cancelled")
  BY DEF Cancel
<1>2. CallTypes'
  BY <1>0, <1>1, RaiseTypes DEF Ended, CallTypes, CallOK
<1>3. ChannelOK'
  <2>1. pc[c] = "sending" => Append(inbox, AddOf(c)) \in Seq(Message)
    BY AddOfIsMessage, AppendMessage DEF Inv
  <2> QED BY <2>1 DEF Cancel, Inv, ChannelOK
<1> QED BY <1>0, <1>1, <1>2, <1>3, AsyncStep DEF Inv, TypeOK

LEMMA SendAbortInv ==
    ASSUME Inv, NEW c \in Call, SendAbort(c)
    PROVE  Inv'
<1>0. CallTypes /\ pc[c] = "aborting" /\ api = "AsyncLazyLLM"
  BY InvGivesCallTypes DEF SendAbort, Inv, ApiOK, TypeOK
<1>1. /\ UNCHANGED <<api, ask, idx, kids, got, strays, batchVars, procVars, live, outbox, coreUp>>
      /\ pc' = [pc EXCEPT ![c] = aborts[c].to]
      /\ aborts' = [aborts EXCEPT ![c] = [ids |-> {}, to |-> "none"]]
  BY DEF SendAbort
<1>2. CallTypes'
  <2>1. aborts[c].to \in Ended
    BY <1>0 DEF CallTypes, CallOK
  <2> QED BY <2>1, <1>0, <1>1 DEF CallTypes, CallOK, Ended, procVars
<1>3. ChannelOK'
  <2>1. Abort(aborts[c].ids) \in Message
    BY <1>0 DEF CallTypes, CallOK, Abort, Message
  <2>2. Append(inbox, Abort(aborts[c].ids)) \in Seq(Message)
    BY <2>1, AppendMessage DEF Inv
  <2> QED BY <2>2 DEF SendAbort, Inv, ChannelOK
<1> QED BY <1>0, <1>1, <1>2, <1>3, AsyncStep DEF Inv, TypeOK, procVars

(* A coroutine that is resumed or closed at its yield changes pc alone.        *)
LEMMA YieldInv ==
    ASSUME Inv, NEW c \in Call, Resume(c) \/ Close(c)
    PROVE  Inv'
<1>0. CallTypes /\ pc[c] = "yielded" /\ api = "AsyncLazyLLM"
  BY InvGivesCallTypes DEF Resume, Close, Inv, ApiOK, TypeOK
<1>1. /\ UNCHANGED <<api, ask, idx, kids, got, aborts, strays, batchVars, procVars, coreVars>>
      /\ \E to \in {"waiting", "closed"} : pc' = [pc EXCEPT ![c] = to]
  BY DEF Resume, Close
<1>2. CallTypes'
  BY <1>0, <1>1 DEF CallTypes, CallOK, Ended, procVars
<1>3. ChannelOK'
  BY <1>1 DEF Inv, ChannelOK, coreVars
<1> QED BY <1>0, <1>1, <1>2, <1>3, AsyncStep DEF Inv, TypeOK, procVars, coreVars

LEMMA HandleOutputInv ==
    ASSUME Inv, HandleOutput
    PROVE  Inv'
<1>0. CallTypes /\ api = "AsyncLazyLLM"
  BY InvGivesCallTypes DEF HandleOutput
<1>1. UNCHANGED <<api, pc, ask, idx, aborts, batchVars, errored, inbox, live, coreUp>>
  BY DEF HandleOutput
<1>2. ChannelOK'
  BY <1>1 DEF Inv, ChannelOK
<1>3. CASE ~Registered(Head(outbox).id)
  <2>1. UNCHANGED <<got, kids, states, parents, strays>>
    BY <1>3 DEF HandleOutput
  <2>2. CallTypes'
    BY <2>1, <1>0, <1>1 DEF CallTypes, CallOK
  <2> QED BY <2>1, <2>2, <1>0, <1>1, <1>2, AsyncStep DEF Inv, TypeOK
<1>4. CASE Registered(Head(outbox).id)
  <2> DEFINE o == Head(outbox)
             c == states[o.id]
  <2>1. c \in Call
    BY <1>0, <1>4 DEF CallTypes, CallOK, Registered
  <2>2. /\ kids' = IF o.final THEN [kids EXCEPT ![c] = kids[c] \ {o.id}] ELSE kids
        /\ states' = IF o.final THEN Without({o.id}) ELSE states
        /\ \/ UNCHANGED parents
           \/ parents' = [n \in DOMAIN parents \ {ask[c].name} |-> parents[n]]
        /\ \E g \in {"final", "part", got[c]} : got' = [got EXCEPT ![c] = g]
        /\ strays' \subseteq strays \cup {c}
    <3>1. got = [got EXCEPT ![c] = got[c]]
      BY <2>1 DEF Inv, TypeOK
    <3> QED BY <1>4, <3>1 DEF HandleOutput
  <2> HIDE DEF o, c
  <2>3. /\ kids' \in [Call -> SUBSET IdSet]
        /\ \A d \in Call : kids'[d] \subseteq kids[d]
    BY <2>1, <2>2, <1>0 DEF CallTypes, CallOK
  <2>4. \A n \in DOMAIN parents' : parents'[n] \in Call
    BY <2>2, <1>0 DEF CallTypes, CallOK
  <2>5. \A id \in DOMAIN states' : states'[id] \in Call
    BY <2>2, <1>0 DEF CallTypes, CallOK, Without
  <2>6. CallTypes'
    BY <2>3, <2>4, <2>5, <1>0, <1>1 DEF CallTypes, CallOK
  <2>7. got' \in [Call -> {"nothing", "part", "final", "error"}] /\ strays' \subseteq Call
    BY <2>1, <2>2 DEF Inv, TypeOK
  <2> QED BY <2>6, <2>7, <1>0, <1>1, <1>2, AsyncStep DEF Inv, TypeOK
<1> QED BY <1>3, <1>4

(* What happens to the channels and the core concerns the types only.          *)
LEMMA CoreStep ==
    ASSUME Inv, UNCHANGED <<api, pc, ask, idx, kids, aborts, strays, batchVars, states, parents>>,
           ChannelOK', got' \in [Call -> {"nothing", "part", "final", "error"}],
           errored' \in BOOLEAN, coreUp' \in BOOLEAN
    PROVE  Inv'
<1>1. TypeOK' /\ CallOK' /\ ApiOK' /\ BatchComplete'
  BY DEF Inv, TypeOK, CallOK, ApiOK, BatchComplete, batchVars
<1>2. BatchOK'
  BY DEF Inv, BatchOK, Known, Abandoned, InBatch, Returned, Waiting, Adding, batchVars
<1> QED BY <1>1, <1>2 DEF Inv

LEMMA CoreInv ==
    ASSUME Inv, \/ NoticeDeath \/ PropagateDeath \/ Receive \/ Die \/ Quiescent
                \/ \E r \in live : SpawnDocument(r) \/ Sample(r) \/ Finish(r)
    PROVE  Inv'
<1>1. CASE NoticeDeath \/ PropagateDeath \/ Quiescent
           \/ \E r \in live : SpawnDocument(r) \/ Sample(r) \/ Finish(r)
  <2>1. /\ UNCHANGED <<api, pc, ask, idx, kids, aborts, strays, batchVars, states, parents, inbox, coreUp>>
        /\ errored' \in BOOLEAN
    BY <1>1 DEF NoticeDeath, PropagateDeath, Quiescent, SpawnDocument, Sample, Finish, vars,
                callVars, procVars, coreVars, Inv, TypeOK
  <2>2. got' \in [Call -> {"nothing", "part", "final", "error"}]
    BY <1>1 DEF NoticeDeath, PropagateDeath, Quiescent, SpawnDocument, Sample, Finish, vars,
                callVars, Inv, TypeOK
  <2>3. ChannelOK'
    BY <2>1 DEF Inv, ChannelOK
  <2> QED BY <2>1, <2>2, <2>3, CoreStep DEF Inv, TypeOK
<1>2. CASE Receive
  <2>1. /\ UNCHANGED <<api, callVars, batchVars, procVars, outbox, coreUp>>
        /\ inbox # <<>> /\ inbox' = Tail(inbox)
    BY <1>2 DEF Receive
  <2>2. ChannelOK'
    BY <2>1, HeadTailProperties DEF Inv, ChannelOK
  <2> QED BY <2>1, <2>2, CoreStep DEF Inv, TypeOK, callVars, procVars
<1>3. CASE Die
  <2>1. UNCHANGED <<api, callVars, batchVars, procVars>> /\ inbox' = <<>> /\ coreUp' = FALSE
    BY <1>3 DEF Die
  <2>2. ChannelOK'
    BY <2>1 DEF ChannelOK
  <2> QED BY <2>1, <2>2, CoreStep DEF Inv, TypeOK, callVars, procVars
<1> QED BY <1>1, <1>2, <1>3

-----------------------------------------------------------------------------
(* LazyLLM.generate.                                                           *)

(* The actions of a batch leave the coroutines as they are.                    *)
LEMMA BatchStep ==
    ASSUME Inv, UNCHANGED <<api, callVars, parents>>, api = "LazyLLM",
           phase' \in {"ready", "adding", "running", "failed"}, counter' \in Nat, counter' >= counter,
           given' \subseteq 0..counter', errored' = errored, coreUp' = coreUp,
           \A id \in DOMAIN states' : states'[id] \in 0..counter' \/ (id \in DOMAIN states /\ states'[id] = states[id]),
           ChannelOK', BatchOK', BatchComplete'
    PROVE  Inv'
<1>1. \A id \in DOMAIN states' : states'[id] \in Call \cup 0..counter'
  BY DEF Inv, TypeOK
<1>2. TypeOK'
  BY <1>1 DEF Inv, TypeOK, callVars
<1>3. CallOK' /\ ApiOK'
  BY DEF Inv, CallOK, ApiOK, callVars
<1> QED BY <1>2, <1>3 DEF Inv

LEMMA StartBatchInv ==
    ASSUME Inv, StartBatch
    PROVE  Inv'
<1>1. /\ api = "LazyLLM" /\ phase = "ready" /\ phase' = "adding" /\ given' = {}
      /\ UNCHANGED <<api, callVars, counter, abandoned, answers, procVars, coreVars>>
      /\ batch'.first = counter /\ batch'.prompts \in Seq(Shape)
  BY FrontendAssumption DEF StartBatch
<1>2. BatchOK'
  <2>1. \A k : (Known(k) => Known(k)') /\ (Returned(k)' <=> Returned(k))
    BY <1>1 DEF Known, Abandoned, InBatch, Returned
  <2>2. \A id \in DOMAIN states' :
           \E k \in 0..counter'-1, i \in 0..2 : id = <<k, i>> /\ Known(k)' /\ ~Returned(k)'
    BY <1>1, <2>1 DEF Inv, BatchOK, procVars
  <2> QED BY <1>1, <2>2 DEF Inv, TypeOK, BatchOK
<1>3. BatchComplete' /\ ChannelOK'
  BY <1>1 DEF Inv, BatchComplete, ChannelOK, coreVars
<1> QED BY <1>1, <1>2, <1>3, BatchStep DEF Inv, TypeOK, procVars, coreVars

(* The requests of the prompt that is added: one, or one per child.            *)
LEMMA PromptIds ==
    ASSUME Inv, NEW s \in Shape
    PROVE  /\ \A i \in 1..s.n : PromptId(s, i) \in IdSet
           /\ \A i \in 1..s.n : \E j \in 0..2 : PromptId(s, i) = <<counter, j>>
           /\ 1 \in 1..s.n
<1>1. counter \in Nat /\ s.n \in 1..2
  BY DEF Inv, TypeOK, Shape
<1>2. \A i \in 1..s.n : PromptId(s, i) = <<counter, 0>> \/ PromptId(s, i) = <<counter, i>>
  BY DEF PromptId, SingleId, ChildId
<1>3. \A i \in 1..s.n : \E j \in 0..2 : PromptId(s, i) = <<counter, j>>
  BY <1>1, <1>2
<1> QED BY <1>1, <1>3 DEF IdSet

LEMMA AddPromptInv ==
    ASSUME Inv, AddPrompt
    PROVE  Inv'
<1>0. api = "LazyLLM" /\ counter \in Nat
  BY DEF AddPrompt, Inv, ApiOK, TypeOK
<1> DEFINE s == batch.prompts[Position + 1]
<1>1. /\ phase = "adding" /\ Position < Len(batch.prompts)
      /\ counter' = counter + 1
      /\ UNCHANGED <<api, callVars, phase, batch, given, abandoned, answers, parents, errored,
                     live, outbox, coreUp>>
  BY DEF AddPrompt
<1>2. s \in Shape
  <2>1. batch.first \in 0..counter /\ batch.prompts \in Seq(Shape)
    BY DEF Inv, BatchOK
  <2>2. Position + 1 \in 1..Len(batch.prompts)
    BY <1>0, <1>1, <2>1 DEF Position
  <2> QED BY <2>1, <2>2
<1> DEFINE ids == {PromptId(s, i) : i \in 1..s.n}
           adds == [i \in 1..s.n |-> Add(Request(PromptId(s, i), counter, s, FALSE))]
<1>3. /\ states' = [id \in DOMAIN states \cup ids |-> IF id \in ids THEN counter ELSE states[id]]
      /\ inbox' = inbox \o adds \/ inbox' = inbox
  BY DEF AddPrompt
<1> HIDE DEF s
<1>4. adds \in Seq(Message)
  <2>1. s.n \in Nat
    BY <1>2 DEF Shape
  <2>2. \A i \in 1..s.n : Add(Request(PromptId(s, i), counter, s, FALSE)) \in Message
    BY <1>0, <1>2, PromptIds, AddIsMessage
  <2>3. adds \in [1..s.n -> Message]
    BY <2>2
  <2> HIDE DEF adds
  <2> QED BY <2>1, <2>3
<1>5. /\ \A id \in ids : id \in IdSet /\ \E j \in 0..2 : id = <<counter, j>>
      /\ \E id \in ids : TRUE
  BY <1>2, PromptIds
<1> HIDE DEF ids, adds
<1>6. ChannelOK'
  BY <1>3, <1>4, ConcatProperties DEF Inv, ChannelOK
<1>7. DOMAIN states' = DOMAIN states \cup ids
  BY <1>3
<1>8. \A k : k = counter => Waiting(k)' # {}
  <2>1. PICK id \in ids : TRUE
    BY <1>5
  <2>2. id \in DOMAIN states' /\ id[1] = counter
    BY <1>5, <1>7, <2>1
  <2> QED BY <2>2 DEF Waiting
<1>9. \A k \in 0..counter-1 : Waiting(k)' = Waiting(k)
  <2>1. \A id \in ids : id[1] = counter
    BY <1>5
  <2> QED BY <1>0, <1>7, <2>1 DEF Waiting
<1>10. \A k : /\ Known(k) => Known(k)'
              /\ Returned(k)' <=> Returned(k)
  BY <1>0, <1>1 DEF Known, Abandoned, InBatch, Returned, Inv, BatchOK
<1>11. BatchOK'
  <2>1. \A k : k = counter => Known(k)' /\ ~Returned(k)
    BY <1>0, <1>1 DEF Known, InBatch, Returned, Inv, BatchOK
  <2>2. \A id \in DOMAIN states' :
           \E k \in 0..counter'-1, i \in 0..2 : id = <<k, i>> /\ Known(k)' /\ ~Returned(k)'
    <3> SUFFICES ASSUME NEW id \in DOMAIN states'
                 PROVE  \E k \in 0..counter'-1, i \in 0..2 : id = <<k, i>> /\ Known(k)' /\ ~Returned(k)'
      OBVIOUS
    <3>1. CASE id \in ids
      <4>1. PICK j \in 0..2 : id = <<counter, j>>
        BY <3>1, <1>5
      <4>2. counter \in 0..counter'-1
        BY <1>0, <1>1
      <4> QED BY <4>1, <4>2, <2>1, <1>10
    <3>2. CASE id \in DOMAIN states
      <4>1. PICK k \in 0..counter-1, i \in 0..2 : id = <<k, i>> /\ Known(k) /\ ~Returned(k)
        BY <3>2, <1>0 DEF Inv, BatchOK
      <4>2. k \in 0..counter'-1
        BY <1>0, <1>1
      <4> QED BY <4>1, <4>2, <1>10
    <3> QED BY <3>1, <3>2, <1>7
  <2>3. \A k \in given' : /\ k \in 0..counter'-1 /\ Known(k)' /\ ~Returned(k)'
                          /\ Waiting(k)' = {}
    <3>1. \A k \in given : /\ k \in 0..counter-1 /\ Known(k) /\ ~Returned(k)
                           /\ Waiting(k) = {}
      BY <1>0, <1>1 DEF Inv, BatchOK, Adding
    <3> QED BY <3>1, <1>0, <1>1, <1>9, <1>10
  <2>4. \A k \in batch'.first .. counter' - 1 : Waiting(k)' # {} \/ k \in given'
    <3> SUFFICES ASSUME NEW k \in batch.first .. counter PROVE Waiting(k)' # {} \/ k \in given
      BY <1>0, <1>1
    <3>1. CASE k = counter
      BY <3>1, <1>8
    <3>2. CASE k # counter
      <4>1. batch.first \in 0..counter
        BY DEF Inv, BatchOK
      <4>2. k \in batch.first .. counter - 1 /\ k \in 0..counter-1
        BY <4>1, <3>2, <1>0
      <4>3. Waiting(k) # {} \/ k \in given
        BY <4>2, <1>0, <1>1 DEF Inv, BatchOK, Adding
      <4> QED BY <4>2, <4>3, <1>9
    <3> QED BY <3>1, <3>2
  <2>5. /\ batch'.first \in 0..counter' /\ batch'.prompts \in Seq(Shape)
        /\ answers' \in Seq([asked : SUBSET Nat, given : SUBSET Nat])
        /\ \A l \in DOMAIN answers' : answers'[l].given \subseteq 0..counter'-1
    BY <1>0, <1>1 DEF Inv, BatchOK
  <2> QED BY <2>2, <2>3, <2>4, <2>5 DEF BatchOK
<1>12. BatchComplete'
  BY <1>1 DEF Inv, BatchComplete
<1>13. \A id \in DOMAIN states' : states'[id] \in 0..counter' \/ (id \in DOMAIN states /\ states'[id] = states[id])
  BY <1>0, <1>1, <1>3
<1>14. given' \subseteq 0..counter'
  BY <1>0, <1>1 DEF Inv, TypeOK
<1> QED BY <1>0, <1>1, <1>6, <1>11, <1>12, <1>13, <1>14, BatchStep DEF Inv, TypeOK

LEMMA RefuseBatchInv ==
    ASSUME Inv, RefuseBatch
    PROVE  Inv'
<1>0. api = "LazyLLM" /\ counter \in Nat
  BY DEF RefuseBatch, Inv, ApiOK, TypeOK
<1>1. /\ phase = "adding" /\ phase' \in {"failed", "ready"}
      /\ abandoned' = abandoned \cup {<<batch.first, counter>>} /\ counter' = counter + 1
      /\ UNCHANGED <<api, callVars, batch, given, answers, procVars, coreVars>>
  BY DEF RefuseBatch
<1>2. BatchOK'
  <2>1. \A k : Known(k) => Known(k)'
    <3> SUFFICES ASSUME NEW k, Known(k) PROVE Abandoned(k)'
      BY DEF Known
    <3>1. CASE Abandoned(k)
      BY <1>1, <3>1 DEF Abandoned
    <3>2. CASE InBatch(k)
      <4>1. <<batch.first, counter>> \in abandoned' /\ k \in batch.first .. counter - 1
        BY <1>1, <3>2 DEF InBatch
      <4> QED BY <4>1 DEF Abandoned
    <3> QED BY <3>1, <3>2 DEF Known
  <2>2. \A k : Returned(k)' <=> Returned(k)
    BY <1>1 DEF Returned
  <2>3. \A id \in DOMAIN states' :
           \E k \in 0..counter'-1, i \in 0..2 : id = <<k, i>> /\ Known(k)' /\ ~Returned(k)'
    <3> SUFFICES ASSUME NEW id \in DOMAIN states
                 PROVE  \E k \in 0..counter'-1, i \in 0..2 : id = <<k, i>> /\ Known(k)' /\ ~Returned(k)'
      BY <1>1 DEF procVars
    <3>1. PICK k \in 0..counter-1, i \in 0..2 : id = <<k, i>> /\ Known(k) /\ ~Returned(k)
      BY <1>0 DEF Inv, BatchOK
    <3>2. k \in 0..counter'-1
      BY <1>0, <1>1
    <3> QED BY <3>1, <3>2, <2>1, <2>2
  <2> QED BY <1>0, <1>1, <2>3 DEF Inv, BatchOK, Adding
<1>3. BatchComplete' /\ ChannelOK'
  BY <1>1 DEF Inv, BatchComplete, ChannelOK, coreVars
<1>4. given' \subseteq 0..counter'
  BY <1>0, <1>1 DEF Inv, TypeOK
<1> QED BY <1>0, <1>1, <1>2, <1>3, <1>4, BatchStep DEF Inv, TypeOK, procVars, coreVars

LEMMA RunEngineInv ==
    ASSUME Inv, RunEngine
    PROVE  Inv'
<1>0. api = "LazyLLM" /\ counter \in Nat
  BY DEF RunEngine, Inv, ApiOK, TypeOK
<1> DEFINE o == Head(outbox)
<1>1. /\ Adding /\ phase' = "running"
      /\ UNCHANGED <<api, callVars, batch, counter, abandoned, answers, parents, errored,
                     inbox, live, coreUp>>
  BY DEF RunEngine, Adding
<1>2. \/ /\ Registered(o.id) /\ states' = Without({o.id})
         /\ given' = IF Waiting(o.id[1]) = {o.id} THEN given \cup {o.id[1]} ELSE given
      \/ UNCHANGED <<given, states>>
  BY DEF RunEngine
<1> HIDE DEF o
<1>3. \A k : (Known(k)' <=> Known(k)) /\ (Returned(k)' <=> Returned(k))
  BY <1>1 DEF Known, Abandoned, InBatch, Returned, Adding
<1>4. CASE UNCHANGED <<given, states>>
  <2>1. BatchOK'
    BY <1>0, <1>1, <1>3, <1>4 DEF Inv, BatchOK, Adding, Waiting
  <2> QED BY <1>0, <1>1, <1>4, <2>1, BatchStep DEF Inv, TypeOK, BatchComplete, ChannelOK
<1>5. CASE /\ Registered(o.id) /\ states' = Without({o.id})
           /\ given' = IF Waiting(o.id[1]) = {o.id} THEN given \cup {o.id[1]} ELSE given
  <2>1. PICK n \in 0..counter-1, i \in 0..2 : o.id = <<n, i>> /\ Known(n) /\ ~Returned(n)
    BY <1>0, <1>5 DEF Inv, BatchOK, Registered
  <2>2. o.id[1] = n /\ o.id \in Waiting(n)
    BY <1>5, <2>1 DEF Registered, Waiting
  <2>3. /\ DOMAIN states' = DOMAIN states \ {o.id}
        /\ \A id \in DOMAIN states' : states'[id] = states[id]
    BY <1>5 DEF Without
  <2>4. \A k : Waiting(k)' = Waiting(k) \ {o.id}
    BY <2>3 DEF Waiting
  <2>5. \A k : k # n => Waiting(k)' = Waiting(k)
    BY <2>2, <2>4 DEF Waiting
  <2>6. \/ given' = given \cup {n} /\ Waiting(n)' = {}
        \/ given' = given /\ Waiting(n)' # {}
    BY <1>5, <2>2, <2>4
  <2>7. \A id \in DOMAIN states' :
           \E k \in 0..counter'-1, j \in 0..2 : id = <<k, j>> /\ Known(k)' /\ ~Returned(k)'
    BY <1>0, <1>1, <1>3, <2>3 DEF Inv, BatchOK
  <2>8. \A k \in given' : /\ k \in 0..counter'-1 /\ Known(k)' /\ ~Returned(k)'
                          /\ Waiting(k)' = {}
    <3>1. \A k \in given : /\ k \in 0..counter-1 /\ Known(k) /\ ~Returned(k)
                           /\ Waiting(k) = {}
      BY <1>0, <1>1 DEF Inv, BatchOK
    <3>2. n \notin given
      BY <3>1, <2>2
    <3> QED BY <3>1, <3>2, <1>1, <1>3, <2>1, <2>5, <2>6
  <2>9. \A k \in batch.first .. counter - 1 : Waiting(k)' # {} \/ k \in given'
    <3>1. \A k \in batch.first .. counter - 1 : Waiting(k) # {} \/ k \in given
      BY <1>0, <1>1 DEF Inv, BatchOK
    <3> QED BY <3>1, <2>5, <2>6
  <2>10. BatchOK'
    BY <1>0, <1>1, <2>7, <2>8, <2>9 DEF Inv, BatchOK
  <2>11. given' \subseteq 0..counter'
    BY <1>0, <1>1, <2>6, <2>1 DEF Inv, TypeOK
  <2>12. BatchComplete' /\ ChannelOK'
    BY <1>1 DEF Inv, BatchComplete, ChannelOK
  <2> QED BY <1>0, <1>1, <2>3, <2>10, <2>11, <2>12, BatchStep DEF Inv, TypeOK
<1> QED BY <1>2, <1>4, <1>5

LEMMA ReturnBatchInv ==
    ASSUME Inv, ReturnBatch
    PROVE  Inv'
<1>0. api = "LazyLLM" /\ counter \in Nat /\ given \in SUBSET (0..counter)
  BY DEF ReturnBatch, Inv, ApiOK, TypeOK
<1> DEFINE answer == [asked |-> batch.first .. counter - 1, given |-> given]
<1>1. /\ Adding /\ states = <<>> /\ phase' = "ready" /\ answers' = Append(answers, answer)
      /\ UNCHANGED <<api, callVars, batch, counter, given, abandoned, procVars, coreVars>>
  BY DEF ReturnBatch, Adding
<1>2. DOMAIN states = {} /\ \A k : Waiting(k) = {}
  BY <1>1 DEF Waiting
<1>3. answer \in [asked : SUBSET Nat, given : SUBSET Nat]
  BY <1>0 DEF Inv, BatchOK
<1>4. /\ answer.asked \subseteq answer.given
      /\ answer.given \subseteq 0..counter-1
      /\ \A k \in answer.given : ~Returned(k)
      /\ \A k \in answer.given \ answer.asked : Abandoned(k)
  BY <1>0, <1>1, <1>2 DEF Inv, BatchOK, Known, InBatch
<1> HIDE DEF answer
<1>5. answers \in Seq([asked : SUBSET Nat, given : SUBSET Nat])
  BY DEF Inv, BatchOK
<1>6. /\ answers' \in Seq([asked : SUBSET Nat, given : SUBSET Nat])
      /\ DOMAIN answers' = 1..Len(answers)+1
      /\ answers'[Len(answers)+1] = answer
      /\ \A k \in 1..Len(answers) : k \in DOMAIN answers /\ answers'[k] = answers[k]
  BY <1>1, <1>3, <1>5, AppendProperties
<1>7. \A k \in DOMAIN answers' :
         k = Len(answers)+1 \/ (k \in 1..Len(answers) /\ k \in DOMAIN answers)
  BY <1>5, <1>6
<1>8. BatchComplete'
  <2>1. \A k \in DOMAIN answers' :
           /\ answers'[k].asked \subseteq answers'[k].given
           /\ \A id \in answers'[k].given \ answers'[k].asked :
                 \E b \in abandoned' : id \in b[1] .. b[2] - 1
    BY <1>1, <1>4, <1>6, <1>7 DEF Inv, BatchComplete, Abandoned
  <2>2. \A k \in 1..Len(answers) : answers'[k].given \cap answer.given = {}
    BY <1>4, <1>6 DEF Returned
  <2>3. \A k, l \in DOMAIN answers' : k # l => answers'[k].given \cap answers'[l].given = {}
    <3> SUFFICES ASSUME NEW k \in DOMAIN answers', NEW l \in DOMAIN answers', k # l
                 PROVE  answers'[k].given \cap answers'[l].given = {}
      OBVIOUS
    <3>1. CASE k \in 1..Len(answers) /\ l \in 1..Len(answers)
      BY <3>1, <1>6 DEF Inv, BatchComplete
    <3>2. CASE k = Len(answers)+1 \/ l = Len(answers)+1
      BY <3>2, <1>6, <1>7, <2>2
    <3> QED BY <3>1, <3>2, <1>7
  <2> QED BY <2>1, <2>3 DEF BatchComplete
<1>9. BatchOK'
  <2>1. \A l \in DOMAIN answers' : answers'[l].given \subseteq 0..counter'-1
    BY <1>1, <1>4, <1>6, <1>7 DEF Inv, BatchOK
  <2> QED BY <1>0, <1>1, <1>2, <1>6, <2>1 DEF Inv, BatchOK, Adding, procVars
<1>10. ChannelOK'
  BY <1>1 DEF Inv, ChannelOK, coreVars
<1> QED BY <1>0, <1>1, <1>8, <1>9, <1>10, BatchStep DEF Inv, TypeOK, procVars, coreVars

LEMMA EngineErrorInv ==
    ASSUME Inv, EngineError
    PROVE  Inv'
<1>0. api = "LazyLLM" /\ counter \in Nat
  BY DEF EngineError, Inv, ApiOK, TypeOK
<1>1. /\ Adding /\ phase' = "failed"
      /\ UNCHANGED <<api, callVars, batch, counter, given, abandoned, answers, procVars, coreVars>>
  BY DEF EngineError, Adding
<1>2. \A k : (Known(k)' <=> Known(k)) /\ (Returned(k)' <=> Returned(k))
  BY <1>1 DEF Known, Abandoned, InBatch, Returned, Adding
<1>3. BatchOK'
  BY <1>0, <1>1, <1>2 DEF Inv, BatchOK, Adding, procVars
<1> QED BY <1>0, <1>1, <1>3, BatchStep DEF Inv, TypeOK, BatchComplete, ChannelOK, procVars, coreVars

-----------------------------------------------------------------------------
LEMMA InvInvariant == Spec => []Inv
<1>1. Init => Inv
  <2> SUFFICES ASSUME Init PROVE Inv
    OBVIOUS
  <2>1. TypeOK
    <3>1. /\ pc \in [Call -> Ended \cup {"idle", "sending", "waiting", "yielded", "aborting"}]
          /\ idx \in [Call -> 0..2] /\ got \in [Call -> {"nothing", "part", "final", "error"}]
      BY DEF Init
    <3>2. DOMAIN states = {} /\ given = {} /\ strays = {} /\ \A c \in Call : kids[c] = {}
      BY DEF Init
    <3> QED BY <3>1, <3>2 DEF Init, TypeOK
  <2>2. ChannelOK /\ CallOK /\ ApiOK
    BY DEF Init, ChannelOK, CallOK, ApiOK, IdSet, Ended
  <2>3. BatchOK /\ BatchComplete
    BY DEF Init, BatchOK, BatchComplete, Adding
  <2> QED BY <2>1, <2>2, <2>3 DEF Inv
<1>2. Inv /\ [Next]_vars => Inv'
  <2> SUFFICES ASSUME Inv, [Next]_vars PROVE Inv'
    OBVIOUS
  <2>1. CASE \E c \in Call : \/ Generate(c) \/ Sent(c) \/ Take(c) \/ Resume(c)
                            \/ Cancel(c) \/ Close(c) \/ SendAbort(c)
    BY <2>1, GenerateInv, SentInv, TakeInv, YieldInv, CancelInv, SendAbortInv
  <2>2. CASE HandleOutput
    BY <2>2, HandleOutputInv
  <2>3. CASE StartBatch \/ AddPrompt \/ RefuseBatch \/ RunEngine \/ EngineError \/ ReturnBatch
    BY <2>3, StartBatchInv, AddPromptInv, RefuseBatchInv, RunEngineInv, EngineErrorInv, ReturnBatchInv
  <2>4. CASE \/ NoticeDeath \/ PropagateDeath \/ Receive \/ Die \/ Quiescent
             \/ \E r \in live : SpawnDocument(r) \/ Sample(r) \/ Finish(r)
    BY <2>4, CoreInv
  <2>5. CASE UNCHANGED vars
    <3>1. UNCHANGED <<api, pc, ask, idx, kids, aborts, strays, batchVars, states, parents,
                      got, errored, coreUp, inbox>>
      BY <2>5 DEF vars, callVars, procVars, coreVars
    <3>2. ChannelOK'
      BY <3>1 DEF Inv, ChannelOK
    <3> QED BY <3>1, <3>2, CoreStep DEF Inv, TypeOK
  <2> QED BY <2>1, <2>2, <2>3, <2>4, <2>5 DEF Next
<1> QED BY <1>1, <1>2, PTL DEF Spec

(* The types of Frontend.                                                      *)
THEOREM FrontendTypes == Spec => []TypeOK
BY InvInvariant, PTL DEF Inv

(* A batch that returns has an answer for each prompt, no prompt is answered    *)
(* twice, and of the others it has only those that a refused batch left behind. *)
THEOREM BatchesComplete == Spec => []BatchComplete
BY InvInvariant, PTL DEF Inv

-----------------------------------------------------------------------------
(* The calls of AsyncLazyLLM.generate.  A call may abort its id when it can be  *)
(* left or when it fails with an exception that is not a ValueError; nobody     *)
(* else uses the id of such a call.                                            *)
MayAbort(a) == a.leaves \/ a.shape.kind = "pooling" \/ Outcome(a.shape) = "Exception"

NamesApart ==
    \A s \in Scenarios : \A c, d \in Call :
       c # d /\ s[c].name = s[d].name => ~MayAbort(s[c])

Active(c) == pc[c] \in {"sending", "waiting", "yielded"}
Fans(c) == ask[c].shape.n # 1

(* The request that the call is sending.                                       *)
Current(c, id) == pc[c] = "sending" /\ id = IdOf(c, idx[c])

(* What there is of request id of call c, in the two channels and in the core.  *)
Adds(i, c, id) == inbox[i].type = "ADD" /\ inbox[i].request.by = c /\ inbox[i].request.id = id
Gives(i, c, id) == outbox[i].type = "OUTPUT" /\ outbox[i].by = c /\ outbox[i].id = id
InInbox(c, id) == \E i \in DOMAIN inbox : Adds(i, c, id)
InCore(c, id) == \E r \in live : r.by = c /\ r.id = id
InOutbox(c, id) == \E i \in DOMAIN outbox : Gives(i, c, id)
Flight(c, id) == InInbox(c, id) \/ InCore(c, id) \/ InOutbox(c, id)

Loose(c, id) == Sending(c, id) \/ Computing(c, id)
Token(c, id) == Loose(c, id) \/ Returning(c, id)

(* The core and the channels.                                                  *)
DocIds == {DocId(id) : id \in IdSet}
CoreRequests == {r \in [id : IdSet \cup DocIds, by : Call, docs : BOOLEAN, kind : Kinds,
                        spawned : BOOLEAN, told : BOOLEAN] :
                    r.id \in DocIds => r.spawned = TRUE /\ r.told = TRUE}
Outputs == [type : {"OUTPUT"}, id : IdSet \cup DocIds, by : Call, final : BOOLEAN]
CoreOK ==
    /\ live \subseteq CoreRequests
    /\ outbox \in Seq(Outputs \cup {DEAD})
    /\ \A i \in DOMAIN inbox : inbox[i].type = "ADD" => inbox[i].request.by \in Call
    /\ \A i \in DOMAIN outbox : outbox[i] = DEAD => i = Len(outbox) /\ coreUp = FALSE
    /\ coreUp = FALSE => inbox = <<>> /\ live = {}
    /\ errored = TRUE => coreUp = FALSE
    /\ coreUp = FALSE /\ errored = FALSE => \E i \in DOMAIN outbox : outbox[i] = DEAD
ErrorOK == \A c \in Call : got[c] = "error" => coreUp = FALSE /\ outbox = <<>>

(* A request is in one place, and its last output is behind the others.         *)
OnceOK ==
    \A c \in Call, id \in IdSet :
       /\ \A i, j \in DOMAIN inbox : Adds(i, c, id) /\ Adds(j, c, id) => i = j
       /\ InInbox(c, id) => ~InCore(c, id) /\ ~InOutbox(c, id)
       /\ \A r, s \in live : r.by = c /\ r.id = id /\ s.by = c /\ s.id = id => r = s
       /\ \A i \in DOMAIN outbox : Gives(i, c, id) /\ outbox[i].final = TRUE =>
             /\ ~InCore(c, id)
             /\ \A j \in DOMAIN outbox : Gives(j, c, id) => j <= i

(* Who the ids and names belong to.                                            *)
NamesOK ==
    /\ \A id \in DOMAIN states : /\ states[id] \in Call
                                 /\ \E k \in 1..ask[states[id]].shape.n :
                                       k <= idx[states[id]] /\ id = IdOf(states[id], k)
    /\ \A n \in DOMAIN parents : parents[n] \in Call /\ ask[parents[n]].name = n
    /\ \A c \in Call : pc[c] = "idle" => idx[c] = 0 /\ kids[c] = {}
    /\ \A c \in Call : idx[c] <= ask[c].shape.n

(* What is on its way was sent by its call, and is registered for it, unless    *)
(* the call has aborted it.                                                   *)
FlightOK ==
    \A c \in Call, id \in IdSet : Flight(c, id) =>
       /\ \E k \in 1..ask[c].shape.n : id = IdOf(c, k) /\ k <= idx[c] /\ (pc[c] = "sending" => k # idx[c])
       /\ Registered(id) => states[id] = c
       /\ ~Registered(id) => MayAbort(ask[c]) /\ ~Active(c)

(* What an active call has registered: the request it is sending, and its       *)
(* children.  Aborting its name finds all of it.                              *)
SendingOK ==
    \A c \in Call : pc[c] = "sending" =>
       idx[c] >= 1 /\ Registered(IdOf(c, idx[c])) /\ states[IdOf(c, idx[c])] = c
KidsOK ==
    \A c \in Call : Active(c) => /\ ~Fans(c) => kids[c] = {}
                                 /\ \A id \in kids[c] : Registered(id) /\ states[id] = c
CoverOK ==
    \A c \in Call : Active(c) /\ MayAbort(ask[c]) /\ Fans(c) =>
       \A id \in DOMAIN states : states[id] = c =>
          id \in kids[c] /\ ask[c].name \in DOMAIN parents /\ parents[ask[c].name] = c

(* Who waits has something registered, and what is registered is on its way.    *)
WaitOK ==
    \A c \in Call : pc[c] \in {"waiting", "yielded"} /\ got[c] \in {"nothing", "part"} =>
       \E id \in DOMAIN states : states[id] = c
TokenOK ==
    \A c \in Call : Active(c) =>
       \A id \in DOMAIN states : states[id] = c =>
          Token(c, id) \/ Current(c, id) \/ got[c] = "error"

(* An abort is of a call that has ended, and of its name; a call that is        *)
(* cancelled aborts all that it has left.                                     *)
AbortOK ==
    /\ \A i \in DOMAIN inbox : inbox[i].type = "ABORT" =>
          \A id \in inbox[i].ids : \E d \in Call : id[1] = ask[d].name /\ MayAbort(ask[d]) /\ pc[d] \in Ended
    /\ \A d \in Call : pc[d] = "aborting" =>
          MayAbort(ask[d]) /\ \A id \in aborts[d].ids : id[1] = ask[d].name
CancelOK ==
    /\ \A c \in Call : pc[c] = "cancelled" => \A id \in IdSet : ~Loose(c, id)
    /\ \A c \in Call : pc[c] = "aborting" /\ aborts[c].to = "cancelled" =>
          \A id \in IdSet : Loose(c, id) => id \in aborts[c].ids

Calls == /\ CoreOK /\ ErrorOK /\ OnceOK /\ NamesOK /\ FlightOK /\ SendingOK /\ KidsOK /\ CoverOK
         /\ WaitOK /\ TokenOK /\ AbortOK /\ CancelOK
CallsInv == strays = {} /\ (api = "AsyncLazyLLM" => Calls)

-----------------------------------------------------------------------------
(* Ids and names.                                                              *)
LEMMA IdOfFacts ==
    ASSUME TypeOK, NEW c \in Call, NEW k \in 1..2
    PROVE  /\ IdOf(c, k) \in IdSet /\ IdOf(c, k)[1] = ask[c].name
           /\ Fans(c) => IdOf(c, k) = <<ask[c].name, k>>
           /\ ~Fans(c) => IdOf(c, k) = <<ask[c].name, 0>>
BY AskTypes DEF IdOf, SingleId, ChildId, IdSet, Fans

LEMMA ShapeSize ==
    ASSUME TypeOK, NEW c \in Call
    PROVE  ask[c].shape.n \in 1..2 /\ (~Fans(c) => ask[c].shape.n = 1)
BY AskTypes DEF Shape, Fans

LEMMA IdOfInjective ==
    ASSUME TypeOK, NEW c \in Call, NEW k \in 1..ask[c].shape.n, NEW l \in 1..ask[c].shape.n,
           IdOf(c, k) = IdOf(c, l)
    PROVE  k = l
<1>1. k \in 1..2 /\ l \in 1..2 /\ (~Fans(c) => k = 1 /\ l = 1)
  BY ShapeSize
<1>2. Fans(c) => <<ask[c].name, k>> = <<ask[c].name, l>>
  BY <1>1, IdOfFacts
<1> QED BY <1>1, <1>2

LEMMA Apart ==
    ASSUME TypeOK, NamesApart, NEW c \in Call, NEW d \in Call, ask[c].name = ask[d].name,
           MayAbort(ask[c]) \/ MayAbort(ask[d])
    PROVE  c = d
BY DEF TypeOK, NamesApart

LEMMA DocIdsApart ==
    /\ \A id \in IdSet : DocId(id) \notin IdSet
    /\ \A id \in IdSet : id \notin DocIds
<1>1. \A id : Len(DocId(id)) = 3
  BY DEF DocId
<1>2. \A id \in IdSet : Len(id) = 2
  <2> TAKE id \in IdSet
  <2>1. \E a, b : id = <<a, b>>
    BY DEF IdSet
  <2> QED BY <2>1
<1> QED BY <1>1, <1>2 DEF DocIds

(* What is registered has a name, and is one of IdSet.                         *)
LEMMA RegisteredIds ==
    ASSUME TypeOK, NamesOK, NEW id \in DOMAIN states
    PROVE  id \in IdSet /\ id[1] = ask[states[id]].name /\ states[id] \in Call
<1>1. PICK k \in 1..ask[states[id]].shape.n : states[id] \in Call /\ id = IdOf(states[id], k)
  BY DEF NamesOK
<1>2. k \in 1..2
  BY <1>1, ShapeSize
<1> QED BY <1>1, <1>2, IdOfFacts

(* What is on its way has the name of its call.                                *)
LEMMA FlightNames ==
    ASSUME TypeOK, FlightOK, NEW c \in Call, NEW id \in IdSet, Flight(c, id)
    PROVE  id[1] = ask[c].name
<1>1. PICK k \in 1..ask[c].shape.n : id = IdOf(c, k)
  BY DEF FlightOK
<1>2. k \in 1..2
  BY ShapeSize
<1> QED BY <1>1, <1>2, IdOfFacts

LEMMA TokenInFlight ==
    ASSUME NEW c, NEW id
    PROVE  Loose(c, id) => Flight(c, id)
BY DEF Loose, Flight, Sending, Computing, InInbox, Adds, InCore

-----------------------------------------------------------------------------
(* The channel to the core.                                                    *)
LEMMA Appended ==
    ASSUME NEW S, NEW s \in Seq(S), NEW e \in S
    PROVE  /\ Append(s, e) \in Seq(S) /\ Len(Append(s, e)) = Len(s) + 1
           /\ DOMAIN Append(s, e) = DOMAIN s \cup {Len(s) + 1} /\ Len(s) + 1 \notin DOMAIN s
           /\ \A i \in DOMAIN s : i \in Nat /\ i <= Len(s) /\ Append(s, e)[i] = s[i]
           /\ Append(s, e)[Len(s) + 1] = e
OBVIOUS

LEMMA TailOf ==
    ASSUME NEW S, NEW s \in Seq(S), s # <<>>
    PROVE  /\ Tail(s) \in Seq(S) /\ Len(Tail(s)) = Len(s) - 1 /\ Head(s) = s[1]
           /\ 1 \in DOMAIN s
           /\ \A i \in DOMAIN Tail(s) : i \in Nat /\ i + 1 \in DOMAIN s /\ Tail(s)[i] = s[i + 1]
           /\ \A i \in DOMAIN s : i \in Nat /\ (i # 1 => i - 1 \in DOMAIN Tail(s) /\ s[i] = Tail(s)[i - 1])
OBVIOUS

(* What a coroutine may do to the rest of the system by one send.              *)
World(c) ==
    /\ \A d \in Call, id \in IdSet :
          /\ Flight(d, id)' => Flight(d, id) \/ (d = c /\ Current(c, id))
          /\ Loose(d, id)' => Loose(d, id) \/ (d = c /\ Current(c, id))
          /\ Token(d, id) => Token(d, id)'
    /\ CoreOK' /\ OnceOK'
    /\ \A i \in DOMAIN inbox' : inbox'[i].type = "ABORT" =>
          \E j \in DOMAIN inbox : inbox[j] = inbox'[i]

LEMMA NothingSent ==
    ASSUME Calls, NEW c \in Call, UNCHANGED <<coreVars, errored>>
    PROVE  World(c)
<1>1. UNCHANGED <<inbox, live, outbox, coreUp, errored>>
  BY DEF coreVars
<1>2. \A d, id : /\ (Flight(d, id)' <=> Flight(d, id)) /\ (Loose(d, id)' <=> Loose(d, id))
                 /\ (Token(d, id)' <=> Token(d, id))
  BY <1>1 DEF Flight, Loose, Token, InInbox, InCore, InOutbox, Adds, Gives, Sending, Computing,
              Returning, AbortedBehind
<1>3. CoreOK'
  BY <1>1 DEF Calls, CoreOK
<1>4. OnceOK'
  BY <1>1 DEF Calls, OnceOK, InInbox, InCore, InOutbox, Adds, Gives
<1> QED BY <1>1, <1>2, <1>3, <1>4 DEF World

LEMMA AddSent ==
    ASSUME Inv, Calls, NEW c \in Call, pc[c] = "sending", coreUp = TRUE,
           inbox' = Append(inbox, AddOf(c)), UNCHANGED <<live, outbox, coreUp, errored>>,
           NEW cur, cur = IdOf(c, idx[c])
    PROVE  World(c) /\ Token(c, cur)'
<1>m. PICK m : m = AddOf(c)
  OBVIOUS
<1>n. PICK n : n = Len(inbox) + 1
  OBVIOUS
<1>1. m \in Message /\ m.type = "ADD" /\ m.request.by = c /\ m.request.id = cur
  BY <1>m, AddOfIsMessage DEF AddOf, Add, Request
<1>2. /\ inbox' \in Seq(Message) /\ DOMAIN inbox' = DOMAIN inbox \cup {n} /\ n \notin DOMAIN inbox
      /\ \A i \in DOMAIN inbox : i \in Nat /\ i <= Len(inbox) /\ inbox'[i] = inbox[i]
      /\ inbox'[n] = m /\ Len(inbox') = n /\ Len(inbox) \in Nat /\ DOMAIN inbox = 1..Len(inbox)
  BY <1>1, <1>m, <1>n, Appended DEF Inv, ChannelOK
<1>3. cur \in IdSet /\ idx[c] \in 1..ask[c].shape.n
  <2>1. idx[c] \in 1..ask[c].shape.n /\ idx[c] \in 1..2 /\ TypeOK
    BY ShapeSize DEF Calls, SendingOK, NamesOK, Inv, TypeOK
  <2> QED BY <2>1, IdOfFacts
<1>4. \A id : \A i \in Nat : AbortedBehind(i, id)' <=> AbortedBehind(i, id)
  <2>1. ASSUME NEW i \in Nat, NEW id, AbortedBehind(i, id) PROVE AbortedBehind(i, id)'
    BY <2>1, <1>1, <1>2 DEF AbortedBehind
  <2>2. ASSUME NEW i \in Nat, NEW id, AbortedBehind(i, id)' PROVE AbortedBehind(i, id)
    <3>1. PICK k \in i+1 .. n : inbox'[k].type = "ABORT" /\ id \in inbox'[k].ids
      BY <2>2, <1>2 DEF AbortedBehind
    <3>2. k # n
      BY <3>1, <1>1, <1>2
    <3>3. k \in i+1 .. Len(inbox) /\ k \in DOMAIN inbox
      BY <3>1, <3>2, <1>2
    <3> QED BY <3>1, <3>3, <1>2 DEF AbortedBehind
  <2> QED BY <2>1, <2>2
<1>5. ~AbortedBehind(n, cur)'
  BY <1>2 DEF AbortedBehind
<1>6. \A d, id : /\ (InInbox(d, id)' <=> InInbox(d, id) \/ (d = c /\ id = cur))
                 /\ (Sending(d, id)' <=> Sending(d, id) \/ (d = c /\ id = cur))
  <2> TAKE d, id
  <2>1. ASSUME NEW i \in DOMAIN inbox PROVE Adds(i, d, id)' <=> Adds(i, d, id)
    BY <1>2 DEF Adds
  <2>2. Adds(n, d, id)' <=> d = c /\ id = cur
    BY <1>1, <1>2 DEF Adds
  <2>3. InInbox(d, id)' <=> InInbox(d, id) \/ (d = c /\ id = cur)
    BY <1>2, <2>1, <2>2 DEF InInbox
  <2>4. Sending(d, id) <=> \E i \in DOMAIN inbox : Adds(i, d, id) /\ ~AbortedBehind(i, id)
    BY DEF Sending, Adds
  <2>5. Sending(d, id)' <=> \E i \in DOMAIN inbox' : Adds(i, d, id)' /\ ~AbortedBehind(i, id)'
    BY DEF Sending, Adds
  <2>6. n \in Nat
    BY <1>2
  <2> QED BY <1>2, <1>4, <1>5, <2>1, <2>2, <2>3, <2>4, <2>5
<1>7. \A d, id : /\ (InCore(d, id)' <=> InCore(d, id)) /\ (InOutbox(d, id)' <=> InOutbox(d, id))
                 /\ (Computing(d, id)' <=> Computing(d, id)) /\ (Returning(d, id)' <=> Returning(d, id))
  BY <1>4 DEF InCore, InOutbox, Gives, Computing, Returning
<1>8. ~Flight(c, cur)
  <2>1. ASSUME Flight(c, cur) PROVE FALSE
    <3>1. PICK k \in 1..ask[c].shape.n : cur = IdOf(c, k) /\ k # idx[c]
      BY <1>3, <2>1 DEF Calls, FlightOK
    <3> QED BY <3>1, <1>3, IdOfInjective DEF Inv
  <2> QED BY <2>1
<1>9. OnceOK'
  <2> SUFFICES ASSUME NEW d \in Call, NEW id \in IdSet
               PROVE  /\ \A i, j \in DOMAIN inbox' : Adds(i, d, id)' /\ Adds(j, d, id)' => i = j
                      /\ InInbox(d, id)' => ~InCore(d, id)' /\ ~InOutbox(d, id)'
                      /\ \A r, s \in live' : r.by = d /\ r.id = id /\ s.by = d /\ s.id = id => r = s
                      /\ \A i \in DOMAIN outbox' : Gives(i, d, id)' /\ outbox'[i].final = TRUE =>
                            /\ ~InCore(d, id)'
                            /\ \A j \in DOMAIN outbox' : Gives(j, d, id)' => j <= i
    BY DEF OnceOK
  <2>1. \A i \in DOMAIN inbox : Adds(i, d, id)' <=> Adds(i, d, id)
    BY <1>2 DEF Adds
  <2>2. Adds(n, d, id)' <=> d = c /\ id = cur
    BY <1>1, <1>2 DEF Adds
  <2>3. /\ \A i, j \in DOMAIN inbox : Adds(i, d, id) /\ Adds(j, d, id) => i = j
        /\ InInbox(d, id) => ~InCore(d, id) /\ ~InOutbox(d, id)
        /\ \A r, s \in live : r.by = d /\ r.id = id /\ s.by = d /\ s.id = id => r = s
        /\ \A i \in DOMAIN outbox : Gives(i, d, id) /\ outbox[i].final = TRUE =>
              /\ ~InCore(d, id)
              /\ \A j \in DOMAIN outbox : Gives(j, d, id) => j <= i
    BY DEF Calls, OnceOK
  <2>4. \A i \in DOMAIN inbox : Adds(i, d, id) => InInbox(d, id)
    BY DEF InInbox
  <2>5. \A i, j \in DOMAIN inbox' : Adds(i, d, id)' /\ Adds(j, d, id)' => i = j
    BY <1>2, <1>8, <2>1, <2>2, <2>3, <2>4 DEF Flight
  <2>6. InInbox(d, id)' => ~InCore(d, id)' /\ ~InOutbox(d, id)'
    BY <1>6, <1>7, <1>8, <2>3 DEF Flight
  <2>7. \A i : Gives(i, d, id)' <=> Gives(i, d, id)
    BY DEF Gives
  <2> QED BY <2>3, <2>5, <2>6, <2>7, <1>7
<1>10. CoreOK'
  <2>1. \A i \in DOMAIN inbox' : inbox'[i].type = "ADD" => inbox'[i].request.by \in Call
    BY <1>1, <1>2 DEF Calls, CoreOK
  <2> QED BY <2>1 DEF Calls, CoreOK
<1>11. \A i \in DOMAIN inbox' : inbox'[i].type = "ABORT" => \E j \in DOMAIN inbox : inbox[j] = inbox'[i]
  BY <1>1, <1>2
<1>12. \A d, id : d = c /\ id = cur => Current(d, id)
  BY DEF Current
<1>13. World(c)
  BY <1>6, <1>7, <1>9, <1>10, <1>11, <1>12 DEF World, Flight, Loose, Token
<1> QED BY <1>6, <1>13 DEF Token, Loose

-----------------------------------------------------------------------------
(* A call leaves: registrations disappear only if they have its name, which is  *)
(* its own then, and of an abort that is to be sent it knows the ids.           *)
Left(c) ==
    /\ pc' = [pc EXCEPT ![c] = pc'[c]] /\ pc'[c] \in Ended \cup {"aborting"}
    /\ \A id \in DOMAIN states' : id \in DOMAIN states /\ states'[id] = states[id]
    /\ \A id \in DOMAIN states : id \notin DOMAIN states' => id[1] = ask[c].name /\ MayAbort(ask[c])
    /\ \A n \in DOMAIN parents' : n \in DOMAIN parents /\ parents'[n] = parents[n]
    /\ \A n \in DOMAIN parents : n \notin DOMAIN parents' => n = ask[c].name /\ MayAbort(ask[c])
    /\ \A d \in Call : d # c => aborts'[d] = aborts[d]
    /\ pc'[c] = "aborting" => MayAbort(ask[c]) /\ \A id \in aborts'[c].ids : id[1] = ask[c].name
    /\ pc'[c] = "cancelled" \/ (pc'[c] = "aborting" /\ aborts'[c].to = "cancelled") =>
          pc'[c] = "aborting" /\ \A id \in DOMAIN states : states[id] = c => id \in aborts'[c].ids

LEMMA AbortIds ==
    ASSUME Inv, Calls, NEW c \in Call, NEW id \in ToAbort(ask[c].name)
    PROVE  id[1] = ask[c].name
<1>0. TypeOK
  BY DEF Inv
<1>1. CASE Registered(SingleId(ask[c].name))
  BY <1>1 DEF ToAbort, SingleId
<1>2. CASE ~Registered(SingleId(ask[c].name))
  <2>1. ask[c].name \in DOMAIN parents /\ id \in kids[parents[ask[c].name]]
    BY <1>2 DEF ToAbort
  <2>2. PICK d \in Call : d = parents[ask[c].name] /\ ask[d].name = ask[c].name
    BY <2>1 DEF Calls, NamesOK
  <2>3. id \in {<<ask[d].name, i>> : i \in 1..2}
    BY <1>0, <2>1, <2>2 DEF TypeOK
  <2> QED BY <2>2, <2>3
<1> QED BY <1>1, <1>2

(* An active call whose name is its own finds all that it has registered.       *)
LEMMA AbortCovers ==
    ASSUME Inv, NamesApart, Calls, NEW c \in Call, Active(c), MayAbort(ask[c]),
           NEW id \in DOMAIN states, states[id] = c
    PROVE  id \in ToAbort(ask[c].name)
<1>0. TypeOK
  BY DEF Inv
<1>1. PICK k \in 1..ask[c].shape.n : id = IdOf(c, k)
  BY DEF Calls, NamesOK
<1>2. k \in 1..2
  BY <1>0, <1>1, ShapeSize
<1>3. CASE ~Fans(c)
  <2>1. id = SingleId(ask[c].name)
    BY <1>0, <1>1, <1>2, <1>3, IdOfFacts DEF SingleId
  <2> QED BY <2>1 DEF ToAbort, Registered
<1>4. CASE Fans(c)
  <2>1. id \in kids[c] /\ ask[c].name \in DOMAIN parents /\ parents[ask[c].name] = c
    BY <1>4 DEF Calls, CoverOK
  <2>2. ASSUME Registered(SingleId(ask[c].name)) PROVE FALSE
    <3> DEFINE sid == SingleId(ask[c].name)
    <3>1. sid \in DOMAIN states /\ sid = <<ask[c].name, 0>>
      BY <2>2 DEF Registered, SingleId
    <3>2. PICK d \in Call : d = states[sid] /\ \E l \in 1..ask[d].shape.n : sid = IdOf(d, l)
      BY <3>1 DEF Calls, NamesOK
    <3>3. PICK l \in 1..ask[d].shape.n : sid = IdOf(d, l)
      BY <3>2
    <3>4. l \in 1..2
      BY <1>0, <3>3, ShapeSize
    <3>5. sid[1] = ask[d].name
      BY <1>0, <3>3, <3>4, IdOfFacts
    <3>6. d = c
      BY <1>0, <3>1, <3>5, Apart
    <3>7. sid = <<ask[c].name, l>>
      BY <1>0, <1>4, <3>3, <3>4, <3>6, IdOfFacts
    <3> QED BY <3>1, <3>4, <3>7
  <2> QED BY <2>1, <2>2 DEF ToAbort
<1> QED BY <1>3, <1>4

LEMMA RaiseLeaves ==
    ASSUME Inv, NamesApart, Calls, NEW c \in Call, NEW exception, NEW to \in Ended,
           Raise(c, exception, to), Aborts(exception) => MayAbort(ask[c]),
           to = "cancelled" => Active(c) /\ Aborts(exception)
    PROVE  Left(c)
<1>0. TypeOK /\ CallOK
  BY DEF Inv
<1>1. CASE Aborts(exception)
  <2>1. /\ pc' = [pc EXCEPT ![c] = "aborting"]
        /\ aborts' = [aborts EXCEPT ![c] = [ids |-> ToAbort(ask[c].name), to |-> to]]
        /\ states' = Without(ToAbort(ask[c].name))
        /\ parents' = IF Registered(SingleId(ask[c].name)) THEN parents
                      ELSE [n \in DOMAIN parents \ {ask[c].name} |-> parents[n]]
    BY <1>1 DEF Raise
  <2>2. pc' = [pc EXCEPT ![c] = pc'[c]] /\ pc'[c] = "aborting"
    BY <1>0, <2>1 DEF TypeOK
  <2>3. /\ aborts'[c].ids = ToAbort(ask[c].name) /\ aborts'[c].to = to
        /\ \A d \in Call : d # c => aborts'[d] = aborts[d]
    BY <1>0, <2>1 DEF CallOK
  <2>4. /\ \A id \in DOMAIN states' : id \in DOMAIN states /\ states'[id] = states[id]
        /\ \A id \in DOMAIN states : id \notin DOMAIN states' => id \in ToAbort(ask[c].name)
    BY <2>1 DEF Without
  <2>5. /\ \A n \in DOMAIN parents' : n \in DOMAIN parents /\ parents'[n] = parents[n]
        /\ \A n \in DOMAIN parents : n \notin DOMAIN parents' => n = ask[c].name
    BY <2>1
  <2>6. \A id \in ToAbort(ask[c].name) : id[1] = ask[c].name
    BY AbortIds
  <2>7. to = "cancelled" => \A id \in DOMAIN states : states[id] = c => id \in ToAbort(ask[c].name)
    BY <1>1, AbortCovers
  <2> QED BY <1>1, <2>2, <2>3, <2>4, <2>5, <2>6, <2>7 DEF Left, Ended
<1>2. CASE ~Aborts(exception)
  <2>1. pc' = [pc EXCEPT ![c] = to] /\ UNCHANGED <<aborts, states, parents>>
    BY <1>2 DEF Raise
  <2>2. pc' = [pc EXCEPT ![c] = pc'[c]] /\ pc'[c] = to /\ to # "cancelled" /\ to # "aborting"
    BY <1>0, <1>2, <2>1 DEF TypeOK, Ended
  <2> QED BY <2>1, <2>2 DEF Left
<1> QED BY <1>1, <1>2

(* A call that has not ended leaves: the others notice nothing.                 *)
LEMMA LeaveStep ==
    ASSUME Inv, NamesApart, Calls, NEW c \in Call, pc[c] \notin Ended \cup {"aborting"},
           Left(c), World(c), UNCHANGED <<ask, idx>>,
           \A d \in Call : d # c => kids'[d] = kids[d] /\ got'[d] = got[d],
           got'[c] # "error" \/ got'[c] = got[c], ErrorOK'
    PROVE  Calls'
<1>0. TypeOK /\ CallOK /\ (Active(c) \/ pc[c] = "idle")
  BY DEF Inv, TypeOK, Active, Ended
<1>1. /\ \A d \in Call : d # c => pc'[d] = pc[d]
      /\ pc'[c] \in Ended \cup {"aborting"} /\ ~Active(c)' /\ pc'[c] # "sending" /\ pc'[c] # "idle"
      /\ \A d \in Call : d # c => (Active(d)' <=> Active(d))
  <2>1. /\ pc' = [pc EXCEPT ![c] = pc'[c]] /\ pc'[c] \in Ended \cup {"aborting"}
    BY DEF Left
  <2>2. \A d \in Call : d # c => pc'[d] = pc[d]
    <3>1. PICK to : pc' = [pc EXCEPT ![c] = to]
      BY <2>1
    <3> QED BY <3>1, <1>0 DEF TypeOK
  <2> QED BY <2>1, <2>2 DEF Ended, Active
<1>2. \A id \in DOMAIN states' : id \in DOMAIN states /\ states'[id] = states[id]
  BY DEF Left
<1>3. \A id \in DOMAIN states : states[id] # c => id \in DOMAIN states'
  <2> SUFFICES ASSUME NEW id \in DOMAIN states, states[id] # c, id \notin DOMAIN states' PROVE FALSE
    OBVIOUS
  <2>1. id[1] = ask[c].name /\ MayAbort(ask[c])
    BY DEF Left
  <2>2. id[1] = ask[states[id]].name /\ states[id] \in Call
    BY <1>0, RegisteredIds DEF Calls, Inv
  <2> QED BY <2>1, <2>2, Apart DEF Inv
<1>4. /\ \A d, k : IdOf(d, k)' = IdOf(d, k)
      /\ \A d : Fans(d)' <=> Fans(d)
      /\ \A d, id : d \in Call /\ d # c => (Current(d, id)' <=> Current(d, id))
  BY <1>1 DEF IdOf, Fans, Current
<1>5. \A id : Current(c, id) => /\ idx[c] \in 1..ask[c].shape.n /\ id = IdOf(c, idx[c])
                                /\ Registered(id) /\ states[id] = c
  <2>1. idx[c] \in 0..2 /\ ask[c].shape.n \in 1..2
    BY ShapeSize DEF Inv, TypeOK
  <2> QED BY <2>1 DEF Calls, SendingOK, NamesOK, Current
<1>6. \A id \in IdSet : Flight(c, id) =>
         /\ \E k \in 1..ask[c].shape.n : id = IdOf(c, k) /\ k <= idx[c]
         /\ Registered(id) => states[id] = c
         /\ ~Registered(id) => MayAbort(ask[c]) /\ ~Active(c)
  BY DEF Calls, FlightOK
<1>7. NamesOK'
  <2>1. ASSUME NEW id \in DOMAIN states'
        PROVE  (/\ states[id] \in Call
                /\ \E k \in 1..ask[states[id]].shape.n :
                      k <= idx[states[id]] /\ id = IdOf(states[id], k))'
    <3>1. id \in DOMAIN states /\ states'[id] = states[id]
      BY <1>2
    <3>2. PICK d \in Call : d = states[id] /\ \E k \in 1..ask[d].shape.n : k <= idx[d] /\ id = IdOf(d, k)
      BY <3>1 DEF Calls, NamesOK
    <3>3. PICK k \in 1..ask[d].shape.n : k <= idx[d] /\ id = IdOf(d, k)
      BY <3>2
    <3>4. IdOf(d, k)' = id
      BY <3>3, <1>4
    <3> QED BY <3>1, <3>2, <3>3, <3>4
  <2>2. \A n \in DOMAIN parents' : parents'[n] \in Call /\ ask'[parents'[n]].name = n
    BY DEF Left, Calls, NamesOK
  <2>3. \A d \in Call : pc'[d] = "idle" => idx'[d] = 0 /\ kids'[d] = {}
    BY <1>1 DEF Calls, NamesOK
  <2>4. \A d \in Call : idx'[d] <= ask'[d].shape.n
    BY DEF Calls, NamesOK
  <2> QED BY <2>1, <2>2, <2>3, <2>4 DEF NamesOK
<1>8. FlightOK'
  <2> SUFFICES ASSUME NEW d \in Call, NEW id \in IdSet, Flight(d, id)'
               PROVE  /\ \E k \in 1..ask'[d].shape.n : /\ id = IdOf(d, k)' /\ k <= idx'[d]
                                                      /\ (pc'[d] = "sending" => k # idx'[d])
                      /\ Registered(id)' => states'[id] = d
                      /\ ~Registered(id)' => MayAbort(ask'[d]) /\ ~Active(d)'
    BY DEF FlightOK
  <2>1. Flight(d, id) \/ (d = c /\ Current(c, id))
    BY DEF World
  <2>2. CASE d # c
    <3>1. Flight(d, id)
      BY <2>1, <2>2
    <3>2. PICK k \in 1..ask[d].shape.n : id = IdOf(d, k) /\ k <= idx[d] /\ (pc[d] = "sending" => k # idx[d])
      BY <3>1 DEF Calls, FlightOK
    <3>3. /\ Registered(id) => states[id] = d
          /\ ~Registered(id) => MayAbort(ask[d]) /\ ~Active(d)
      BY <3>1 DEF Calls, FlightOK
    <3>4. Registered(id)' <=> Registered(id)
      BY <1>2, <1>3, <2>2, <3>3 DEF Registered
    <3>5. Registered(id)' => states'[id] = states[id]
      BY <1>2 DEF Registered
    <3> QED BY <1>1, <1>4, <2>2, <3>2, <3>3, <3>4, <3>5
  <2>3. CASE d = c
    <3>1. PICK k \in 1..ask[c].shape.n : id = IdOf(c, k) /\ k <= idx[c]
      BY <2>1, <2>3, <1>5, <1>6
    <3>2. /\ Registered(id) => states[id] = c
          /\ ~Registered(id) => MayAbort(ask[c])
      BY <2>1, <2>3, <1>5, <1>6
    <3>3. Registered(id) /\ ~Registered(id)' => MayAbort(ask[c])
      BY DEF Left, Registered
    <3>4. Registered(id)' => Registered(id) /\ states'[id] = states[id]
      BY <1>2 DEF Registered
    <3> QED BY <2>3, <1>1, <1>4, <3>1, <3>2, <3>3, <3>4
  <2> QED BY <2>2, <2>3
<1>9. SendingOK' /\ KidsOK' /\ WaitOK'
  <2>1. SendingOK'
    <3> SUFFICES ASSUME NEW d \in Call, pc'[d] = "sending"
                 PROVE  (idx[d] >= 1 /\ Registered(IdOf(d, idx[d])) /\ states[IdOf(d, idx[d])] = d)'
      BY DEF SendingOK
    <3>1. d # c /\ pc[d] = "sending"
      BY <1>1
    <3>2. idx[d] >= 1 /\ Registered(IdOf(d, idx[d])) /\ states[IdOf(d, idx[d])] = d
      BY <3>1 DEF Calls, SendingOK
    <3>3. PICK x : x = IdOf(d, idx[d])
      OBVIOUS
    <3>4. IdOf(d, idx[d])' = x
      BY <3>3 DEF IdOf
    <3>5. x \in DOMAIN states' /\ states'[x] = d
      BY <1>2, <1>3, <3>1, <3>2, <3>3 DEF Registered
    <3> QED BY <3>2, <3>4, <3>5 DEF Registered
  <2>2. KidsOK'
    <3> SUFFICES ASSUME NEW d \in Call, Active(d)'
                 PROVE  /\ ~Fans(d)' => kids'[d] = {}
                        /\ \A id \in kids'[d] : Registered(id)' /\ states'[id] = d
      BY DEF KidsOK
    <3>1. d # c /\ Active(d) /\ kids'[d] = kids[d]
      BY <1>1
    <3>2. /\ ~Fans(d) => kids[d] = {}
          /\ \A id \in kids[d] : Registered(id) /\ states[id] = d
      BY <3>1 DEF Calls, KidsOK
    <3> QED BY <1>2, <1>3, <1>4, <3>1, <3>2 DEF Registered
  <2>3. WaitOK'
    <3> SUFFICES ASSUME NEW d \in Call, pc'[d] \in {"waiting", "yielded"}, got'[d] \in {"nothing", "part"}
                 PROVE  \E id \in DOMAIN states' : states'[id] = d
      BY DEF WaitOK
    <3>1. d # c /\ pc'[d] = pc[d] /\ got'[d] = got[d]
      BY <1>1 DEF Active
    <3>2. PICK id \in DOMAIN states : states[id] = d
      BY <3>1 DEF Calls, WaitOK
    <3> QED BY <1>2, <1>3, <3>1, <3>2
  <2> QED BY <2>1, <2>2, <2>3
<1>10. CoverOK'
  <2> SUFFICES ASSUME NEW d \in Call, Active(d)', MayAbort(ask'[d]), Fans(d)',
                      NEW id \in DOMAIN states', states'[id] = d
               PROVE  id \in kids'[d] /\ ask'[d].name \in DOMAIN parents' /\ parents'[ask'[d].name] = d
    BY DEF CoverOK
  <2>1. d # c /\ Active(d) /\ MayAbort(ask[d]) /\ Fans(d) /\ id \in DOMAIN states /\ states[id] = d
    BY <1>1, <1>2, <1>4
  <2>2. id \in kids[d] /\ ask[d].name \in DOMAIN parents /\ parents[ask[d].name] = d
    BY <2>1 DEF Calls, CoverOK
  <2>3. ask[d].name # ask[c].name
    BY <2>1, Apart DEF Inv
  <2>4. ask[d].name \in DOMAIN parents' /\ parents'[ask[d].name] = parents[ask[d].name]
    BY <2>2, <2>3 DEF Left
  <2> QED BY <2>1, <2>2, <2>4
<1>11. TokenOK'
  <2> SUFFICES ASSUME NEW d \in Call, Active(d)', NEW id \in DOMAIN states', states'[id] = d
               PROVE  Token(d, id)' \/ Current(d, id)' \/ got'[d] = "error"
    BY DEF TokenOK
  <2>1. d # c /\ Active(d) /\ id \in DOMAIN states /\ states[id] = d
    BY <1>1, <1>2
  <2>2. Token(d, id) \/ Current(d, id) \/ got[d] = "error"
    BY <2>1 DEF Calls, TokenOK
  <2>3. id \in IdSet
    BY <2>1, RegisteredIds DEF Calls, Inv
  <2> QED BY <2>1, <2>2, <2>3, <1>4 DEF World
<1>12. AbortOK'
  <2>1. ASSUME NEW i \in DOMAIN inbox', inbox'[i].type = "ABORT", NEW id \in inbox'[i].ids
        PROVE  \E d \in Call : id[1] = ask'[d].name /\ MayAbort(ask'[d]) /\ pc'[d] \in Ended
    <3>1. PICK j \in DOMAIN inbox : inbox[j] = inbox'[i]
      BY <2>1 DEF World
    <3>2. PICK d \in Call : id[1] = ask[d].name /\ MayAbort(ask[d]) /\ pc[d] \in Ended
      BY <2>1, <3>1 DEF Calls, AbortOK
    <3>3. d # c
      BY <3>2
    <3> QED BY <3>2, <3>3, <1>1
  <2>2. ASSUME NEW d \in Call, pc'[d] = "aborting"
        PROVE  MayAbort(ask'[d]) /\ \A id \in aborts'[d].ids : id[1] = ask'[d].name
    BY <2>2, <1>1 DEF Left, Calls, AbortOK
  <2> QED BY <2>1, <2>2 DEF AbortOK
<1>13. CancelOK'
  <2>1. ASSUME NEW d \in Call, pc'[d] = "cancelled", NEW id \in IdSet PROVE ~Loose(d, id)'
    <3>1. d # c /\ pc[d] = "cancelled"
      BY <2>1, <1>1 DEF Left
    <3> QED BY <3>1 DEF Calls, CancelOK, World
  <2>2. ASSUME NEW d \in Call, pc'[d] = "aborting", aborts'[d].to = "cancelled", NEW id \in IdSet, Loose(d, id)'
        PROVE  id \in aborts'[d].ids
    <3>1. CASE d # c
      <4>1. pc[d] = "aborting" /\ aborts'[d] = aborts[d]
        BY <2>2, <3>1, <1>1 DEF Left
      <4>2. Loose(d, id)
        BY <2>2, <3>1 DEF World
      <4> QED BY <2>2, <4>1, <4>2 DEF Calls, CancelOK
    <3>2. CASE d = c
      <4>1. Loose(c, id) \/ Current(c, id)
        BY <2>2, <3>2 DEF World
      <4>2. Loose(c, id) => Flight(c, id)
        BY TokenInFlight
      <4>3. Registered(id) /\ states[id] = c
        <5>1. CASE Current(c, id)
          BY <5>1, <1>5
        <5>2. CASE Flight(c, id)
          <6>1. pc[c] = "idle" => idx[c] = 0
            BY DEF Calls, NamesOK
          <6>2. PICK k \in 1..ask[c].shape.n : k <= idx[c]
            BY <5>2, <1>6
          <6>3. Active(c)
            BY <6>1, <6>2, <1>0
          <6> QED BY <5>2, <6>3, <1>6
        <5> QED BY <4>1, <4>2, <5>1, <5>2
      <4> QED BY <2>2, <3>2, <4>3 DEF Left, Registered
    <3> QED BY <3>1, <3>2
  <2> QED BY <2>1, <2>2 DEF CancelOK
<1> QED BY <1>7, <1>8, <1>9, <1>10, <1>11, <1>12, <1>13 DEF Calls, World

(* What an active or idle call has on its way, and what it is sending.          *)
LEMMA OwnFlight ==
    ASSUME Inv, Calls, NEW c \in Call, pc[c] \in {"idle", "sending", "waiting", "yielded"}, NEW id \in IdSet
    PROVE  /\ Flight(c, id) => /\ Active(c) /\ Registered(id) /\ states[id] = c
                               /\ \E k \in 1..ask[c].shape.n :
                                     id = IdOf(c, k) /\ k <= idx[c] /\ (pc[c] = "sending" => k # idx[c])
           /\ Current(c, id) => /\ Active(c) /\ Registered(id) /\ states[id] = c
                                /\ idx[c] \in 1..ask[c].shape.n /\ id = IdOf(c, idx[c])
<1>0. TypeOK /\ idx[c] \in 0..2 /\ ask[c].shape.n \in 1..2
  BY ShapeSize DEF Inv, TypeOK
<1>1. ASSUME Flight(c, id)
      PROVE  /\ Active(c) /\ Registered(id) /\ states[id] = c
             /\ \E k \in 1..ask[c].shape.n :
                   id = IdOf(c, k) /\ k <= idx[c] /\ (pc[c] = "sending" => k # idx[c])
  <2>1. PICK k \in 1..ask[c].shape.n : id = IdOf(c, k) /\ k <= idx[c] /\ (pc[c] = "sending" => k # idx[c])
    BY <1>1 DEF Calls, FlightOK
  <2>2. pc[c] # "idle"
    BY <1>0, <2>1 DEF Calls, NamesOK
  <2>3. Active(c)
    BY <2>2 DEF Active
  <2>4. Registered(id) /\ states[id] = c
    BY <1>1, <2>3 DEF Calls, FlightOK
  <2> QED BY <2>1, <2>3, <2>4
<1>2. ASSUME Current(c, id)
      PROVE  /\ Active(c) /\ Registered(id) /\ states[id] = c
             /\ idx[c] \in 1..ask[c].shape.n /\ id = IdOf(c, idx[c])
  BY <1>0, <1>2 DEF Calls, SendingOK, NamesOK, Current, Active
<1> QED BY <1>1, <1>2

(* A call registers its next child: the id was free, so that nothing of another *)
(* call is on its way under it.                                                 *)
LEMMA RegisterStep ==
    ASSUME Inv, NamesApart, Calls, NEW c \in Call, pc[c] \in {"idle", "sending"},
           NEW i \in 1..ask[c].shape.n, i = idx[c] + 1, ~Registered(IdOf(c, i)), Register(c, i),
           World(c), NEW cur, cur = IdOf(c, idx[c]), pc[c] = "sending" => Token(c, cur)',
           UNCHANGED <<ask, got>>, ErrorOK'
    PROVE  Calls'
<1>0. TypeOK /\ CallOK /\ idx[c] \in 0..2 /\ i \in 1..2 /\ (pc[c] = "sending" => Active(c))
  BY ShapeSize DEF Inv, TypeOK, Active
<1>z. PICK new : new = IdOf(c, i)
  OBVIOUS
<1>a. new \in IdSet /\ new[1] = ask[c].name /\ new \notin DOMAIN states
  BY <1>0, <1>z, IdOfFacts DEF Registered
<1>b. /\ pc' = [pc EXCEPT ![c] = "sending"] /\ idx' = [idx EXCEPT ![c] = i]
      /\ states' = With(new, c) /\ aborts' = aborts
      /\ ~Fans(c) => kids' = kids /\ parents' = parents
      /\ Fans(c) => /\ kids' = [kids EXCEPT ![c] = @ \cup {new}]
                    /\ parents' = [n \in DOMAIN parents \cup {ask[c].name} |->
                                      IF n = ask[c].name THEN c ELSE parents[n]]
  BY <1>z DEF Register, Fans
<1>c. /\ pc'[c] = "sending" /\ idx'[c] = i /\ Active(c)'
      /\ \A d \in Call : d # c => /\ pc'[d] = pc[d] /\ idx'[d] = idx[d] /\ kids'[d] = kids[d]
                                  /\ (Active(d)' <=> Active(d))
      /\ \A d \in Call : idx[d] <= idx'[d] /\ idx'[d] \in Nat /\ idx[d] \in Nat
      /\ kids'[c] = IF Fans(c) THEN kids[c] \cup {new} ELSE kids[c]
  <2>1. /\ pc'[c] = "sending" /\ idx'[c] = i
        /\ \A d \in Call : d # c => pc'[d] = pc[d] /\ idx'[d] = idx[d] /\ kids'[d] = kids[d]
        /\ kids'[c] = IF Fans(c) THEN kids[c] \cup {new} ELSE kids[c]
    BY <1>0, <1>b DEF TypeOK, CallOK
  <2>2. \A d \in Call : idx[d] \in Nat
    BY <1>0 DEF TypeOK
  <2> QED BY <1>0, <2>1, <2>2 DEF Active
<1>d. /\ DOMAIN states' = DOMAIN states \cup {new} /\ states'[new] = c
      /\ \A id \in DOMAIN states : states'[id] = states[id]
  BY <1>a, <1>b DEF With
<1>e. /\ \A d, k : IdOf(d, k)' = IdOf(d, k)
      /\ \A d : Fans(d)' <=> Fans(d)
      /\ \A d, id : d \in Call /\ d # c => (Current(d, id)' <=> Current(d, id))
      /\ Current(c, new)'
  BY <1>z, <1>c DEF IdOf, Fans, Current
<1>1. NamesOK'
  <2>1. ASSUME NEW id \in DOMAIN states'
        PROVE  (/\ states[id] \in Call
                /\ \E k \in 1..ask[states[id]].shape.n :
                      k <= idx[states[id]] /\ id = IdOf(states[id], k))'
    <3>1. CASE id = new
      BY <3>1, <1>0, <1>c, <1>d, <1>e, <1>z
    <3>2. CASE id \in DOMAIN states
      <4>1. PICK d \in Call : d = states[id] /\ \E k \in 1..ask[d].shape.n : k <= idx[d] /\ id = IdOf(d, k)
        BY <3>2 DEF Calls, NamesOK
      <4>2. PICK k \in 1..ask[d].shape.n : k <= idx[d] /\ id = IdOf(d, k)
        BY <4>1
      <4>3. IdOf(d, k)' = id /\ states'[id] = d
        BY <3>2, <4>1, <4>2, <1>d, <1>e
      <4>4. k <= idx'[d]
        BY <4>2, <1>c
      <4> QED BY <4>1, <4>2, <4>3, <4>4
    <3> QED BY <3>1, <3>2, <1>d
  <2>2. \A n \in DOMAIN parents' : parents'[n] \in Call /\ ask'[parents'[n]].name = n
    BY <1>b DEF Calls, NamesOK
  <2>3. \A d \in Call : pc'[d] = "idle" => idx'[d] = 0 /\ kids'[d] = {}
    BY <1>c DEF Calls, NamesOK
  <2>4. \A d \in Call : idx'[d] <= ask'[d].shape.n
    BY <1>c DEF Calls, NamesOK
  <2> QED BY <2>1, <2>2, <2>3, <2>4 DEF NamesOK
<1>2. FlightOK'
  <2> SUFFICES ASSUME NEW d \in Call, NEW id \in IdSet, Flight(d, id)'
               PROVE  /\ \E k \in 1..ask'[d].shape.n : /\ id = IdOf(d, k)' /\ k <= idx'[d]
                                                      /\ (pc'[d] = "sending" => k # idx'[d])
                      /\ Registered(id)' => states'[id] = d
                      /\ ~Registered(id)' => MayAbort(ask'[d]) /\ ~Active(d)'
    BY DEF FlightOK
  <2>1. Flight(d, id) \/ (d = c /\ Current(c, id))
    BY DEF World
  <2>2. CASE d # c
    <3>1. Flight(d, id)
      BY <2>1, <2>2
    <3>2. PICK k \in 1..ask[d].shape.n : id = IdOf(d, k) /\ k <= idx[d] /\ (pc[d] = "sending" => k # idx[d])
      BY <3>1 DEF Calls, FlightOK
    <3>3. /\ Registered(id) => states[id] = d
          /\ ~Registered(id) => MayAbort(ask[d]) /\ ~Active(d)
      BY <3>1 DEF Calls, FlightOK
    <3>4. ~Registered(id) => id # new
      <4>1. id[1] = ask[d].name
        BY <1>0, <3>1, FlightNames DEF Calls
      <4> QED BY <1>0, <1>a, <2>2, <3>3, <4>1, Apart
    <3>5. /\ Registered(id)' <=> Registered(id)
          /\ Registered(id) => states'[id] = states[id]
      BY <3>4, <1>d DEF Registered
    <3> QED BY <1>c, <1>e, <2>2, <3>2, <3>3, <3>5
  <2>3. CASE d = c
    <3>1. Registered(id) /\ states[id] = c
      BY <2>1, <2>3, OwnFlight
    <3>2. \E k \in 1..ask[c].shape.n : id = IdOf(c, k) /\ k <= idx[c]
      BY <2>1, <2>3, OwnFlight
    <3>3. PICK k \in 1..ask[c].shape.n : id = IdOf(c, k) /\ k <= idx[c]
      BY <3>2
    <3>4. k <= idx'[c] /\ k # idx'[c]
      BY <3>3, <1>0, <1>c
    <3>5. Registered(id)' /\ states'[id] = c
      BY <3>1, <1>d DEF Registered
    <3> QED BY <2>3, <1>e, <3>3, <3>4, <3>5
  <2> QED BY <2>2, <2>3
<1>3. SendingOK'
  <2> SUFFICES ASSUME NEW d \in Call, pc'[d] = "sending"
               PROVE  (idx[d] >= 1 /\ Registered(IdOf(d, idx[d])) /\ states[IdOf(d, idx[d])] = d)'
    BY DEF SendingOK
  <2>1. CASE d = c
    <3>1. IdOf(c, idx[c])' = new
      BY <1>c, <1>z DEF IdOf
    <3> QED BY <2>1, <3>1, <1>0, <1>c, <1>d DEF Registered
  <2>2. CASE d # c
    <3>1. idx[d] >= 1 /\ Registered(IdOf(d, idx[d])) /\ states[IdOf(d, idx[d])] = d
      BY <2>2, <1>c DEF Calls, SendingOK
    <3>2. PICK x : x = IdOf(d, idx[d])
      OBVIOUS
    <3>3. IdOf(d, idx[d])' = x
      BY <3>2, <2>2, <1>c DEF IdOf
    <3>4. x \in DOMAIN states' /\ states'[x] = d
      BY <1>d, <3>1, <3>2 DEF Registered
    <3> QED BY <2>2, <1>c, <3>1, <3>3, <3>4 DEF Registered
  <2> QED BY <2>1, <2>2
<1>4. KidsOK'
  <2> SUFFICES ASSUME NEW d \in Call, Active(d)'
               PROVE  /\ ~Fans(d)' => kids'[d] = {}
                      /\ \A id \in kids'[d] : Registered(id)' /\ states'[id] = d
    BY DEF KidsOK
  <2>1. /\ ~Fans(d) => kids[d] = {}
        /\ \A id \in kids[d] : Registered(id) /\ states[id] = d
    BY <1>0, <1>c DEF Calls, KidsOK, NamesOK
  <2>2. \A id \in kids'[d] : id \in kids[d] \/ (id = new /\ d = c)
    BY <1>c
  <2> QED BY <1>c, <1>d, <1>e, <2>1, <2>2 DEF Registered
<1>5. \A id \in DOMAIN states : states[id] = c => Active(c)
  <2> SUFFICES ASSUME NEW id \in DOMAIN states, states[id] = c PROVE Active(c)
    OBVIOUS
  <2>1. PICK k \in 1..ask[c].shape.n : k <= idx[c]
    BY DEF Calls, NamesOK
  <2>2. pc[c] # "idle"
    BY <2>1, <1>0 DEF Calls, NamesOK
  <2> QED BY <2>2, <1>0
<1>6. CoverOK'
  <2> SUFFICES ASSUME NEW d \in Call, Active(d)', MayAbort(ask'[d]), Fans(d)',
                      NEW id \in DOMAIN states', states'[id] = d
               PROVE  id \in kids'[d] /\ ask'[d].name \in DOMAIN parents' /\ parents'[ask'[d].name] = d
    BY DEF CoverOK
  <2>1. MayAbort(ask[d]) /\ Fans(d)
    BY <1>e
  <2>2. CASE d = c
    <3>1. id = new \/ (id \in DOMAIN states /\ states[id] = c)
      BY <1>d, <2>2
    <3>2. id = new \/ id \in kids[c]
      BY <1>5, <2>1, <2>2, <3>1 DEF Calls, CoverOK
    <3> QED BY <1>b, <1>c, <2>1, <2>2, <3>2
  <2>3. CASE d # c
    <3>1. Active(d) /\ id \in DOMAIN states /\ states[id] = d
      BY <1>c, <1>d, <2>3
    <3>2. id \in kids[d] /\ ask[d].name \in DOMAIN parents /\ parents[ask[d].name] = d
      BY <2>1, <3>1 DEF Calls, CoverOK
    <3>3. ask[d].name # ask[c].name
      BY <1>0, <2>1, <2>3, Apart
    <3>4. ask[d].name \in DOMAIN parents' /\ parents'[ask[d].name] = parents[ask[d].name]
      BY <1>b, <3>2, <3>3
    <3> QED BY <1>c, <2>3, <3>2, <3>4
  <2> QED BY <2>2, <2>3
<1>7. WaitOK'
  <2> SUFFICES ASSUME NEW d \in Call, pc'[d] \in {"waiting", "yielded"}, got'[d] \in {"nothing", "part"}
               PROVE  \E id \in DOMAIN states' : states'[id] = d
    BY DEF WaitOK
  <2>1. d # c /\ pc[d] \in {"waiting", "yielded"} /\ got[d] \in {"nothing", "part"}
    BY <1>c
  <2>2. PICK id \in DOMAIN states : states[id] = d
    BY <2>1 DEF Calls, WaitOK
  <2> QED BY <1>d, <2>2
<1>8. TokenOK'
  <2> SUFFICES ASSUME NEW d \in Call, Active(d)', NEW id \in DOMAIN states', states'[id] = d
               PROVE  Token(d, id)' \/ Current(d, id)' \/ got'[d] = "error"
    BY DEF TokenOK
  <2>1. CASE id = new
    BY <2>1, <1>d, <1>e
  <2>2. CASE id # new
    <3>1. id \in DOMAIN states /\ states[id] = d /\ Active(d)
      BY <2>2, <1>c, <1>d, <1>5
    <3>2. Token(d, id) \/ Current(d, id) \/ got[d] = "error"
      BY <3>1 DEF Calls, TokenOK
    <3>3. id \in IdSet
      BY <1>0, <3>1, RegisteredIds DEF Calls
    <3>4. d = c /\ Current(d, id) => Token(c, cur)' /\ id = cur
      BY DEF Current
    <3> QED BY <1>e, <3>2, <3>3, <3>4 DEF World
  <2> QED BY <2>1, <2>2
<1>9. AbortOK'
  <2>1. ASSUME NEW j \in DOMAIN inbox', inbox'[j].type = "ABORT", NEW id \in inbox'[j].ids
        PROVE  \E d \in Call : id[1] = ask'[d].name /\ MayAbort(ask'[d]) /\ pc'[d] \in Ended
    <3>1. PICK k \in DOMAIN inbox : inbox[k] = inbox'[j]
      BY <2>1 DEF World
    <3>2. PICK d \in Call : id[1] = ask[d].name /\ MayAbort(ask[d]) /\ pc[d] \in Ended
      BY <2>1, <3>1 DEF Calls, AbortOK
    <3>3. d # c
      BY <3>2 DEF Ended
    <3> QED BY <3>2, <3>3, <1>c
  <2>2. ASSUME NEW d \in Call, pc'[d] = "aborting"
        PROVE  MayAbort(ask'[d]) /\ \A id \in aborts'[d].ids : id[1] = ask'[d].name
    BY <2>2, <1>b, <1>c DEF Calls, AbortOK
  <2> QED BY <2>1, <2>2 DEF AbortOK
<1>10. CancelOK'
  BY <1>b, <1>c DEF Calls, CancelOK, World
<1> QED BY <1>1, <1>2, <1>3, <1>4, <1>6, <1>7, <1>8, <1>9, <1>10 DEF Calls, World

(* A call goes on to wait, or to its caller and back: what it has registered    *)
(* stays, and what it was sending is on its way.                                *)
LEMMA StayStep ==
    ASSUME Inv, NamesApart, Calls, NEW c \in Call, Active(c), NEW to \in {"waiting", "yielded"},
           pc' = [pc EXCEPT ![c] = to], UNCHANGED <<ask, idx, kids, aborts, states, parents>>,
           \A d \in Call : /\ got'[d] = "error" <=> got[d] = "error"
                           /\ got'[d] \in {"nothing", "part"} => got[d] \in {"nothing", "part"},
           World(c), NEW cur, cur = IdOf(c, idx[c]), pc[c] = "sending" => Token(c, cur)', ErrorOK'
    PROVE  Calls'
<1>0. TypeOK /\ CallOK
  BY DEF Inv
<1>1. /\ pc'[c] = to /\ Active(c)' /\ pc'[c] # "sending"
      /\ \A d \in Call : d # c => pc'[d] = pc[d]
      /\ \A d \in Call : Active(d)' <=> Active(d)
  BY <1>0 DEF TypeOK, Active
<1>2. /\ \A d, k : IdOf(d, k)' = IdOf(d, k)
      /\ \A d : Fans(d)' <=> Fans(d)
      /\ \A id : Registered(id)' <=> Registered(id)
      /\ \A d, id : d \in Call /\ d # c => (Current(d, id)' <=> Current(d, id))
  BY <1>1 DEF IdOf, Fans, Registered, Current
<1>3. NamesOK'
  BY <1>1, <1>2 DEF Calls, NamesOK
<1>4. FlightOK'
  <2> SUFFICES ASSUME NEW d \in Call, NEW id \in IdSet, Flight(d, id)'
               PROVE  /\ \E k \in 1..ask'[d].shape.n : /\ id = IdOf(d, k)' /\ k <= idx'[d]
                                                      /\ (pc'[d] = "sending" => k # idx'[d])
                      /\ Registered(id)' => states'[id] = d
                      /\ ~Registered(id)' => MayAbort(ask'[d]) /\ ~Active(d)'
    BY DEF FlightOK
  <2>1. Flight(d, id) \/ (d = c /\ Current(c, id))
    BY DEF World
  <2>2. CASE d # c
    <3>1. /\ \E k \in 1..ask[d].shape.n : id = IdOf(d, k) /\ k <= idx[d] /\ (pc[d] = "sending" => k # idx[d])
          /\ Registered(id) => states[id] = d
          /\ ~Registered(id) => MayAbort(ask[d]) /\ ~Active(d)
      BY <2>1, <2>2 DEF Calls, FlightOK
    <3> QED BY <2>2, <3>1, <1>1, <1>2
  <2>3. CASE d = c
    <3>1. pc[c] \in {"idle", "sending", "waiting", "yielded"} /\ idx[c] \in 0..2
      BY <1>0 DEF Active, TypeOK
    <3>2. Registered(id) /\ states[id] = c
      BY <2>1, <2>3, <3>1, OwnFlight
    <3>3. \E k \in 1..ask[c].shape.n : id = IdOf(c, k) /\ k <= idx[c]
      BY <2>1, <2>3, <3>1, OwnFlight
    <3> QED BY <2>3, <3>2, <3>3, <1>1, <1>2
  <2> QED BY <2>2, <2>3
<1>5. SendingOK'
  <2> SUFFICES ASSUME NEW d \in Call, pc'[d] = "sending"
               PROVE  (idx[d] >= 1 /\ Registered(IdOf(d, idx[d])) /\ states[IdOf(d, idx[d])] = d)'
    BY DEF SendingOK
  <2>1. pc[d] = "sending"
    BY <1>1
  <2>2. idx[d] >= 1 /\ Registered(IdOf(d, idx[d])) /\ states[IdOf(d, idx[d])] = d
    BY <2>1 DEF Calls, SendingOK
  <2> QED BY <2>2 DEF Registered, IdOf
<1>6. KidsOK' /\ CoverOK'
  BY <1>1, <1>2 DEF Calls, KidsOK, CoverOK
<1>7. WaitOK'
  <2> SUFFICES ASSUME NEW d \in Call, pc'[d] \in {"waiting", "yielded"}, got'[d] \in {"nothing", "part"}
               PROVE  \E id \in DOMAIN states : states[id] = d
    BY DEF WaitOK
  <2>1. CASE pc[d] \in {"waiting", "yielded"}
    BY <2>1 DEF Calls, WaitOK
  <2>2. CASE pc[d] = "sending"
    BY <2>2 DEF Calls, SendingOK, Registered
  <2> QED BY <1>1, <2>1, <2>2 DEF Active
<1>8. TokenOK'
  <2> SUFFICES ASSUME NEW d \in Call, Active(d)', NEW id \in DOMAIN states, states[id] = d
               PROVE  Token(d, id)' \/ Current(d, id)' \/ got'[d] = "error"
    BY DEF TokenOK
  <2>1. Token(d, id) \/ Current(d, id) \/ got[d] = "error"
    BY <1>1 DEF Calls, TokenOK
  <2>2. id \in IdSet
    BY <1>0, RegisteredIds DEF Calls
  <2>3. d = c /\ Current(d, id) => Token(c, cur)' /\ id = cur
    BY DEF Current
  <2> QED BY <1>2, <2>1, <2>2, <2>3 DEF World
<1>9. AbortOK'
  <2>1. ASSUME NEW j \in DOMAIN inbox', inbox'[j].type = "ABORT", NEW id \in inbox'[j].ids
        PROVE  \E d \in Call : id[1] = ask'[d].name /\ MayAbort(ask'[d]) /\ pc'[d] \in Ended
    <3>1. PICK k \in DOMAIN inbox : inbox[k] = inbox'[j]
      BY <2>1 DEF World
    <3>2. PICK d \in Call : id[1] = ask[d].name /\ MayAbort(ask[d]) /\ pc[d] \in Ended
      BY <2>1, <3>1 DEF Calls, AbortOK
    <3>3. d # c
      BY <3>2 DEF Ended, Active
    <3> QED BY <3>2, <3>3, <1>1
  <2>2. ASSUME NEW d \in Call, pc'[d] = "aborting"
        PROVE  MayAbort(ask'[d]) /\ \A id \in aborts'[d].ids : id[1] = ask'[d].name
    BY <2>2, <1>1 DEF Calls, AbortOK
  <2> QED BY <2>1, <2>2 DEF AbortOK
<1>10. CancelOK'
  BY <1>1 DEF Calls, CancelOK, World
<1> QED BY <1>3, <1>4, <1>5, <1>6, <1>7, <1>8, <1>9, <1>10 DEF Calls, World

(* The abort of a call is sent: it stands behind all that the call has left.     *)
LEMMA SendAbortStep ==
    ASSUME Inv, NamesApart, Calls, NEW c \in Call, SendAbort(c)
    PROVE  Calls'
<1>0. TypeOK /\ CallOK
  BY DEF Inv
<1>z. PICK ids : ids = aborts[c].ids
  OBVIOUS
<1>1. /\ pc[c] = "aborting" /\ UNCHANGED <<ask, idx, kids, got, states, parents, errored, live, outbox, coreUp>>
      /\ inbox' = IF ids # {} /\ Sends /\ coreUp THEN Append(inbox, Abort(ids)) ELSE inbox
      /\ pc' = [pc EXCEPT ![c] = aborts[c].to]
      /\ \A d \in Call : d # c => aborts'[d] = aborts[d]
  BY <1>0, <1>z DEF SendAbort, procVars, CallOK
<1>2. /\ pc'[c] = aborts[c].to /\ aborts[c].to \in Ended /\ pc'[c] \in Ended
      /\ \A d \in Call : d # c => pc'[d] = pc[d]
      /\ \A d \in Call : (Active(d)' <=> Active(d)) /\ (Active(d) => d # c)
      /\ \A d \in Call : pc'[d] \in {"idle", "sending", "aborting", "waiting", "yielded"} => d # c
  BY <1>0, <1>1 DEF TypeOK, CallOK, Active, Ended
<1>3. /\ \A d, k : IdOf(d, k)' = IdOf(d, k)
      /\ \A d : Fans(d)' <=> Fans(d)
      /\ \A id : Registered(id)' <=> Registered(id)
      /\ \A d \in Call : \A id : Current(d, id)' <=> Current(d, id)
  BY <1>1, <1>2 DEF IdOf, Fans, Registered, Current
<1>4. /\ MayAbort(ask[c]) /\ \A id \in ids : id[1] = ask[c].name
      /\ aborts[c].to = "cancelled" => \A id \in IdSet : Loose(c, id) => id \in ids
  BY <1>1, <1>z DEF Calls, AbortOK, CancelOK
<1>5. /\ \A d, id :
                    /\ (InInbox(d, id)' <=> InInbox(d, id))
                    /\ (Loose(d, id)' => Loose(d, id))
                    /\ (Loose(d, id) /\ id \notin ids => Loose(d, id)')
                    /\ (id \in ids => ~Loose(d, id)')
      /\ \A i \in DOMAIN inbox' : inbox'[i].type = "ABORT" =>
            (i \in DOMAIN inbox /\ inbox'[i] = inbox[i]) \/ inbox'[i].ids = ids
      /\ CoreOK'
      /\ \A d, id : \A i, j \in DOMAIN inbox' : Adds(i, d, id)' /\ Adds(j, d, id)' =>
            i \in DOMAIN inbox /\ j \in DOMAIN inbox /\ Adds(i, d, id) /\ Adds(j, d, id)
  <2>1. CASE ids # {} /\ Sends /\ coreUp
    <3>n. PICK n : n = Len(inbox) + 1
      OBVIOUS
    <3>m. PICK m : m = Abort(ids)
      OBVIOUS
    <3>0. m \in Message /\ m.type = "ABORT" /\ m.ids = ids /\ m.type # "ADD"
      BY <1>0, <1>z, <3>m DEF CallOK, Abort, Message
    <3>1. /\ DOMAIN inbox' = DOMAIN inbox \cup {n} /\ n \notin DOMAIN inbox
          /\ \A i \in DOMAIN inbox : i \in Nat /\ i <= Len(inbox) /\ inbox'[i] = inbox[i]
          /\ inbox'[n] = m /\ Len(inbox') = n /\ Len(inbox) \in Nat /\ DOMAIN inbox = 1..Len(inbox)
      BY <1>1, <2>1, <3>m, <3>n, <3>0, Appended DEF Inv, ChannelOK
    <3>2. \A id : \A i \in DOMAIN inbox \cup {0} : AbortedBehind(i, id)' <=> AbortedBehind(i, id) \/ id \in ids
      <4> SUFFICES ASSUME NEW i \in DOMAIN inbox \cup {0}, NEW id
                   PROVE  AbortedBehind(i, id)' <=> AbortedBehind(i, id) \/ id \in ids
        OBVIOUS
      <4>0. i \in Nat /\ i <= Len(inbox) /\ n = Len(inbox) + 1 /\ Len(inbox) \in Nat
        BY <3>1, <3>n
      <4>1. id \in ids => AbortedBehind(i, id)'
        <5>1. n \in i+1 .. Len(inbox')
          BY <4>0, <3>1
        <5> QED BY <5>1, <3>0, <3>1 DEF AbortedBehind
      <4>2. AbortedBehind(i, id) => AbortedBehind(i, id)'
        <5> SUFFICES ASSUME AbortedBehind(i, id) PROVE AbortedBehind(i, id)'
          OBVIOUS
        <5>1. PICK k \in i+1 .. Len(inbox) : inbox[k].type = "ABORT" /\ id \in inbox[k].ids
          BY DEF AbortedBehind
        <5>2. k \in i+1 .. Len(inbox') /\ inbox'[k] = inbox[k]
          BY <4>0, <3>1
        <5> QED BY <5>1, <5>2 DEF AbortedBehind
      <4>3. AbortedBehind(i, id)' => AbortedBehind(i, id) \/ id \in ids
        <5> SUFFICES ASSUME AbortedBehind(i, id)', id \notin ids PROVE AbortedBehind(i, id)
          OBVIOUS
        <5>1. PICK k \in i+1 .. Len(inbox') : inbox'[k].type = "ABORT" /\ id \in inbox'[k].ids
          BY DEF AbortedBehind
        <5>2. k # n
          BY <5>1, <3>0, <3>1
        <5>3. k \in i+1 .. Len(inbox) /\ inbox'[k] = inbox[k]
          BY <4>0, <3>1, <5>1, <5>2
        <5> QED BY <5>1, <5>3 DEF AbortedBehind
      <4> QED BY <4>1, <4>2, <4>3
    <3>3. \A d, id : /\ \A i \in DOMAIN inbox : Adds(i, d, id)' <=> Adds(i, d, id)
                     /\ ~Adds(n, d, id)'
      BY <3>0, <3>1 DEF Adds
    <3>4. \A d, id : InInbox(d, id)' <=> InInbox(d, id)
      BY <3>1, <3>3 DEF InInbox
    <3>5. \A d, id : Sending(d, id)' <=> Sending(d, id) /\ id \notin ids
      <4> TAKE d, id
      <4>1. Sending(d, id) <=> \E i \in DOMAIN inbox : Adds(i, d, id) /\ ~AbortedBehind(i, id)
        BY DEF Sending, Adds
      <4>2. Sending(d, id)' <=> \E i \in DOMAIN inbox' : Adds(i, d, id)' /\ ~AbortedBehind(i, id)'
        BY DEF Sending, Adds
      <4>3. DOMAIN inbox' = DOMAIN inbox \cup {n}
        BY <3>1
      <4>4. Sending(d, id)' <=> \E i \in DOMAIN inbox : Adds(i, d, id) /\ ~AbortedBehind(i, id)'
        BY <3>3, <4>2, <4>3
      <4>5. \A i \in DOMAIN inbox : AbortedBehind(i, id)' <=> AbortedBehind(i, id) \/ id \in ids
        BY <3>2
      <4> QED BY <4>1, <4>4, <4>5
    <3>6. \A d, id : Computing(d, id)' <=> Computing(d, id) /\ id \notin ids
      BY <1>1, <3>2 DEF Computing
    <3>7. CoreOK'
      BY <1>1, <2>1, <3>0, <3>1 DEF Calls, CoreOK
    <3> QED BY <3>0, <3>1, <3>3, <3>4, <3>5, <3>6, <3>7 DEF Loose
  <2>2. CASE ~(ids # {} /\ Sends /\ coreUp)
    <3>1. inbox' = inbox
      BY <1>1, <2>2
    <3>2. \A d, id : /\ (InInbox(d, id)' <=> InInbox(d, id)) /\ (Loose(d, id)' <=> Loose(d, id))
                     /\ \A i : Adds(i, d, id)' <=> Adds(i, d, id)
      BY <1>1, <3>1 DEF InInbox, Loose, Sending, Computing, Adds, AbortedBehind
    <3>3. CoreOK'
      BY <1>1, <3>1 DEF Calls, CoreOK
    <3>4. ASSUME NEW d, NEW id \in ids PROVE ~Loose(d, id)
      <4>1. errored \in BOOLEAN /\ coreUp \in BOOLEAN
        BY <1>0 DEF TypeOK
      <4>2. coreUp = FALSE
        BY <2>2, <3>4, <4>1 DEF Sends, Calls, CoreOK
      <4>3. inbox = <<>> /\ live = {}
        BY <4>2 DEF Calls, CoreOK
      <4> QED BY <4>3 DEF Loose, Sending, Computing
    <3> QED BY <3>1, <3>2, <3>3, <3>4
  <2> QED BY <2>1, <2>2
<1>6. \A d, id : /\ (Flight(d, id)' <=> Flight(d, id))
                 /\ (InCore(d, id)' <=> InCore(d, id)) /\ (InOutbox(d, id)' <=> InOutbox(d, id))
                 /\ (Returning(d, id)' <=> Returning(d, id))
                 /\ \A i : Gives(i, d, id)' <=> Gives(i, d, id)
  BY <1>1, <1>5 DEF Flight, InCore, InOutbox, Gives, Returning
<1>7. OnceOK'
  BY <1>1, <1>5, <1>6 DEF Calls, OnceOK
<1>8. ErrorOK' /\ NamesOK' /\ KidsOK' /\ CoverOK' /\ WaitOK'
  BY <1>1, <1>2, <1>3 DEF Calls, ErrorOK, NamesOK, KidsOK, CoverOK, WaitOK
<1>9. FlightOK'
  <2> SUFFICES ASSUME NEW d \in Call, NEW id \in IdSet, Flight(d, id)'
               PROVE  /\ \E k \in 1..ask'[d].shape.n : /\ id = IdOf(d, k)' /\ k <= idx'[d]
                                                      /\ (pc'[d] = "sending" => k # idx'[d])
                      /\ Registered(id)' => states'[id] = d
                      /\ ~Registered(id)' => MayAbort(ask'[d]) /\ ~Active(d)'
    BY DEF FlightOK
  <2>1. /\ \E k \in 1..ask[d].shape.n : id = IdOf(d, k) /\ k <= idx[d] /\ (pc[d] = "sending" => k # idx[d])
        /\ Registered(id) => states[id] = d
        /\ ~Registered(id) => MayAbort(ask[d]) /\ ~Active(d)
    BY <1>6 DEF Calls, FlightOK
  <2>2. pc'[d] = "sending" => pc[d] = "sending"
    BY <1>2
  <2> QED BY <1>1, <1>2, <1>3, <2>1, <2>2
<1>10. SendingOK'
  <2> SUFFICES ASSUME NEW d \in Call, pc'[d] = "sending"
               PROVE  (idx[d] >= 1 /\ Registered(IdOf(d, idx[d])) /\ states[IdOf(d, idx[d])] = d)'
    BY DEF SendingOK
  <2>1. pc[d] = "sending"
    BY <1>2
  <2>2. idx[d] >= 1 /\ Registered(IdOf(d, idx[d])) /\ states[IdOf(d, idx[d])] = d
    BY <2>1 DEF Calls, SendingOK
  <2> QED BY <2>2, <1>1 DEF Registered, IdOf
<1>11. TokenOK'
  <2> SUFFICES ASSUME NEW d \in Call, Active(d)', NEW id \in DOMAIN states, states[id] = d
               PROVE  Token(d, id)' \/ Current(d, id)' \/ got'[d] = "error"
    BY <1>1 DEF TokenOK
  <2>1. Token(d, id) \/ Current(d, id) \/ got[d] = "error"
    BY <1>2 DEF Calls, TokenOK
  <2>2. id[1] = ask[d].name
    BY <1>0, RegisteredIds DEF Calls
  <2>3. id \notin ids
    BY <1>0, <1>2, <1>4, <2>2, Apart
  <2> QED BY <1>1, <1>3, <1>5, <1>6, <2>1, <2>3 DEF Token
<1>12. AbortOK'
  <2>1. ASSUME NEW j \in DOMAIN inbox', inbox'[j].type = "ABORT", NEW id \in inbox'[j].ids
        PROVE  \E d \in Call : id[1] = ask'[d].name /\ MayAbort(ask'[d]) /\ pc'[d] \in Ended
    <3>1. CASE j \in DOMAIN inbox /\ inbox'[j] = inbox[j]
      <4>1. PICK d \in Call : id[1] = ask[d].name /\ MayAbort(ask[d]) /\ pc[d] \in Ended
        BY <2>1, <3>1 DEF Calls, AbortOK
      <4>2. d # c
        BY <4>1, <1>1 DEF Ended
      <4> QED BY <4>1, <4>2, <1>1, <1>2
    <3>2. CASE inbox'[j].ids = ids
      BY <2>1, <3>2, <1>1, <1>2, <1>4
    <3> QED BY <2>1, <3>1, <3>2, <1>5
  <2>2. ASSUME NEW d \in Call, pc'[d] = "aborting"
        PROVE  MayAbort(ask'[d]) /\ \A id \in aborts'[d].ids : id[1] = ask'[d].name
    BY <2>2, <1>1, <1>2 DEF Calls, AbortOK
  <2> QED BY <2>1, <2>2 DEF AbortOK
<1>13. CancelOK'
  <2>1. ASSUME NEW d \in Call, pc'[d] = "cancelled", NEW id \in IdSet PROVE ~Loose(d, id)'
    <3>1. CASE d = c
      BY <2>1, <3>1, <1>2, <1>4, <1>5
    <3>2. CASE d # c
      BY <2>1, <3>2, <1>2, <1>5 DEF Calls, CancelOK
    <3> QED BY <3>1, <3>2
  <2>2. ASSUME NEW d \in Call, pc'[d] = "aborting", aborts'[d].to = "cancelled", NEW id \in IdSet, Loose(d, id)'
        PROVE  id \in aborts'[d].ids
    BY <2>2, <1>1, <1>2, <1>5 DEF Calls, CancelOK
  <2> QED BY <2>1, <2>2 DEF CancelOK
<1> QED BY <1>5, <1>7, <1>8, <1>9, <1>10, <1>11, <1>12, <1>13 DEF Calls

-----------------------------------------------------------------------------
(* The output handler.                                                         *)

(* An output is taken from the channel.  A last one leaves nothing of its       *)
(* request on its way.                                                          *)
LEMMA OutputTaken ==
    ASSUME Inv, Calls, outbox # <<>>, NEW o, o = Head(outbox), o.type = "OUTPUT",
           outbox' = Tail(outbox), UNCHANGED <<inbox, live, coreUp, errored>>
    PROVE  /\ o \in Outputs
           /\ \A d \in Call, id \in IdSet :
                 /\ Flight(d, id)' => Flight(d, id)
                 /\ Loose(d, id)' <=> Loose(d, id)
                 /\ Token(d, id) => Token(d, id)' \/ (o.final = TRUE /\ o.by = d /\ o.id = id)
           /\ o.id \in IdSet => Flight(o.by, o.id)
           /\ o.final = TRUE /\ o.id \in IdSet => ~Flight(o.by, o.id)'
           /\ CoreOK' /\ OnceOK'
           /\ \A d \in Call : got[d] # "error"
<1>0. outbox \in Seq(Outputs \cup {DEAD})
  BY DEF Calls, CoreOK
<1>1. /\ outbox' \in Seq(Outputs \cup {DEAD}) /\ Len(outbox') = Len(outbox) - 1 /\ o = outbox[1]
      /\ 1 \in DOMAIN outbox
      /\ \A i \in DOMAIN outbox' : i \in Nat /\ i + 1 \in DOMAIN outbox /\ outbox'[i] = outbox[i + 1]
      /\ \A i \in DOMAIN outbox : i \in Nat /\ (i # 1 => i - 1 \in DOMAIN outbox' /\ outbox[i] = outbox'[i - 1])
      /\ Len(outbox) \in Nat /\ DOMAIN outbox = 1..Len(outbox) /\ DOMAIN outbox' = 1..Len(outbox')
  BY <1>0, TailOf
<1>2. o \in Outputs /\ o # DEAD
  BY <1>0, <1>1 DEF DEAD
<1>3. \A d, id : /\ \A i \in DOMAIN outbox' : Gives(i, d, id)' <=> Gives(i + 1, d, id)
                 /\ Gives(1, d, id) <=> o.by = d /\ o.id = id
  BY <1>1, <1>2 DEF Gives, Outputs
<1>4. \A d, id : /\ InOutbox(d, id)' => InOutbox(d, id)
                 /\ (o.by = d /\ o.id = id => InOutbox(d, id))
                 /\ (InInbox(d, id)' <=> InInbox(d, id)) /\ (InCore(d, id)' <=> InCore(d, id))
                 /\ (Loose(d, id)' <=> Loose(d, id))
                 /\ \A i : Adds(i, d, id)' <=> Adds(i, d, id)
  <2>1. \A d, id : InOutbox(d, id)' => InOutbox(d, id)
    BY <1>1, <1>3 DEF InOutbox
  <2>2. \A d, id : o.by = d /\ o.id = id => InOutbox(d, id)
    BY <1>1, <1>3 DEF InOutbox
  <2>3. \A d, id : /\ (InInbox(d, id)' <=> InInbox(d, id)) /\ (InCore(d, id)' <=> InCore(d, id))
                   /\ (Loose(d, id)' <=> Loose(d, id))
                   /\ \A i : Adds(i, d, id)' <=> Adds(i, d, id)
    BY DEF InInbox, Adds, InCore, Loose, Sending, Computing, AbortedBehind
  <2> QED BY <2>1, <2>2, <2>3
<1>5. \A d, id : Returning(d, id) => Returning(d, id)' \/ (o.final = TRUE /\ o.by = d /\ o.id = id)
  <2> SUFFICES ASSUME NEW d, NEW id, Returning(d, id), ~(o.final = TRUE /\ o.by = d /\ o.id = id)
               PROVE  Returning(d, id)'
    OBVIOUS
  <2>1. PICK i \in DOMAIN outbox : outbox[i] = DEAD \/ (outbox[i].by = d /\ outbox[i].id = id /\ outbox[i].final)
    BY DEF Returning
  <2>2. i # 1
    BY <2>1, <1>1, <1>2 DEF Outputs
  <2>3. PICK j \in DOMAIN outbox' : outbox'[j] = outbox[i]
    BY <2>2, <1>1
  <2> QED BY <2>1, <2>3 DEF Returning
<1>6. o.final = TRUE /\ o.id \in IdSet => ~Flight(o.by, o.id)'
  <2> SUFFICES ASSUME o.final = TRUE, o.id \in IdSet, Flight(o.by, o.id)' PROVE FALSE
    OBVIOUS
  <2>1. o.by \in Call /\ Gives(1, o.by, o.id) /\ outbox[1].final = TRUE /\ InOutbox(o.by, o.id)
    BY <1>1, <1>2, <1>3, <1>4 DEF Outputs
  <2>2. ~InCore(o.by, o.id) /\ \A j \in DOMAIN outbox : Gives(j, o.by, o.id) => j <= 1
    BY <1>1, <2>1 DEF Calls, OnceOK
  <2>3. ~InInbox(o.by, o.id)
    BY <2>1 DEF Calls, OnceOK
  <2>4. PICK j \in DOMAIN outbox' : Gives(j, o.by, o.id)'
    BY <2>2, <2>3, <1>4 DEF Flight, InOutbox
  <2>5. j + 1 \in DOMAIN outbox /\ Gives(j + 1, o.by, o.id) /\ j \in 1..Len(outbox')
    BY <2>4, <1>1, <1>3
  <2>6. j + 1 <= 1
    BY <2>5, <2>2
  <2> QED BY <2>5, <2>6, <1>1
<1>7. CoreOK'
  <2>1. ASSUME NEW i \in DOMAIN outbox', outbox'[i] = DEAD PROVE i = Len(outbox') /\ coreUp' = FALSE
    <3>1. i + 1 = Len(outbox) /\ coreUp = FALSE
      BY <2>1, <1>1 DEF Calls, CoreOK
    <3> QED BY <3>1, <1>1
  <2>2. ASSUME coreUp' = FALSE, errored' = FALSE PROVE \E i \in DOMAIN outbox' : outbox'[i] = DEAD
    <3>1. PICK i \in DOMAIN outbox : outbox[i] = DEAD
      BY <2>2 DEF Calls, CoreOK
    <3>2. i # 1
      BY <3>1, <1>1, <1>2
    <3> QED BY <3>1, <3>2, <1>1
  <2> QED BY <1>1, <2>1, <2>2 DEF Calls, CoreOK
<1>8. OnceOK'
  <2> SUFFICES ASSUME NEW d \in Call, NEW id \in IdSet
               PROVE  /\ \A i, j \in DOMAIN inbox' : Adds(i, d, id)' /\ Adds(j, d, id)' => i = j
                      /\ InInbox(d, id)' => ~InCore(d, id)' /\ ~InOutbox(d, id)'
                      /\ \A r, s \in live' : r.by = d /\ r.id = id /\ s.by = d /\ s.id = id => r = s
                      /\ \A i \in DOMAIN outbox' : Gives(i, d, id)' /\ outbox'[i].final = TRUE =>
                            /\ ~InCore(d, id)'
                            /\ \A j \in DOMAIN outbox' : Gives(j, d, id)' => j <= i
    BY DEF OnceOK
  <2>1. /\ \A i, j \in DOMAIN inbox : Adds(i, d, id) /\ Adds(j, d, id) => i = j
        /\ InInbox(d, id) => ~InCore(d, id) /\ ~InOutbox(d, id)
        /\ \A r, s \in live : r.by = d /\ r.id = id /\ s.by = d /\ s.id = id => r = s
        /\ \A i \in DOMAIN outbox : Gives(i, d, id) /\ outbox[i].final = TRUE =>
              /\ ~InCore(d, id)
              /\ \A j \in DOMAIN outbox : Gives(j, d, id) => j <= i
    BY DEF Calls, OnceOK
  <2>2. ASSUME NEW i \in DOMAIN outbox', Gives(i, d, id)', outbox'[i].final = TRUE
        PROVE  ~InCore(d, id)' /\ \A j \in DOMAIN outbox' : Gives(j, d, id)' => j <= i
    <3>1. i + 1 \in DOMAIN outbox /\ Gives(i + 1, d, id) /\ outbox[i + 1].final = TRUE /\ i \in Nat
      BY <2>2, <1>1, <1>3
    <3>2. ~InCore(d, id) /\ \A j \in DOMAIN outbox : Gives(j, d, id) => j <= i + 1
      BY <3>1, <2>1
    <3>3. ASSUME NEW j \in DOMAIN outbox', Gives(j, d, id)' PROVE j <= i
      <4>1. j + 1 \in DOMAIN outbox /\ Gives(j + 1, d, id) /\ j \in Nat
        BY <3>3, <1>1, <1>3
      <4>2. j + 1 <= i + 1
        BY <4>1, <3>2
      <4> QED BY <3>1, <4>1, <4>2
    <3> QED BY <3>2, <3>3, <1>4
  <2> QED BY <2>1, <2>2, <1>4
<1>9. \A d \in Call : got[d] # "error"
  BY DEF Calls, ErrorOK
<1> QED BY <1>2, <1>4, <1>5, <1>6, <1>7, <1>8, <1>9 DEF Flight, Token

(* An output is given to the call it belongs to, and its last one ends the      *)
(* registration of the request.                                                 *)
LEMMA HandleOutputStep ==
    ASSUME Inv, NamesApart, Calls, HandleOutput
    PROVE  Calls' /\ strays' = strays
<1>0. TypeOK /\ CallOK
  BY DEF Inv
<1>z. PICK o : o = Head(outbox)
  OBVIOUS
<1>1. /\ outbox # <<>> /\ o.type = "OUTPUT" /\ outbox' = Tail(outbox)
      /\ UNCHANGED <<pc, ask, idx, aborts, errored, inbox, live, coreUp>>
  BY <1>z DEF HandleOutput
<1>2. /\ o \in Outputs
      /\ \A d \in Call, id \in IdSet :
            /\ Flight(d, id)' => Flight(d, id)
            /\ Loose(d, id)' <=> Loose(d, id)
            /\ Token(d, id) => Token(d, id)' \/ (o.final = TRUE /\ o.by = d /\ o.id = id)
      /\ o.id \in IdSet => Flight(o.by, o.id)
      /\ o.final = TRUE /\ o.id \in IdSet => ~Flight(o.by, o.id)'
      /\ CoreOK' /\ OnceOK'
      /\ \A d \in Call : got[d] # "error"
  BY <1>1, <1>z, OutputTaken
<1>3. o.by \in Call /\ o.final \in BOOLEAN
  BY <1>2 DEF Outputs
<1>4. Registered(o.id) => o.id \in IdSet /\ states[o.id] = o.by
  <2> SUFFICES ASSUME Registered(o.id) PROVE o.id \in IdSet /\ states[o.id] = o.by
    OBVIOUS
  <2>1. o.id \in IdSet
    BY <1>0, RegisteredIds DEF Registered, Calls
  <2> QED BY <2>1, <1>2, <1>3 DEF Calls, FlightOK
<1>c. PICK c : c = o.by
  OBVIOUS
<1>5. CASE ~Registered(o.id)
  <2>1. UNCHANGED <<got, kids, states, parents, strays>>
    BY <1>5, <1>z DEF HandleOutput
  <2>2. /\ \A d, k : IdOf(d, k)' = IdOf(d, k)
        /\ \A d : (Fans(d)' <=> Fans(d)) /\ (Active(d)' <=> Active(d))
        /\ \A id : Registered(id)' <=> Registered(id)
        /\ \A d, id : Current(d, id)' <=> Current(d, id)
    BY <1>1, <2>1 DEF IdOf, Fans, Registered, Current, Active
  <2>3. ErrorOK'
    BY <1>2, <2>1 DEF ErrorOK
  <2>4. NamesOK' /\ KidsOK' /\ CoverOK' /\ WaitOK' /\ AbortOK'
    BY <1>1, <2>1, <2>2 DEF Calls, NamesOK, KidsOK, CoverOK, WaitOK, AbortOK
  <2>5. FlightOK' /\ CancelOK'
    BY <1>1, <1>2, <2>1, <2>2 DEF Calls, FlightOK, CancelOK
  <2>6. SendingOK'
    BY <1>1, <2>1 DEF Calls, SendingOK, Registered, IdOf
  <2>7. TokenOK'
    <3> SUFFICES ASSUME NEW d \in Call, Active(d)', NEW id \in DOMAIN states, states[id] = d
                 PROVE  Token(d, id)' \/ Current(d, id)' \/ got'[d] = "error"
      BY <2>1 DEF TokenOK
    <3>1. Token(d, id) \/ Current(d, id) \/ got[d] = "error"
      BY <2>2 DEF Calls, TokenOK
    <3>2. id \in IdSet /\ id # o.id
      BY <1>0, <1>5, RegisteredIds DEF Calls, Registered
    <3> QED BY <1>2, <2>1, <2>2, <3>1, <3>2
  <2> QED BY <1>2, <2>1, <2>3, <2>4, <2>5, <2>6, <2>7 DEF Calls
<1>6. CASE Registered(o.id) /\ o.final = FALSE
  <2>1. /\ UNCHANGED <<kids, states, parents, strays>>
        /\ \A d \in Call : got'[d] = got[d] \/ (got[d] = "nothing" /\ got'[d] = "part")
    <3>1. UNCHANGED <<kids, states, parents>>
      BY <1>6, <1>z DEF HandleOutput
    <3>2. strays' = strays
      BY <1>4, <1>6, <1>z DEF HandleOutput
    <3>3. (got' = [got EXCEPT ![c] = "part"] /\ got[c] = "nothing") \/ got' = got
      BY <1>4, <1>6, <1>c, <1>z DEF HandleOutput
    <3> QED BY <3>1, <3>2, <3>3, <1>0, <1>3, <1>c DEF TypeOK
  <2>2. /\ \A d, k : IdOf(d, k)' = IdOf(d, k)
        /\ \A d : (Fans(d)' <=> Fans(d)) /\ (Active(d)' <=> Active(d))
        /\ \A id : Registered(id)' <=> Registered(id)
        /\ \A d, id : Current(d, id)' <=> Current(d, id)
    BY <1>1, <2>1 DEF IdOf, Fans, Registered, Current, Active
  <2>3. ErrorOK'
    BY <1>2, <2>1 DEF ErrorOK
  <2>4. NamesOK' /\ KidsOK' /\ CoverOK' /\ AbortOK'
    BY <1>1, <2>1, <2>2 DEF Calls, NamesOK, KidsOK, CoverOK, AbortOK
  <2>5. FlightOK' /\ CancelOK'
    BY <1>1, <1>2, <2>1, <2>2 DEF Calls, FlightOK, CancelOK
  <2>6. SendingOK' /\ WaitOK'
    BY <1>1, <2>1 DEF Calls, SendingOK, Registered, IdOf, WaitOK
  <2>7. TokenOK'
    <3> SUFFICES ASSUME NEW d \in Call, Active(d)', NEW id \in DOMAIN states, states[id] = d
                 PROVE  Token(d, id)' \/ Current(d, id)' \/ got'[d] = "error"
      BY <2>1 DEF TokenOK
    <3>1. Token(d, id) \/ Current(d, id) \/ got[d] = "error"
      BY <2>2 DEF Calls, TokenOK
    <3>2. id \in IdSet
      BY <1>0, RegisteredIds DEF Calls
    <3> QED BY <1>2, <1>6, <2>1, <2>2, <3>1, <3>2
  <2> QED BY <1>2, <2>1, <2>3, <2>4, <2>5, <2>6, <2>7 DEF Calls
<1>7. CASE Registered(o.id) /\ o.final = TRUE
  <2>z. PICK left : left = kids[c] \ {o.id}
    OBVIOUS
  <2>1. /\ kids' = [kids EXCEPT ![c] = left] /\ states' = Without({o.id}) /\ strays' = strays
        /\ (got' = [got EXCEPT ![c] = "final"] /\ left = {}) \/ (got' = got /\ left # {})
        /\ \/ parents' = parents
           \/ left = {} /\ parents' = [n \in DOMAIN parents \ {ask[c].name} |-> parents[n]]
    <3>1. states[o.id] = c /\ o.by = c
      BY <1>4, <1>7, <1>c
    <3>2. /\ kids' = [kids EXCEPT ![c] = left] /\ states' = Without({o.id}) /\ strays' = strays
      BY <3>1, <1>7, <1>z, <2>z DEF HandleOutput
    <3>3. (got' = [got EXCEPT ![c] = "final"] /\ left = {}) \/ (got' = got /\ left # {})
      <4>1. left = {} => got' = [got EXCEPT ![c] = "final"]
        BY <3>1, <1>7, <1>z, <2>z DEF HandleOutput
      <4>2. left # {} => got' = got
        BY <3>1, <1>7, <1>z, <2>z DEF HandleOutput
      <4> QED BY <4>1, <4>2
    <3>4. \/ parents' = parents
          \/ left = {} /\ parents' = [n \in DOMAIN parents \ {ask[c].name} |-> parents[n]]
      BY <3>1, <1>7, <1>z, <2>z DEF HandleOutput
    <3> QED BY <3>2, <3>3, <3>4
  <2>2. /\ DOMAIN states' = DOMAIN states \ {o.id}
        /\ \A id \in DOMAIN states' : states'[id] = states[id]
        /\ o.id \in DOMAIN states /\ states[o.id] = c /\ c \in Call /\ o.id \in IdSet
    BY <1>3, <1>4, <1>7, <1>c, <2>1 DEF Without, Registered
  <2>3. /\ kids'[c] = left
        /\ \A d \in Call : d # c => kids'[d] = kids[d] /\ got'[d] = got[d]
        /\ (got'[c] = "final" /\ left = {}) \/ (got'[c] = got[c] /\ left # {})
    BY <1>0, <2>1, <2>2 DEF TypeOK, CallOK
  <2>4. /\ \A d, k : IdOf(d, k)' = IdOf(d, k)
        /\ \A d : (Fans(d)' <=> Fans(d)) /\ (Active(d)' <=> Active(d))
        /\ \A id : Registered(id)' <=> Registered(id) /\ id # o.id
        /\ \A d, id : Current(d, id)' <=> Current(d, id)
    BY <1>1, <2>2 DEF IdOf, Fans, Registered, Current, Active
  <2>5. /\ \A n \in DOMAIN parents' : n \in DOMAIN parents /\ parents'[n] = parents[n]
        /\ \A n \in DOMAIN parents : n \notin DOMAIN parents' => n = ask[c].name /\ left = {}
    BY <2>1
  <2>6. ErrorOK'
    BY <1>2, <2>3 DEF ErrorOK
  <2>7. NamesOK'
    <3>1. \A id \in DOMAIN states' : /\ states'[id] \in Call
                                     /\ \E k \in 1..ask[states[id]].shape.n :
                                           k <= idx[states[id]] /\ id = IdOf(states[id], k)
      BY <2>2 DEF Calls, NamesOK
    <3>2. ASSUME NEW id \in DOMAIN states'
          PROVE  (\E k \in 1..ask[states[id]].shape.n : k <= idx[states[id]] /\ id = IdOf(states[id], k))'
      <4>1. PICK d \in Call : d = states[id] /\ states'[id] = d /\ \E k \in 1..ask[d].shape.n : k <= idx[d] /\ id = IdOf(d, k)
        BY <3>1, <2>2
      <4>2. PICK k \in 1..ask[d].shape.n : k <= idx[d] /\ id = IdOf(d, k)
        BY <4>1
      <4>3. IdOf(d, k)' = id
        BY <4>2, <2>4
      <4> QED BY <1>1, <4>1, <4>2, <4>3
    <3>3. \A n \in DOMAIN parents' : parents'[n] \in Call /\ ask'[parents'[n]].name = n
      BY <1>1, <2>5 DEF Calls, NamesOK
    <3>4. \A d \in Call : pc'[d] = "idle" => idx'[d] = 0 /\ kids'[d] = {}
      BY <1>1, <2>3, <2>z DEF Calls, NamesOK
    <3>5. \A d \in Call : idx'[d] <= ask'[d].shape.n
      BY <1>1 DEF Calls, NamesOK
    <3> QED BY <3>1, <3>2, <3>3, <3>4, <3>5 DEF NamesOK
  <2>8. FlightOK'
    <3> SUFFICES ASSUME NEW d \in Call, NEW id \in IdSet, Flight(d, id)'
                 PROVE  /\ \E k \in 1..ask'[d].shape.n : /\ id = IdOf(d, k)' /\ k <= idx'[d]
                                                        /\ (pc'[d] = "sending" => k # idx'[d])
                        /\ Registered(id)' => states'[id] = d
                        /\ ~Registered(id)' => MayAbort(ask'[d]) /\ ~Active(d)'
      BY DEF FlightOK
    <3>1. /\ \E k \in 1..ask[d].shape.n : id = IdOf(d, k) /\ k <= idx[d] /\ (pc[d] = "sending" => k # idx[d])
          /\ Registered(id) => states[id] = d
          /\ ~Registered(id) => MayAbort(ask[d]) /\ ~Active(d)
      BY <1>2 DEF Calls, FlightOK
    <3>2. id # o.id
      BY <1>2, <1>7, <1>c, <2>2, <3>1 DEF Registered
    <3> QED BY <1>1, <2>2, <2>4, <3>1, <3>2 DEF Registered
  <2>9. SendingOK'
    <3> SUFFICES ASSUME NEW d \in Call, pc'[d] = "sending"
                 PROVE  (idx[d] >= 1 /\ Registered(IdOf(d, idx[d])) /\ states[IdOf(d, idx[d])] = d)'
      BY DEF SendingOK
    <3>1. pc[d] = "sending" /\ idx[d] >= 1 /\ Registered(IdOf(d, idx[d])) /\ states[IdOf(d, idx[d])] = d
      BY <1>1 DEF Calls, SendingOK
    <3>2. PICK x : x = IdOf(d, idx[d])
      OBVIOUS
    <3>3. x # o.id
      <4> SUFFICES ASSUME x = o.id PROVE FALSE
        OBVIOUS
      <4>1. d = c /\ Current(c, x) /\ Flight(c, x)
        BY <1>2, <1>c, <2>2, <3>1, <3>2 DEF Current
      <4>2. idx[c] \in 1..ask[c].shape.n /\ x \in IdSet
        BY <4>1, <2>2, <3>1, OwnFlight
      <4>3. PICK k \in 1..ask[c].shape.n : x = IdOf(c, k) /\ k # idx[c]
        BY <4>1, <4>2, <3>1 DEF Calls, FlightOK
      <4> QED BY <1>0, <2>2, <3>2, <4>1, <4>2, <4>3, IdOfInjective
    <3>4. IdOf(d, idx[d])' = x
      BY <1>1, <3>2 DEF IdOf
    <3>5. x \in DOMAIN states' /\ states'[x] = d
      BY <2>2, <3>1, <3>2, <3>3 DEF Registered
    <3> QED BY <1>1, <3>1, <3>4, <3>5 DEF Registered
  <2>10. KidsOK'
    <3> SUFFICES ASSUME NEW d \in Call, Active(d)'
                 PROVE  /\ ~Fans(d)' => kids'[d] = {}
                        /\ \A id \in kids'[d] : Registered(id)' /\ states'[id] = d
      BY DEF KidsOK
    <3>1. /\ ~Fans(d) => kids[d] = {}
          /\ \A id \in kids[d] : Registered(id) /\ states[id] = d
      BY <2>4 DEF Calls, KidsOK
    <3>2. kids'[d] \subseteq kids[d] /\ o.id \notin kids'[d]
      BY <2>2, <2>3, <2>z, <3>1
    <3> QED BY <2>2, <2>4, <3>1, <3>2 DEF Registered
  <2>11. CoverOK'
    <3> SUFFICES ASSUME NEW d \in Call, Active(d)', MayAbort(ask'[d]), Fans(d)',
                        NEW id \in DOMAIN states', states'[id] = d
                 PROVE  id \in kids'[d] /\ ask'[d].name \in DOMAIN parents' /\ parents'[ask'[d].name] = d
      BY DEF CoverOK
    <3>1. id \in DOMAIN states /\ states[id] = d /\ id # o.id
      BY <2>2
    <3>2. id \in kids[d] /\ ask[d].name \in DOMAIN parents /\ parents[ask[d].name] = d
      BY <1>1, <2>4, <3>1 DEF Calls, CoverOK
    <3>3. id \in kids'[d]
      BY <2>3, <2>z, <3>1, <3>2
    <3>4. ask[d].name = ask[c].name => d = c
      BY <1>0, <1>1, <2>2, Apart
    <3>5. ask[d].name \in DOMAIN parents'
      BY <2>3, <2>5, <3>2, <3>3, <3>4
    <3> QED BY <1>1, <2>5, <3>2, <3>3, <3>5
  <2>12. WaitOK'
    <3> SUFFICES ASSUME NEW d \in Call, pc'[d] \in {"waiting", "yielded"}, got'[d] \in {"nothing", "part"}
                 PROVE  \E id \in DOMAIN states' : states'[id] = d
      BY DEF WaitOK
    <3>1. CASE d = c
      <4>1. left # {}
        BY <2>3, <3>1
      <4>2. PICK id \in left : TRUE
        BY <4>1
      <4>3. id \in kids[c] /\ id # o.id
        BY <2>z
      <4>4. id \in DOMAIN states /\ states[id] = c
        BY <1>1, <2>2, <3>1, <4>3 DEF Calls, KidsOK, Active, Registered
      <4> QED BY <2>2, <3>1, <4>3, <4>4
    <3>2. CASE d # c
      <4>1. PICK id \in DOMAIN states : states[id] = d
        BY <1>1, <2>3, <3>2 DEF Calls, WaitOK
      <4> QED BY <2>2, <3>2, <4>1
    <3> QED BY <3>1, <3>2
  <2>13. TokenOK'
    <3> SUFFICES ASSUME NEW d \in Call, Active(d)', NEW id \in DOMAIN states', states'[id] = d
                 PROVE  Token(d, id)' \/ Current(d, id)' \/ got'[d] = "error"
      BY DEF TokenOK
    <3>1. id \in DOMAIN states /\ states[id] = d /\ id # o.id
      BY <2>2
    <3>2. Token(d, id) \/ Current(d, id) \/ got[d] = "error"
      BY <2>4, <3>1 DEF Calls, TokenOK
    <3>3. id \in IdSet
      BY <1>0, <3>1, RegisteredIds DEF Calls
    <3> QED BY <1>2, <2>4, <3>1, <3>2, <3>3
  <2>14. AbortOK' /\ CancelOK'
    BY <1>1, <1>2 DEF Calls, AbortOK, CancelOK
  <2> QED BY <1>2, <2>1, <2>6, <2>7, <2>8, <2>9, <2>10, <2>11, <2>12, <2>13, <2>14 DEF Calls
<1> QED BY <1>3, <1>5, <1>6, <1>7

-----------------------------------------------------------------------------
(* The engine core, and its end.                                               *)

(* A step that only moves requests along, or drops what was aborted, keeps all   *)
(* that the calls rely on.                                                      *)
LEMMA MoveStep ==
    ASSUME Inv, Calls, UNCHANGED <<callVars, states, parents>>,
           \A d \in Call, id \in IdSet : /\ Flight(d, id)' => Flight(d, id)
                                         /\ Loose(d, id)' => Loose(d, id)
                                         /\ Token(d, id) => Token(d, id)',
           \A i \in DOMAIN inbox' : inbox'[i].type = "ABORT" => \E j \in DOMAIN inbox : inbox[j] = inbox'[i],
           CoreOK', OnceOK', ErrorOK'
    PROVE  Calls'
<1>0. TypeOK /\ UNCHANGED <<pc, ask, idx, kids, got, aborts, states, parents>>
  BY DEF Inv, callVars
<1>1. /\ \A d, k : IdOf(d, k)' = IdOf(d, k)
      /\ \A d : (Fans(d)' <=> Fans(d)) /\ (Active(d)' <=> Active(d))
      /\ \A id : Registered(id)' <=> Registered(id)
      /\ \A d, id : Current(d, id)' <=> Current(d, id)
  BY <1>0 DEF IdOf, Fans, Registered, Current, Active
<1>2. NamesOK' /\ KidsOK' /\ CoverOK' /\ WaitOK'
  BY <1>0, <1>1 DEF Calls, NamesOK, KidsOK, CoverOK, WaitOK
<1>3. FlightOK' /\ CancelOK'
  BY <1>0, <1>1 DEF Calls, FlightOK, CancelOK
<1>4. SendingOK'
  BY <1>0 DEF Calls, SendingOK, Registered, IdOf
<1>5. TokenOK'
  <2> SUFFICES ASSUME NEW d \in Call, Active(d)', NEW id \in DOMAIN states, states[id] = d
               PROVE  Token(d, id)' \/ Current(d, id)' \/ got'[d] = "error"
    BY <1>0 DEF TokenOK
  <2>1. Token(d, id) \/ Current(d, id) \/ got[d] = "error"
    BY <1>1 DEF Calls, TokenOK
  <2>2. id \in IdSet
    BY <1>0, RegisteredIds DEF Calls
  <2> QED BY <1>0, <1>1, <2>1, <2>2
<1>6. AbortOK'
  <2>1. ASSUME NEW j \in DOMAIN inbox', inbox'[j].type = "ABORT", NEW id \in inbox'[j].ids
        PROVE  \E d \in Call : id[1] = ask'[d].name /\ MayAbort(ask'[d]) /\ pc'[d] \in Ended
    <3>1. PICK k \in DOMAIN inbox : inbox[k] = inbox'[j]
      BY <2>1
    <3> QED BY <2>1, <3>1, <1>0 DEF Calls, AbortOK
  <2>2. \A d \in Call : pc'[d] = "aborting" =>
           MayAbort(ask'[d]) /\ \A id \in aborts'[d].ids : id[1] = ask'[d].name
    BY <1>0 DEF Calls, AbortOK
  <2> QED BY <2>1, <2>2 DEF AbortOK
<1> QED BY <1>2, <1>3, <1>4, <1>5, <1>6 DEF Calls

LEMMA NoticeDeathStep ==
    ASSUME Inv, Calls, NoticeDeath
    PROVE  Calls'
<1>1. /\ UNCHANGED <<callVars, states, parents, inbox, live, outbox, coreUp>>
      /\ errored' = TRUE /\ outbox # <<>> /\ Head(outbox) = DEAD
  BY DEF NoticeDeath, coreVars
<1>2. \A d, id : /\ (Flight(d, id)' <=> Flight(d, id)) /\ (Loose(d, id)' <=> Loose(d, id))
                 /\ (Token(d, id)' <=> Token(d, id))
  BY <1>1 DEF Flight, Loose, Token, InInbox, InCore, InOutbox, Adds, Gives, Sending, Computing,
              Returning, AbortedBehind
<1>3. CoreOK'
  <2>1. outbox \in Seq(Outputs \cup {DEAD})
    BY DEF Calls, CoreOK
  <2>2. 1 \in DOMAIN outbox /\ outbox[1] = DEAD
    BY <1>1, <2>1, TailOf
  <2> QED BY <1>1, <2>2 DEF Calls, CoreOK
<1>4. OnceOK' /\ ErrorOK'
  BY <1>1 DEF Calls, OnceOK, ErrorOK, InInbox, InCore, InOutbox, Adds, Gives, callVars
<1> QED BY <1>1, <1>2, <1>3, <1>4, MoveStep

(* Behind the message that the core is dead there is nothing: every call that   *)
(* has something registered is told.                                            *)
LEMMA PropagateDeathStep ==
    ASSUME Inv, Calls, PropagateDeath
    PROVE  Calls' /\ strays' = strays
<1>0. TypeOK
  BY DEF Inv
<1>1. /\ UNCHANGED <<pc, ask, idx, kids, aborts, strays, states, parents, errored, inbox, live, coreUp>>
      /\ outbox # <<>> /\ Head(outbox) = DEAD /\ outbox' = Tail(outbox)
      /\ got' = [c \in Call |-> IF \E id \in DOMAIN states : states[id] = c THEN "error" ELSE got[c]]
  BY DEF PropagateDeath, procVars
<1>2. outbox \in Seq(Outputs \cup {DEAD})
  BY DEF Calls, CoreOK
<1>3. /\ 1 \in DOMAIN outbox /\ outbox[1] = DEAD
      /\ outbox' \in Seq(Outputs \cup {DEAD}) /\ Len(outbox') = Len(outbox) - 1
  BY <1>1, <1>2, TailOf
<1>4. 1 = Len(outbox) /\ coreUp = FALSE /\ inbox = <<>> /\ live = {}
  BY <1>3 DEF Calls, CoreOK
<1>5. outbox' = <<>>
  <2>0. Len(outbox') = Len(outbox) - 1 /\ Len(outbox) = 1
    <3>1. Len(outbox') = Len(outbox) - 1
      BY <1>3
    <3>2. Len(outbox) = 1
      BY <1>4
    <3> QED BY <3>1, <3>2
  <2>1. Len(outbox') = 0
    BY <2>0
  <2>2. PICK S : S = Outputs \cup {DEAD}
    OBVIOUS
  <2>3. outbox' \in Seq(S)
    BY <1>3, <2>2
  <2> QED BY <2>1, <2>3, EmptySeq
<1>6. errored = TRUE
  BY <1>0 DEF PropagateDeath, TypeOK
<1>7. \A d, id : ~Flight(d, id)' /\ ~Loose(d, id)' /\ ~InInbox(d, id)'
  BY <1>1, <1>4, <1>5 DEF Flight, Loose, Sending, Computing, InInbox, InCore, InOutbox
<1>8. CoreOK' /\ OnceOK' /\ ErrorOK'
  <2>1. live' = {} /\ inbox' = <<>> /\ coreUp' = FALSE /\ errored' = TRUE
    BY <1>1, <1>4, <1>6
  <2>2. DOMAIN inbox' = {} /\ DOMAIN outbox' = {}
    BY <1>5, <2>1
  <2>3. CoreOK'
    BY <1>3, <2>1, <2>2 DEF CoreOK
  <2>4. OnceOK' /\ ErrorOK'
    BY <1>5, <1>7, <2>1, <2>2 DEF OnceOK, ErrorOK
  <2> QED BY <2>3, <2>4
<1>9. /\ \A d, k : IdOf(d, k)' = IdOf(d, k)
      /\ \A d : (Fans(d)' <=> Fans(d)) /\ (Active(d)' <=> Active(d))
      /\ \A id : Registered(id)' <=> Registered(id)
  BY <1>1 DEF IdOf, Fans, Registered, Active
<1>10. NamesOK' /\ KidsOK' /\ CoverOK'
  BY <1>1, <1>9 DEF Calls, NamesOK, KidsOK, CoverOK
<1>11. FlightOK' /\ CancelOK'
  BY <1>1, <1>7 DEF Calls, FlightOK, CancelOK
<1>12. SendingOK'
  BY <1>1 DEF Calls, SendingOK, Registered, IdOf
<1>13. WaitOK'
  BY <1>1 DEF Calls, WaitOK
<1>14. TokenOK'
  BY <1>1 DEF TokenOK
<1>15. AbortOK'
  BY <1>1 DEF Calls, AbortOK
<1> QED BY <1>1, <1>8, <1>10, <1>11, <1>12, <1>13, <1>14, <1>15 DEF Calls

(* What Receive does to the aborts that stand behind a place in the channel.     *)
LEMMA AbortsShift ==
    ASSUME Inv, inbox # <<>>, inbox' = Tail(inbox)
    PROVE  /\ \A id : \A i \in DOMAIN inbox' \cup {0} : AbortedBehind(i, id)' <=> AbortedBehind(i + 1, id)
           /\ \A id : AbortedBehind(0, id) <=>
                         (Head(inbox).type = "ABORT" /\ id \in Head(inbox).ids) \/ AbortedBehind(1, id)
<1>1. /\ inbox' \in Seq(Message) /\ Len(inbox') = Len(inbox) - 1 /\ Head(inbox) = inbox[1]
      /\ 1 \in DOMAIN inbox
      /\ \A i \in DOMAIN inbox' : i \in Nat /\ i + 1 \in DOMAIN inbox /\ inbox'[i] = inbox[i + 1]
      /\ Len(inbox) \in Nat /\ DOMAIN inbox = 1..Len(inbox) /\ DOMAIN inbox' = 1..Len(inbox')
  BY TailOf DEF Inv, ChannelOK
<1>2. ASSUME NEW id, NEW i \in DOMAIN inbox' \cup {0}
      PROVE  AbortedBehind(i, id)' <=> AbortedBehind(i + 1, id)
  <2>0. i \in Nat
    BY <1>1, <1>2
  <2>1. ASSUME AbortedBehind(i, id)' PROVE AbortedBehind(i + 1, id)
    <3>1. PICK k \in i+1 .. Len(inbox') : inbox'[k].type = "ABORT" /\ id \in inbox'[k].ids
      BY <2>1 DEF AbortedBehind
    <3>2. k \in DOMAIN inbox' /\ k + 1 \in (i + 1) + 1 .. Len(inbox) /\ inbox'[k] = inbox[k + 1]
      BY <1>1, <2>0, <3>1
    <3> QED BY <3>1, <3>2 DEF AbortedBehind
  <2>2. ASSUME AbortedBehind(i + 1, id) PROVE AbortedBehind(i, id)'
    <3>1. PICK k \in (i + 1) + 1 .. Len(inbox) : inbox[k].type = "ABORT" /\ id \in inbox[k].ids
      BY <2>2 DEF AbortedBehind
    <3>2. k - 1 \in DOMAIN inbox' /\ k - 1 \in i + 1 .. Len(inbox') /\ (k - 1) + 1 = k
      BY <1>1, <2>0, <3>1
    <3>3. inbox'[k - 1] = inbox[k]
      BY <1>1, <3>2
    <3> QED BY <3>1, <3>2, <3>3 DEF AbortedBehind
  <2> QED BY <2>1, <2>2
<1>3. ASSUME NEW id
      PROVE  AbortedBehind(0, id) <=>
                (inbox[1].type = "ABORT" /\ id \in inbox[1].ids) \/ AbortedBehind(1, id)
  <2>1. ASSUME AbortedBehind(0, id), ~(inbox[1].type = "ABORT" /\ id \in inbox[1].ids)
        PROVE  AbortedBehind(1, id)
    <3>1. PICK k \in 0+1 .. Len(inbox) : inbox[k].type = "ABORT" /\ id \in inbox[k].ids
      BY <2>1 DEF AbortedBehind
    <3>2. k \in 1+1 .. Len(inbox)
      BY <2>1, <3>1, <1>1
    <3> QED BY <3>1, <3>2 DEF AbortedBehind
  <2>2. ASSUME AbortedBehind(1, id) PROVE AbortedBehind(0, id)
    <3>1. PICK k \in 1+1 .. Len(inbox) : inbox[k].type = "ABORT" /\ id \in inbox[k].ids
      BY <2>2 DEF AbortedBehind
    <3>2. k \in 0+1 .. Len(inbox)
      BY <3>1, <1>1
    <3> QED BY <3>1, <3>2 DEF AbortedBehind
  <2>3. ASSUME inbox[1].type = "ABORT" /\ id \in inbox[1].ids PROVE AbortedBehind(0, id)
    <3>1. 1 \in 0+1 .. Len(inbox)
      BY <1>1
    <3> QED BY <2>3, <3>1 DEF AbortedBehind
  <2> QED BY <2>1, <2>2, <2>3
<1> QED BY <1>1, <1>2, <1>3

(* The core reads its channel.  A request whose abort was on the way behind it   *)
(* was not counted on; one that is added is computed from now on.               *)
LEMMA ReceiveStep ==
    ASSUME Inv, Calls, Receive
    PROVE  Calls'
<1>m. PICK m : m = Head(inbox)
  OBVIOUS
<1>1. /\ inbox # <<>> /\ inbox' = Tail(inbox) /\ coreUp /\ UNCHANGED <<callVars, states, parents, errored, outbox, coreUp>>
      /\ live' = IF m.type = "ADD" THEN live \cup {m.request} ELSE {r \in live : r.id \notin m.ids}
  BY <1>m DEF Receive, procVars
<1>2. /\ inbox' \in Seq(Message) /\ Len(inbox') = Len(inbox) - 1 /\ m = inbox[1]
      /\ 1 \in DOMAIN inbox
      /\ \A i \in DOMAIN inbox' : i \in Nat /\ i + 1 \in DOMAIN inbox /\ inbox'[i] = inbox[i + 1]
      /\ \A i \in DOMAIN inbox : i \in Nat /\ (i # 1 => i - 1 \in DOMAIN inbox' /\ inbox[i] = inbox'[i - 1])
      /\ Len(inbox) \in Nat /\ DOMAIN inbox = 1..Len(inbox) /\ DOMAIN inbox' = 1..Len(inbox')
      /\ m \in Message
  BY <1>1, <1>m, TailOf DEF Inv, ChannelOK
<1>3. m.type = "ADD" \/ (m.type = "ABORT" /\ m.type # "ADD")
  BY <1>2 DEF Message
<1>4. \A d, id : /\ \A i \in DOMAIN inbox' : Adds(i, d, id)' <=> Adds(i + 1, d, id)
                 /\ Adds(1, d, id) <=> m.type = "ADD" /\ m.request.by = d /\ m.request.id = id
  BY <1>2 DEF Adds
<1>5. /\ \A id : \A i \in DOMAIN inbox' \cup {0} : AbortedBehind(i, id)' <=> AbortedBehind(i + 1, id)
      /\ \A id : AbortedBehind(0, id) <=> (m.type = "ABORT" /\ id \in m.ids) \/ AbortedBehind(1, id)
  BY <1>1, <1>m, AbortsShift
<1>6. \A d, id : /\ Sending(d, id) <=> \E i \in DOMAIN inbox : Adds(i, d, id) /\ ~AbortedBehind(i, id)
                 /\ Sending(d, id)' <=> \E i \in DOMAIN inbox' : Adds(i, d, id)' /\ ~AbortedBehind(i, id)'
  BY DEF Sending, Adds
<1>7. \A d, id : /\ InInbox(d, id)' => InInbox(d, id)
                 /\ InCore(d, id)' => InCore(d, id) \/ Adds(1, d, id)
                 /\ (InOutbox(d, id)' <=> InOutbox(d, id)) /\ (Returning(d, id)' <=> Returning(d, id))
                 /\ \A i : Gives(i, d, id)' <=> Gives(i, d, id)
  <2>1. \A d, id : InInbox(d, id)' => InInbox(d, id)
    BY <1>2, <1>4 DEF InInbox
  <2>2. \A d, id : InCore(d, id)' => InCore(d, id) \/ Adds(1, d, id)
    BY <1>1, <1>4 DEF InCore
  <2>3. \A d, id : /\ (InOutbox(d, id)' <=> InOutbox(d, id)) /\ (Returning(d, id)' <=> Returning(d, id))
                   /\ \A i : Gives(i, d, id)' <=> Gives(i, d, id)
    BY <1>1 DEF InOutbox, Returning, Gives
  <2> QED BY <2>1, <2>2, <2>3
<1>8. \A d, id : Adds(1, d, id) => InInbox(d, id)
  BY <1>2 DEF InInbox
<1>9. ASSUME NEW d \in Call, NEW id \in IdSet
      PROVE  Loose(d, id)' <=> Loose(d, id)
  <2>1. Sending(d, id)' => Sending(d, id)
    <3> SUFFICES ASSUME Sending(d, id)' PROVE Sending(d, id)
      OBVIOUS
    <3>1. PICK i \in DOMAIN inbox' : Adds(i, d, id)' /\ ~AbortedBehind(i, id)'
      BY <1>6
    <3>2. i + 1 \in DOMAIN inbox /\ Adds(i + 1, d, id) /\ ~AbortedBehind(i + 1, id)
      BY <1>2, <1>4, <1>5, <3>1
    <3> QED BY <1>6, <3>2
  <2>2. Computing(d, id)' => Loose(d, id)
    <3> SUFFICES ASSUME Computing(d, id)' PROVE Loose(d, id)
      OBVIOUS
    <3>1. PICK r \in live' : r.id = id /\ r.by = d /\ ~AbortedBehind(0, id)'
      BY DEF Computing
    <3>2. ~AbortedBehind(1, id)
      BY <1>5, <3>1
    <3>3. CASE r \in live
      <4>1. ~(m.type = "ABORT" /\ id \in m.ids)
        BY <1>1, <1>3, <3>1, <3>3
      <4> QED BY <1>5, <3>1, <3>2, <3>3, <4>1 DEF Loose, Computing
    <3>4. CASE m.type = "ADD" /\ r = m.request
      BY <1>2, <1>4, <1>6, <3>1, <3>2, <3>4 DEF Loose
    <3> QED BY <1>1, <3>3, <3>4
  <2>3. Sending(d, id) => Loose(d, id)'
    <3> SUFFICES ASSUME Sending(d, id) PROVE Loose(d, id)'
      OBVIOUS
    <3>1. PICK i \in DOMAIN inbox : Adds(i, d, id) /\ ~AbortedBehind(i, id)
      BY <1>6
    <3>2. CASE i = 1
      <4>1. m.type = "ADD" /\ m.request.by = d /\ m.request.id = id /\ m.request \in live'
        BY <1>1, <1>4, <3>1, <3>2
      <4>2. ~AbortedBehind(0, id)'
        BY <1>5, <3>1, <3>2
      <4> QED BY <4>1, <4>2 DEF Loose, Computing
    <3>3. CASE i # 1
      <4>1. i - 1 \in DOMAIN inbox' /\ (i - 1) + 1 = i
        BY <1>2, <3>1, <3>3
      <4>2. Adds(i - 1, d, id)' /\ ~AbortedBehind(i - 1, id)'
        BY <1>4, <1>5, <3>1, <4>1
      <4> QED BY <1>6, <4>1, <4>2 DEF Loose
    <3> QED BY <3>2, <3>3
  <2>4. Computing(d, id) => Loose(d, id)'
    <3> SUFFICES ASSUME Computing(d, id) PROVE Loose(d, id)'
      OBVIOUS
    <3>1. PICK r \in live : r.id = id /\ r.by = d /\ ~AbortedBehind(0, id)
      BY DEF Computing
    <3>2. ~AbortedBehind(0, id)' /\ ~(m.type = "ABORT" /\ id \in m.ids)
      BY <1>5, <3>1
    <3>3. r \in live'
      BY <1>1, <1>3, <3>1, <3>2
    <3> QED BY <3>1, <3>2, <3>3 DEF Loose, Computing
  <2> QED BY <2>1, <2>2, <2>3, <2>4 DEF Loose
<1>10. CoreOK'
  <2>1. ASSUME m.type = "ADD" PROVE m.request \in CoreRequests
    <3>1. m.request \in Requests /\ m.request.by \in Call
      BY <1>2, <2>1 DEF Message, Calls, CoreOK
    <3>2. m.request.id \in IdSet /\ m.request.id \notin DocIds
      BY <3>1, DocIdsApart DEF Requests
    <3> QED BY <3>1, <3>2 DEF Requests, CoreRequests
  <2>2. live' \subseteq CoreRequests
    BY <1>1, <2>1 DEF Calls, CoreOK
  <2>3. \A i \in DOMAIN inbox' : inbox'[i].type = "ADD" => inbox'[i].request.by \in Call
    BY <1>2 DEF Calls, CoreOK
  <2> QED BY <1>1, <2>2, <2>3 DEF Calls, CoreOK
<1>11. OnceOK'
  <2> SUFFICES ASSUME NEW d \in Call, NEW id \in IdSet
               PROVE  /\ \A i, j \in DOMAIN inbox' : Adds(i, d, id)' /\ Adds(j, d, id)' => i = j
                      /\ InInbox(d, id)' => ~InCore(d, id)' /\ ~InOutbox(d, id)'
                      /\ \A r, s \in live' : r.by = d /\ r.id = id /\ s.by = d /\ s.id = id => r = s
                      /\ \A i \in DOMAIN outbox' : Gives(i, d, id)' /\ outbox'[i].final = TRUE =>
                            /\ ~InCore(d, id)'
                            /\ \A j \in DOMAIN outbox' : Gives(j, d, id)' => j <= i
    BY DEF OnceOK
  <2>1. /\ \A i, j \in DOMAIN inbox : Adds(i, d, id) /\ Adds(j, d, id) => i = j
        /\ InInbox(d, id) => ~InCore(d, id) /\ ~InOutbox(d, id)
        /\ \A r, s \in live : r.by = d /\ r.id = id /\ s.by = d /\ s.id = id => r = s
        /\ \A i \in DOMAIN outbox : Gives(i, d, id) /\ outbox[i].final = TRUE =>
              /\ ~InCore(d, id)
              /\ \A j \in DOMAIN outbox : Gives(j, d, id) => j <= i
    BY DEF Calls, OnceOK
  <2>2. \A i, j \in DOMAIN inbox' : Adds(i, d, id)' /\ Adds(j, d, id)' => i = j
    <3> SUFFICES ASSUME NEW i \in DOMAIN inbox', NEW j \in DOMAIN inbox', Adds(i, d, id)', Adds(j, d, id)'
                 PROVE  i = j
      OBVIOUS
    <3>1. i + 1 = j + 1 /\ i \in Nat /\ j \in Nat
      BY <1>2, <1>4, <2>1
    <3> QED BY <3>1
  <2>3. Adds(1, d, id) => ~InInbox(d, id)'
    <3> SUFFICES ASSUME Adds(1, d, id), InInbox(d, id)' PROVE FALSE
      OBVIOUS
    <3>1. PICK i \in DOMAIN inbox' : Adds(i, d, id)'
      BY DEF InInbox
    <3>2. i + 1 = 1 /\ i \in 1..Len(inbox')
      BY <1>2, <1>4, <2>1, <3>1
    <3> QED BY <3>2, <1>2
  <2>4. InInbox(d, id)' => ~InCore(d, id)' /\ ~InOutbox(d, id)'
    BY <1>7, <2>1, <2>3
  <2>5. \A r, s \in live' : r.by = d /\ r.id = id /\ s.by = d /\ s.id = id => r = s
    <3> SUFFICES ASSUME NEW r \in live', NEW s \in live', r.by = d, r.id = id, s.by = d, s.id = id
                 PROVE  r = s
      OBVIOUS
    <3>1. \A q \in live' : q \in live \/ (m.type = "ADD" /\ q = m.request)
      BY <1>1
    <3>2. Adds(1, d, id) => ~InCore(d, id)
      BY <1>8, <2>1
    <3>3. m.type = "ADD" /\ m.request.by = d /\ m.request.id = id => Adds(1, d, id)
      BY <1>4
    <3>4. \A q \in live : q.by = d /\ q.id = id => InCore(d, id)
      BY DEF InCore
    <3> QED BY <2>1, <3>1, <3>2, <3>3, <3>4
  <2>6. ASSUME NEW i \in DOMAIN outbox', Gives(i, d, id)', outbox'[i].final = TRUE
        PROVE  ~InCore(d, id)' /\ \A j \in DOMAIN outbox' : Gives(j, d, id)' => j <= i
    <3>1. i \in DOMAIN outbox /\ Gives(i, d, id) /\ outbox[i].final = TRUE
      BY <2>6, <1>1, <1>7
    <3>2. InOutbox(d, id)
      BY <3>1 DEF InOutbox
    <3> QED BY <1>1, <1>7, <1>8, <2>1, <3>1, <3>2
  <2> QED BY <2>2, <2>4, <2>5, <2>6
<1>12. ErrorOK'
  BY <1>1 DEF Calls, ErrorOK, callVars
<1>13. \A i \in DOMAIN inbox' : inbox'[i].type = "ABORT" => \E j \in DOMAIN inbox : inbox[j] = inbox'[i]
  BY <1>2
<1> QED BY <1>1, <1>7, <1>8, <1>9, <1>10, <1>11, <1>12, <1>13, MoveStep DEF Flight, Token

(* A document request, a token, the end of a request.                           *)
LEMMA SpawnDocumentStep ==
    ASSUME Inv, Calls, NEW r \in live, SpawnDocument(r)
    PROVE  Calls'
<1>z. PICK p, q : /\ p = [r EXCEPT !.spawned = TRUE]
                  /\ q = [r EXCEPT !.id = DocId(r.id), !.spawned = TRUE, !.told = TRUE]
  OBVIOUS
<1>1. /\ live' = (live \ {r}) \cup {p, q}
      /\ UNCHANGED <<callVars, states, parents, errored, inbox, outbox, coreUp>>
  BY <1>z DEF SpawnDocument, procVars
<1>2. r \in CoreRequests /\ r.spawned # TRUE
  BY DEF Calls, CoreOK, SpawnDocument
<1>3. r.id \in IdSet
  BY <1>2 DEF CoreRequests
<1>4. /\ p \in CoreRequests /\ p.id = r.id /\ p.by = r.by
      /\ q \in CoreRequests /\ q.id \notin IdSet
  <2>1. DocId(r.id) \in DocIds /\ DocId(r.id) \notin IdSet /\ r.id \notin DocIds
    BY <1>3, DocIdsApart DEF DocIds
  <2> QED BY <1>2, <1>3, <1>z, <2>1 DEF CoreRequests
<1>5. \A d : \A id \in IdSet :
         /\ (InCore(d, id)' <=> InCore(d, id)) /\ (Computing(d, id)' <=> Computing(d, id))
         /\ (InInbox(d, id)' <=> InInbox(d, id)) /\ (InOutbox(d, id)' <=> InOutbox(d, id))
         /\ (Sending(d, id)' <=> Sending(d, id)) /\ (Returning(d, id)' <=> Returning(d, id))
         /\ \A i : (Gives(i, d, id)' <=> Gives(i, d, id)) /\ (Adds(i, d, id)' <=> Adds(i, d, id))
  <2> SUFFICES ASSUME NEW d, NEW id \in IdSet
               PROVE  /\ (InCore(d, id)' <=> InCore(d, id)) /\ (Computing(d, id)' <=> Computing(d, id))
                      /\ (InInbox(d, id)' <=> InInbox(d, id)) /\ (InOutbox(d, id)' <=> InOutbox(d, id))
                      /\ (Sending(d, id)' <=> Sending(d, id)) /\ (Returning(d, id)' <=> Returning(d, id))
                      /\ \A i : (Gives(i, d, id)' <=> Gives(i, d, id)) /\ (Adds(i, d, id)' <=> Adds(i, d, id))
    OBVIOUS
  <2>1. InCore(d, id)' <=> InCore(d, id)
    BY <1>1, <1>4 DEF InCore
  <2>2. AbortedBehind(0, id)' <=> AbortedBehind(0, id)
    BY <1>1 DEF AbortedBehind
  <2>3. Computing(d, id) <=> InCore(d, id) /\ ~AbortedBehind(0, id)
    BY DEF Computing, InCore
  <2>4. Computing(d, id)' <=> InCore(d, id)' /\ ~AbortedBehind(0, id)'
    BY DEF Computing, InCore
  <2> QED BY <1>1, <2>1, <2>2, <2>3, <2>4 DEF InInbox, InOutbox, Sending, Returning, Gives, Adds, AbortedBehind
<1>6. CoreOK'
  <2>1. live # {} /\ live' \subseteq CoreRequests
    BY <1>1, <1>4 DEF Calls, CoreOK
  <2> QED BY <1>1, <2>1 DEF Calls, CoreOK
<1>7. OnceOK'
  <2>1. ASSUME NEW d \in Call, NEW id \in IdSet
        PROVE  \A s, t \in live' : s.by = d /\ s.id = id /\ t.by = d /\ t.id = id => s = t
    <3>1. \A s, t \in live : s.by = d /\ s.id = id /\ t.by = d /\ t.id = id => s = t
      BY DEF Calls, OnceOK
    <3> QED BY <1>1, <1>4, <3>1
  <2> QED BY <1>1, <1>5, <2>1 DEF Calls, OnceOK
<1>8. ErrorOK'
  BY <1>1 DEF Calls, ErrorOK, callVars
<1> QED BY <1>1, <1>5, <1>6, <1>7, <1>8, MoveStep DEF Flight, Loose, Token

LEMMA SampleStep ==
    ASSUME Inv, Calls, NEW r \in live, Sample(r)
    PROVE  Calls'
<1>z. PICK p, o : p = [r EXCEPT !.told = TRUE] /\ o = Output(r, FALSE)
  OBVIOUS
<1>n. PICK n : n = Len(outbox) + 1
  OBVIOUS
<1>1. /\ live' = (live \ {r}) \cup {p} /\ outbox' = Append(outbox, o)
      /\ UNCHANGED <<callVars, states, parents, errored, inbox, coreUp>>
  BY <1>z DEF Sample, procVars
<1>2. r \in CoreRequests /\ r.told # TRUE
  BY DEF Calls, CoreOK, Sample
<1>3. r.id \in IdSet /\ r.by \in Call
  BY <1>2 DEF CoreRequests
<1>4. /\ p \in CoreRequests /\ p.id = r.id /\ p.by = r.by
      /\ o \in Outputs /\ o.final = FALSE /\ o.id = r.id /\ o.by = r.by /\ o # DEAD /\ o.type = "OUTPUT"
  BY <1>2, <1>3, <1>z DEF CoreRequests, Output, Outputs, DEAD
<1>5. /\ outbox' \in Seq(Outputs \cup {DEAD})
      /\ DOMAIN outbox' = DOMAIN outbox \cup {n} /\ n \notin DOMAIN outbox
      /\ \A i \in DOMAIN outbox : i \in Nat /\ i <= Len(outbox) /\ outbox'[i] = outbox[i]
      /\ outbox'[n] = o /\ n \in Nat /\ n > Len(outbox)
  <2>1. outbox \in Seq(Outputs \cup {DEAD}) /\ o \in Outputs \cup {DEAD}
    BY <1>4 DEF Calls, CoreOK
  <2> QED BY <1>1, <1>n, <2>1, Appended
<1>6. ASSUME NEW d, NEW id \in IdSet
      PROVE  /\ (InCore(d, id)' <=> InCore(d, id)) /\ (InInbox(d, id)' <=> InInbox(d, id))
             /\ (Loose(d, id)' <=> Loose(d, id))
             /\ (InOutbox(d, id)' => InOutbox(d, id) \/ InCore(d, id))
             /\ (Returning(d, id) => Returning(d, id)')
             /\ \A i : Adds(i, d, id)' <=> Adds(i, d, id)
             /\ \A i \in DOMAIN outbox : Gives(i, d, id)' <=> Gives(i, d, id)
             /\ Gives(n, d, id)' => d = r.by /\ id = r.id /\ InCore(d, id)
  <2>1. InCore(d, id)' <=> InCore(d, id)
    BY <1>1, <1>4 DEF InCore
  <2>2. AbortedBehind(0, id)' <=> AbortedBehind(0, id)
    BY <1>1 DEF AbortedBehind
  <2>3. Computing(d, id) <=> InCore(d, id) /\ ~AbortedBehind(0, id)
    BY DEF Computing, InCore
  <2>4. Computing(d, id)' <=> InCore(d, id)' /\ ~AbortedBehind(0, id)'
    BY DEF Computing, InCore
  <2>5. /\ \A i \in DOMAIN outbox : Gives(i, d, id)' <=> Gives(i, d, id)
        /\ Gives(n, d, id)' => d = r.by /\ id = r.id /\ InCore(d, id)
    BY <1>4, <1>5 DEF Gives, InCore
  <2>6. InOutbox(d, id)' => InOutbox(d, id) \/ InCore(d, id)
    BY <1>5, <2>5 DEF InOutbox
  <2>7. Returning(d, id) => Returning(d, id)'
    BY <1>5 DEF Returning
  <2>8. /\ (InInbox(d, id)' <=> InInbox(d, id)) /\ (Sending(d, id)' <=> Sending(d, id))
        /\ \A i : Adds(i, d, id)' <=> Adds(i, d, id)
    BY <1>1 DEF InInbox, Sending, Adds, AbortedBehind
  <2> QED BY <2>1, <2>2, <2>3, <2>4, <2>5, <2>6, <2>7, <2>8 DEF Loose
<1>7. CoreOK'
  <2>1. coreUp # FALSE /\ live' \subseteq CoreRequests
    BY <1>1, <1>4 DEF Calls, CoreOK
  <2>2. \A i \in DOMAIN outbox' : outbox'[i] # DEAD
    BY <1>4, <1>5, <2>1 DEF Calls, CoreOK
  <2> QED BY <1>1, <1>5, <2>1, <2>2 DEF Calls, CoreOK
<1>8. OnceOK'
  <2> SUFFICES ASSUME NEW d \in Call, NEW id \in IdSet
               PROVE  /\ \A i, j \in DOMAIN inbox' : Adds(i, d, id)' /\ Adds(j, d, id)' => i = j
                      /\ InInbox(d, id)' => ~InCore(d, id)' /\ ~InOutbox(d, id)'
                      /\ \A s, t \in live' : s.by = d /\ s.id = id /\ t.by = d /\ t.id = id => s = t
                      /\ \A i \in DOMAIN outbox' : Gives(i, d, id)' /\ outbox'[i].final = TRUE =>
                            /\ ~InCore(d, id)'
                            /\ \A j \in DOMAIN outbox' : Gives(j, d, id)' => j <= i
    BY DEF OnceOK
  <2>1. /\ \A i, j \in DOMAIN inbox : Adds(i, d, id) /\ Adds(j, d, id) => i = j
        /\ InInbox(d, id) => ~InCore(d, id) /\ ~InOutbox(d, id)
        /\ \A s, t \in live : s.by = d /\ s.id = id /\ t.by = d /\ t.id = id => s = t
        /\ \A i \in DOMAIN outbox : Gives(i, d, id) /\ outbox[i].final = TRUE =>
              /\ ~InCore(d, id)
              /\ \A j \in DOMAIN outbox : Gives(j, d, id) => j <= i
    BY DEF Calls, OnceOK
  <2>2. \A i, j \in DOMAIN inbox' : Adds(i, d, id)' /\ Adds(j, d, id)' => i = j
    BY <1>1, <1>6, <2>1
  <2>3. InInbox(d, id)' => ~InCore(d, id)' /\ ~InOutbox(d, id)'
    BY <1>6, <2>1
  <2>4. \A s, t \in live' : s.by = d /\ s.id = id /\ t.by = d /\ t.id = id => s = t
    BY <1>1, <1>4, <2>1
  <2>5. ASSUME NEW i \in DOMAIN outbox', Gives(i, d, id)', outbox'[i].final = TRUE
        PROVE  ~InCore(d, id)' /\ \A j \in DOMAIN outbox' : Gives(j, d, id)' => j <= i
    <3>1. i \in DOMAIN outbox /\ Gives(i, d, id) /\ outbox[i].final = TRUE
      BY <2>5, <1>4, <1>5, <1>6
    <3>2. ~InCore(d, id) /\ \A j \in DOMAIN outbox : Gives(j, d, id) => j <= i
      BY <2>1, <3>1
    <3> QED BY <1>5, <1>6, <3>2
  <2> QED BY <2>2, <2>3, <2>4, <2>5
<1>9. ErrorOK'
  <2>1. coreUp # FALSE
    BY DEF Calls, CoreOK
  <2> QED BY <1>1, <2>1 DEF Calls, ErrorOK, callVars
<1> QED BY <1>1, <1>6, <1>7, <1>8, <1>9, MoveStep DEF Flight, Token

LEMMA FinishStep ==
    ASSUME Inv, Calls, NEW r \in live, Finish(r)
    PROVE  Calls'
<1>z. PICK o : o = Output(r, TRUE)
  OBVIOUS
<1>n. PICK n : n = Len(outbox) + 1
  OBVIOUS
<1>1. /\ live' = live \ {r} /\ outbox' = Append(outbox, o)
      /\ UNCHANGED <<callVars, states, parents, errored, inbox, coreUp>>
  BY <1>z DEF Finish, procVars
<1>2. r \in CoreRequests
  BY DEF Calls, CoreOK
<1>4. /\ o \in Outputs /\ o.final = TRUE /\ o.id = r.id /\ o.by = r.by /\ o # DEAD /\ o.type = "OUTPUT"
  BY <1>2, <1>z DEF CoreRequests, Output, Outputs, DEAD
<1>5. /\ outbox' \in Seq(Outputs \cup {DEAD})
      /\ DOMAIN outbox' = DOMAIN outbox \cup {n} /\ n \notin DOMAIN outbox
      /\ \A i \in DOMAIN outbox : i \in Nat /\ i <= Len(outbox) /\ outbox'[i] = outbox[i]
      /\ outbox'[n] = o /\ n \in Nat /\ n > Len(outbox) /\ Len(outbox) \in Nat
  <2>1. outbox \in Seq(Outputs \cup {DEAD}) /\ o \in Outputs \cup {DEAD}
    BY <1>4 DEF Calls, CoreOK
  <2> QED BY <1>1, <1>n, <2>1, Appended
<1>6. ASSUME NEW d, NEW id \in IdSet
      PROVE  /\ (InCore(d, id)' => InCore(d, id)) /\ (InInbox(d, id)' <=> InInbox(d, id))
             /\ (Loose(d, id)' => Loose(d, id)) /\ (Token(d, id) => Token(d, id)')
             /\ (InOutbox(d, id)' => InOutbox(d, id) \/ InCore(d, id))
             /\ \A i : Adds(i, d, id)' <=> Adds(i, d, id)
             /\ \A i \in DOMAIN outbox : Gives(i, d, id)' <=> Gives(i, d, id)
             /\ Gives(n, d, id)' => d = r.by /\ id = r.id /\ InCore(d, id)
             /\ d = r.by /\ id = r.id => Returning(d, id)'
  <2>1. /\ InCore(d, id)' => InCore(d, id)
        /\ InCore(d, id) => InCore(d, id)' \/ (d = r.by /\ id = r.id)
    BY <1>1 DEF InCore
  <2>2. AbortedBehind(0, id)' <=> AbortedBehind(0, id)
    BY <1>1 DEF AbortedBehind
  <2>3. Computing(d, id) <=> InCore(d, id) /\ ~AbortedBehind(0, id)
    BY DEF Computing, InCore
  <2>4. Computing(d, id)' <=> InCore(d, id)' /\ ~AbortedBehind(0, id)'
    BY DEF Computing, InCore
  <2>5. /\ \A i \in DOMAIN outbox : Gives(i, d, id)' <=> Gives(i, d, id)
        /\ Gives(n, d, id)' => d = r.by /\ id = r.id /\ InCore(d, id)
    BY <1>4, <1>5 DEF Gives, InCore
  <2>6. InOutbox(d, id)' => InOutbox(d, id) \/ InCore(d, id)
    BY <1>5, <2>5 DEF InOutbox
  <2>7. Returning(d, id) => Returning(d, id)'
    BY <1>5 DEF Returning
  <2>8. d = r.by /\ id = r.id => Returning(d, id)'
    BY <1>4, <1>5 DEF Returning
  <2>9. /\ (InInbox(d, id)' <=> InInbox(d, id)) /\ (Sending(d, id)' <=> Sending(d, id))
        /\ \A i : Adds(i, d, id)' <=> Adds(i, d, id)
    BY <1>1 DEF InInbox, Sending, Adds, AbortedBehind
  <2> QED BY <2>1, <2>2, <2>3, <2>4, <2>5, <2>6, <2>7, <2>8, <2>9 DEF Loose, Token
<1>7. CoreOK'
  <2>1. coreUp # FALSE /\ live' \subseteq CoreRequests
    BY <1>1 DEF Calls, CoreOK
  <2>2. \A i \in DOMAIN outbox' : outbox'[i] # DEAD
    BY <1>4, <1>5, <2>1 DEF Calls, CoreOK
  <2> QED BY <1>1, <1>5, <2>1, <2>2 DEF Calls, CoreOK
<1>8. OnceOK'
  <2> SUFFICES ASSUME NEW d \in Call, NEW id \in IdSet
               PROVE  /\ \A i, j \in DOMAIN inbox' : Adds(i, d, id)' /\ Adds(j, d, id)' => i = j
                      /\ InInbox(d, id)' => ~InCore(d, id)' /\ ~InOutbox(d, id)'
                      /\ \A s, t \in live' : s.by = d /\ s.id = id /\ t.by = d /\ t.id = id => s = t
                      /\ \A i \in DOMAIN outbox' : Gives(i, d, id)' /\ outbox'[i].final = TRUE =>
                            /\ ~InCore(d, id)'
                            /\ \A j \in DOMAIN outbox' : Gives(j, d, id)' => j <= i
    BY DEF OnceOK
  <2>1. /\ \A i, j \in DOMAIN inbox : Adds(i, d, id) /\ Adds(j, d, id) => i = j
        /\ InInbox(d, id) => ~InCore(d, id) /\ ~InOutbox(d, id)
        /\ \A s, t \in live : s.by = d /\ s.id = id /\ t.by = d /\ t.id = id => s = t
        /\ \A i \in DOMAIN outbox : Gives(i, d, id) /\ outbox[i].final = TRUE =>
              /\ ~InCore(d, id)
              /\ \A j \in DOMAIN outbox : Gives(j, d, id) => j <= i
    BY DEF Calls, OnceOK
  <2>2. \A i, j \in DOMAIN inbox' : Adds(i, d, id)' /\ Adds(j, d, id)' => i = j
    BY <1>1, <1>6, <2>1
  <2>3. InInbox(d, id)' => ~InCore(d, id)' /\ ~InOutbox(d, id)'
    BY <1>6, <2>1
  <2>4. \A s, t \in live' : s.by = d /\ s.id = id /\ t.by = d /\ t.id = id => s = t
    BY <1>1, <2>1
  <2>5. ASSUME NEW i \in DOMAIN outbox', Gives(i, d, id)', outbox'[i].final = TRUE
        PROVE  ~InCore(d, id)' /\ \A j \in DOMAIN outbox' : Gives(j, d, id)' => j <= i
    <3>1. CASE i = n
      <4>1. d = r.by /\ id = r.id
        BY <2>5, <1>6, <3>1
      <4>2. ~InCore(d, id)'
        BY <1>1, <2>1, <4>1 DEF InCore
      <4>3. \A j \in DOMAIN outbox' : j <= n
        BY <1>5
      <4> QED BY <3>1, <4>2, <4>3
    <3>2. CASE i # n
      <4>1. i \in DOMAIN outbox /\ Gives(i, d, id) /\ outbox[i].final = TRUE
        BY <2>5, <3>2, <1>5, <1>6
      <4>2. ~InCore(d, id) /\ \A j \in DOMAIN outbox : Gives(j, d, id) => j <= i
        BY <2>1, <4>1
      <4> QED BY <1>5, <1>6, <4>2
    <3> QED BY <3>1, <3>2
  <2> QED BY <2>2, <2>3, <2>4, <2>5
<1>9. ErrorOK'
  <2>1. coreUp # FALSE
    BY DEF Calls, CoreOK
  <2> QED BY <1>1, <2>1 DEF Calls, ErrorOK, callVars
<1> QED BY <1>1, <1>6, <1>7, <1>8, <1>9, MoveStep DEF Flight

(* The core dies: what was on its way is lost, and the word of it arrives.       *)
LEMMA DieStep ==
    ASSUME Inv, Calls, Die
    PROVE  Calls'
<1>n. PICK n : n = Len(outbox) + 1
  OBVIOUS
<1>1. /\ coreUp = TRUE /\ coreUp' = FALSE /\ inbox' = <<>> /\ live' = {} /\ outbox' = Append(outbox, DEAD)
      /\ UNCHANGED <<callVars, states, parents, errored>>
  BY DEF Die, procVars, Inv, TypeOK
<1>2. /\ outbox' \in Seq(Outputs \cup {DEAD}) /\ Len(outbox') = n
      /\ DOMAIN outbox' = DOMAIN outbox \cup {n} /\ n \notin DOMAIN outbox
      /\ \A i \in DOMAIN outbox : outbox'[i] = outbox[i]
      /\ outbox'[n] = DEAD
  <2>1. outbox \in Seq(Outputs \cup {DEAD}) /\ DEAD \in Outputs \cup {DEAD}
    BY DEF Calls, CoreOK
  <2> QED BY <1>1, <1>n, <2>1, Appended
<1>3. \A d, id : /\ ~InInbox(d, id)' /\ ~InCore(d, id)' /\ ~Loose(d, id)' /\ Token(d, id)'
                 /\ ~Gives(n, d, id)' /\ (InOutbox(d, id)' => InOutbox(d, id))
                 /\ \A i \in DOMAIN outbox : Gives(i, d, id)' <=> Gives(i, d, id)
  <2>1. \A d, id : /\ ~Gives(n, d, id)' /\ \A i \in DOMAIN outbox : Gives(i, d, id)' <=> Gives(i, d, id)
    BY <1>2 DEF Gives, DEAD
  <2>2. \A d, id : InOutbox(d, id)' => InOutbox(d, id)
    BY <1>2, <2>1 DEF InOutbox
  <2>3. \A d, id : Token(d, id)'
    BY <1>2 DEF Token, Returning
  <2>4. \A d, id : ~InInbox(d, id)' /\ ~InCore(d, id)' /\ ~Loose(d, id)'
    BY <1>1 DEF InInbox, InCore, Loose, Sending, Computing
  <2> QED BY <2>1, <2>2, <2>3, <2>4
<1>4. CoreOK'
  BY <1>1, <1>2 DEF Calls, CoreOK
<1>5. OnceOK'
  <2> SUFFICES ASSUME NEW d \in Call, NEW id \in IdSet, NEW i \in DOMAIN outbox', Gives(i, d, id)',
                      outbox'[i].final = TRUE, NEW j \in DOMAIN outbox', Gives(j, d, id)'
               PROVE  j <= i
    <3>1. DOMAIN inbox' = {} /\ live' = {}
      BY <1>1
    <3> QED BY <1>3, <3>1 DEF OnceOK
  <2>1. /\ i \in DOMAIN outbox /\ j \in DOMAIN outbox /\ Gives(i, d, id) /\ Gives(j, d, id)
        /\ outbox[i].final = TRUE
    BY <1>2, <1>3
  <2> QED BY <2>1 DEF Calls, OnceOK
<1>6. ErrorOK'
  BY <1>1 DEF Calls, ErrorOK, callVars
<1>7. \A i \in DOMAIN inbox' : FALSE
  BY <1>1
<1> QED BY <1>1, <1>3, <1>4, <1>5, <1>6, <1>7, MoveStep DEF Flight

-----------------------------------------------------------------------------
(* The actions of a coroutine.                                                 *)
LEMMA SameErrors ==
    ASSUME Calls, NEW c \in Call, got'[c] = "nothing" \/ got'[c] = got[c],
           \A d \in Call : d # c => got'[d] = got[d], UNCHANGED <<coreUp, outbox>>
    PROVE  ErrorOK'
BY DEF Calls, ErrorOK

LEMMA GenerateStep ==
    ASSUME Inv, NamesApart, Calls, NEW c \in Call, Generate(c)
    PROVE  Calls' /\ strays' = strays
<1>0. /\ TypeOK /\ pc[c] = "idle" /\ idx[c] = 0 /\ kids[c] = {} /\ idx[c] \in 0..2 /\ ask[c].shape.n \in 1..2
      /\ UNCHANGED <<ask, got, strays, errored, coreVars>>
  BY ShapeSize DEF Generate, Inv, Calls, NamesOK
<1>1. World(c)
  BY <1>0, NothingSent
<1>2. ErrorOK'
  BY <1>0, SameErrors DEF coreVars
<1>3. ASSUME NEW exception, NEW to \in {"failed", "refused"}, Raise(c, exception, to),
             Aborts(exception) => MayAbort(ask[c]), UNCHANGED idx,
             \A d \in Call : d # c => kids'[d] = kids[d]
      PROVE  Calls'
  <2>1. Left(c)
    BY <1>3, RaiseLeaves DEF Ended
  <2> QED BY <1>0, <1>1, <1>2, <1>3, <2>1, LeaveStep DEF Ended
<1>4. CASE errored
  <2>1. Raise(c, "EngineDeadError", "failed") /\ UNCHANGED <<idx, kids>>
    BY <1>4 DEF Generate
  <2>2. ~Aborts("EngineDeadError")
    BY DEF Aborts
  <2> QED BY <1>0, <1>3, <2>1, <2>2
<1>5. CASE ~errored /\ ask[c].shape.kind = "pooling"
  <2>1. Raise(c, "Exception", "failed") /\ UNCHANGED <<idx, kids>>
    BY <1>5 DEF Generate
  <2> QED BY <1>0, <1>3, <1>5, <2>1 DEF MayAbort
<1>6. CASE ~errored /\ ask[c].shape.kind # "pooling" /\ Outcome(ask[c].shape) # "accepted"
  <2>1. Raise(c, Outcome(ask[c].shape), "refused") /\ UNCHANGED <<idx, kids>>
    BY <1>6 DEF Generate
  <2>2. Aborts(Outcome(ask[c].shape)) => MayAbort(ask[c])
    BY DEF Aborts, MayAbort, Outcome
  <2> QED BY <1>0, <1>3, <2>1, <2>2
<1>7. CASE ~errored /\ ask[c].shape.kind # "pooling" /\ Outcome(ask[c].shape) = "accepted"
  <2>1. Register(c, 1)
    BY <1>7 DEF Generate
  <2>2. CASE Registered(IdOf(c, 1))
    <3>1. /\ Raise(c, "ValueError", "refused") /\ UNCHANGED idx
          /\ kids' = IF ask[c].shape.n = 1 THEN kids ELSE [kids EXCEPT ![c] = @ \cup {IdOf(c, 1)}]
      BY <2>1, <2>2 DEF Register
    <3>2. \A d \in Call : d # c => kids'[d] = kids[d]
      BY <3>1 DEF Inv, CallOK
    <3>3. ~Aborts("ValueError")
      BY DEF Aborts
    <3> QED BY <1>0, <1>3, <3>1, <3>2, <3>3
  <2>3. CASE ~Registered(IdOf(c, 1))
    <3>1. 1 \in 1..ask[c].shape.n /\ 1 = idx[c] + 1
      BY <1>0
    <3> QED BY <1>0, <1>1, <1>2, <2>1, <2>3, <3>1, RegisterStep
  <2> QED BY <2>2, <2>3
<1> QED BY <1>4, <1>5, <1>6, <1>7

LEMMA SentStep ==
    ASSUME Inv, NamesApart, Calls, NEW c \in Call, Sent(c)
    PROVE  Calls' /\ strays' = strays
<1>0. /\ TypeOK /\ pc[c] = "sending" /\ Active(c) /\ idx[c] \in 0..2 /\ ask[c].shape.n \in 1..2
      /\ errored \in BOOLEAN /\ coreUp \in BOOLEAN
      /\ UNCHANGED <<ask, got, strays, errored, live, outbox, coreUp>>
  BY ShapeSize DEF Sent, Inv, TypeOK, Active
<1>c. PICK cur : cur = IdOf(c, idx[c])
  OBVIOUS
<1>1. World(c) /\ (Sends => Token(c, cur)')
  <2>1. CASE Sends /\ coreUp
    <3>1. inbox' = Append(inbox, AddOf(c)) /\ coreUp = TRUE
      BY <1>0, <2>1 DEF Sent
    <3> QED BY <1>0, <1>c, <3>1, AddSent
  <2>2. CASE ~(Sends /\ coreUp)
    <3>1. UNCHANGED <<coreVars, errored>>
      BY <1>0, <2>2 DEF Sent, coreVars
    <3>2. ASSUME Sends PROVE Token(c, cur)'
      <4>1. coreUp = FALSE /\ errored = FALSE
        BY <1>0, <2>2, <3>2 DEF Sends
      <4>2. PICK i \in DOMAIN outbox : outbox[i] = DEAD
        BY <4>1 DEF Calls, CoreOK
      <4> QED BY <1>0, <4>2 DEF Token, Returning
    <3> QED BY <3>1, <3>2, NothingSent
  <2> QED BY <2>1, <2>2
<1>2. ErrorOK'
  BY <1>0, SameErrors
<1>3. ASSUME NEW exception \in {"EngineDeadError", "ValueError"}, NEW to \in {"failed", "refused"},
             Raise(c, exception, to), UNCHANGED idx, \A d \in Call : d # c => kids'[d] = kids[d]
      PROVE  Calls'
  <2>1. ~Aborts(exception)
    BY <1>3 DEF Aborts
  <2>2. Left(c)
    BY <1>3, <2>1, RaiseLeaves DEF Ended
  <2> QED BY <1>0, <1>1, <1>2, <1>3, <2>2, LeaveStep DEF Ended
<1>4. CASE ~Sends
  <2>1. Raise(c, "EngineDeadError", "failed") /\ UNCHANGED <<idx, kids>>
    BY <1>4 DEF Sent
  <2> QED BY <1>0, <1>3, <2>1
<1>5. CASE Sends /\ idx[c] < ask[c].shape.n
  <2>i. PICK i : i = idx[c] + 1
    OBVIOUS
  <2>1. Register(c, i) /\ i \in 1..ask[c].shape.n
    BY <1>0, <1>5, <2>i DEF Sent
  <2>2. CASE Registered(IdOf(c, i))
    <3>1. /\ Raise(c, "ValueError", "refused") /\ UNCHANGED idx
          /\ kids' = IF ask[c].shape.n = 1 THEN kids ELSE [kids EXCEPT ![c] = @ \cup {IdOf(c, i)}]
      BY <2>1, <2>2 DEF Register
    <3>2. \A d \in Call : d # c => kids'[d] = kids[d]
      BY <3>1 DEF Inv, CallOK
    <3> QED BY <1>0, <1>3, <3>1, <3>2
  <2>3. CASE ~Registered(IdOf(c, i))
    BY <1>0, <1>1, <1>2, <1>5, <1>c, <2>1, <2>3, <2>i, RegisterStep
  <2> QED BY <2>2, <2>3
<1>6. CASE Sends /\ ~(idx[c] < ask[c].shape.n)
  <2>1. pc' = [pc EXCEPT ![c] = "waiting"] /\ UNCHANGED <<idx, kids, aborts, states, parents>>
    BY <1>6 DEF Sent
  <2> QED BY <1>0, <1>1, <1>2, <1>6, <1>c, <2>1, StayStep
<1> QED BY <1>4, <1>5, <1>6

LEMMA TakeStep ==
    ASSUME Inv, NamesApart, Calls, NEW c \in Call, Take(c)
    PROVE  Calls' /\ strays' = strays
<1>0. /\ TypeOK /\ pc[c] = "waiting" /\ Active(c) /\ got[c] \in {"part", "final", "error"}
      /\ UNCHANGED <<ask, idx, kids, strays, errored, coreVars>>
      /\ got' = [got EXCEPT ![c] = "nothing"]
  BY DEF Take, Inv, TypeOK, Active
<1>1. World(c)
  BY <1>0, NothingSent
<1>2. got'[c] = "nothing" /\ \A d \in Call : d # c => got'[d] = got[d]
  BY <1>0 DEF TypeOK
<1>3. ErrorOK'
  BY <1>0, <1>2, SameErrors DEF coreVars
<1>4. CASE got[c] = "part"
  <2>1. pc' = [pc EXCEPT ![c] = "yielded"] /\ UNCHANGED <<aborts, states, parents>>
    BY <1>4 DEF Take
  <2>2. PICK cur : cur = IdOf(c, idx[c])
    OBVIOUS
  <2>3. \A d \in Call : /\ got'[d] = "error" <=> got[d] = "error"
                        /\ got'[d] \in {"nothing", "part"} => got[d] \in {"nothing", "part"}
    BY <1>2, <1>4
  <2> QED BY <1>0, <1>1, <1>3, <2>1, <2>2, <2>3, StayStep
<1>5. CASE got[c] # "part"
  <2>1. PICK to \in {"failed", "returned"} : Raise(c, "EngineDeadError", to)
    BY <1>5 DEF Take, Raise, Aborts
  <2>2. Left(c)
    BY <2>1, RaiseLeaves DEF Ended, Aborts
  <2> QED BY <1>0, <1>1, <1>2, <1>3, <2>2, LeaveStep DEF Ended
<1> QED BY <1>4, <1>5

LEMMA YieldStep ==
    ASSUME Inv, NamesApart, Calls, NEW c \in Call, Resume(c) \/ Close(c)
    PROVE  Calls' /\ strays' = strays
<1>0. /\ TypeOK /\ pc[c] = "yielded" /\ Active(c)
      /\ UNCHANGED <<ask, idx, kids, got, aborts, strays, states, parents, errored, coreVars>>
  BY DEF Resume, Close, Inv, Active, procVars
<1>1. World(c)
  BY <1>0, NothingSent
<1>2. ErrorOK'
  BY <1>0, SameErrors DEF coreVars
<1>3. CASE Resume(c)
  <2>1. pc' = [pc EXCEPT ![c] = "waiting"]
    BY <1>3 DEF Resume
  <2>2. PICK cur : cur = IdOf(c, idx[c])
    OBVIOUS
  <2> QED BY <1>0, <1>1, <1>2, <2>1, <2>2, StayStep
<1>4. CASE Close(c)
  <2>1. Raise(c, "EngineDeadError", "closed")
    BY <1>0, <1>4 DEF Close, Raise, Aborts
  <2>2. Left(c)
    BY <2>1, RaiseLeaves DEF Ended, Aborts
  <2> QED BY <1>0, <1>1, <1>2, <2>2, LeaveStep DEF Ended
<1> QED BY <1>3, <1>4

LEMMA CancelStep ==
    ASSUME Inv, NamesApart, Calls, NEW c \in Call, Cancel(c)
    PROVE  Calls' /\ strays' = strays
<1>0. /\ TypeOK /\ pc[c] \in {"sending", "waiting"} /\ Active(c) /\ MayAbort(ask[c])
      /\ errored \in BOOLEAN /\ coreUp \in BOOLEAN
      /\ UNCHANGED <<ask, got, idx, kids, strays, errored, live, outbox, coreUp>>
      /\ Raise(c, "CancelledError", "cancelled")
  BY DEF Cancel, Inv, TypeOK, Active, MayAbort
<1>1. World(c)
  <2>1. \/ inbox' = inbox
        \/ inbox' = Append(inbox, AddOf(c)) /\ pc[c] = "sending" /\ coreUp = TRUE
    BY <1>0 DEF Cancel
  <2>2. CASE inbox' = inbox
    BY <1>0, <2>2, NothingSent DEF coreVars
  <2>3. CASE inbox' = Append(inbox, AddOf(c)) /\ pc[c] = "sending" /\ coreUp = TRUE
    <3>1. PICK cur : cur = IdOf(c, idx[c])
      OBVIOUS
    <3> QED BY <1>0, <2>3, <3>1, AddSent
  <2> QED BY <2>1, <2>2, <2>3
<1>2. ErrorOK'
  BY <1>0, SameErrors
<1>3. Left(c)
  BY <1>0, RaiseLeaves DEF Ended, Aborts
<1> QED BY <1>0, <1>1, <1>2, <1>3, LeaveStep DEF Ended

-----------------------------------------------------------------------------
(* The invariant of the calls holds of the specification, provided that who may *)
(* abort its name shares it with nobody.                                        *)
LEMMA CallsInvariant == NamesApart => (Spec => []CallsInv)
<1> SUFFICES ASSUME NamesApart PROVE Spec => []CallsInv
  OBVIOUS
<1>1. Init => CallsInv
  <2> SUFFICES ASSUME Init PROVE strays = {} /\ Calls
    BY DEF CallsInv
  <2>1. /\ inbox = <<>> /\ live = {} /\ outbox = <<>> /\ coreUp = TRUE /\ errored = FALSE /\ strays = {}
        /\ DOMAIN states = {} /\ DOMAIN parents = {} /\ ask \in Scenarios
        /\ \A c \in Call : pc[c] = "idle" /\ idx[c] = 0 /\ kids[c] = {} /\ got[c] = "nothing"
    BY DEF Init
  <2>2. \A c, id : ~Flight(c, id) /\ ~Loose(c, id) /\ ~InInbox(c, id)
    BY <2>1 DEF Flight, Loose, Sending, Computing, InInbox, InCore, InOutbox
  <2>3. CoreOK /\ OnceOK /\ ErrorOK
    BY <2>1, <2>2 DEF CoreOK, OnceOK, ErrorOK
  <2>4. NamesOK
    <3>1. \A c \in Call : ask[c].shape.n \in 1..2
      BY <2>1, FrontendAssumption DEF Ask, Shape
    <3> QED BY <2>1, <3>1 DEF NamesOK
  <2>5. FlightOK /\ SendingOK /\ KidsOK /\ CoverOK /\ WaitOK /\ TokenOK /\ AbortOK /\ CancelOK
    BY <2>1, <2>2 DEF FlightOK, SendingOK, KidsOK, CoverOK, WaitOK, TokenOK, AbortOK, CancelOK, Active
  <2> QED BY <2>1, <2>3, <2>4, <2>5 DEF Calls
<1>2. Inv /\ CallsInv /\ [Next]_vars => CallsInv'
  <2> SUFFICES ASSUME Inv, CallsInv, [Next]_vars PROVE CallsInv'
    OBVIOUS
  <2>1. CASE \E c \in Call : \/ Generate(c) \/ Sent(c) \/ Take(c) \/ Resume(c)
                            \/ Cancel(c) \/ Close(c) \/ SendAbort(c)
    <3>1. PICK c \in Call : \/ Generate(c) \/ Sent(c) \/ Take(c) \/ Resume(c)
                            \/ Cancel(c) \/ Close(c) \/ SendAbort(c)
      BY <2>1
    <3>2. api = "AsyncLazyLLM"
      BY <3>1 DEF Inv, TypeOK, ApiOK, Generate, Sent, Take, Resume, Cancel, Close, SendAbort
    <3>3. Calls
      BY <3>2 DEF CallsInv
    <3>4. Calls' /\ strays' = strays
      <4>1. CASE SendAbort(c)
        BY <3>3, <4>1, SendAbortStep DEF SendAbort
      <4> QED BY <3>1, <3>3, <4>1, GenerateStep, SentStep, TakeStep, YieldStep, CancelStep
    <3> QED BY <3>4 DEF CallsInv
  <2>2. CASE HandleOutput
    <3>1. Calls
      BY <2>2 DEF CallsInv, HandleOutput
    <3> QED BY <2>2, <3>1, HandleOutputStep DEF CallsInv
  <2>3. CASE PropagateDeath
    <3>1. Calls
      BY <2>3 DEF CallsInv, PropagateDeath
    <3> QED BY <2>3, <3>1, PropagateDeathStep DEF CallsInv
  <2>4. CASE StartBatch \/ AddPrompt \/ RefuseBatch \/ RunEngine \/ EngineError \/ ReturnBatch
    <3>1. api = "LazyLLM" /\ api' = api /\ strays' = strays
      BY <2>4 DEF Inv, TypeOK, ApiOK, callVars, StartBatch, AddPrompt, RefuseBatch, RunEngine,
                  EngineError, ReturnBatch
    <3> QED BY <3>1 DEF CallsInv
  <2>5. CASE \/ NoticeDeath \/ Receive \/ Die
             \/ \E r \in live : SpawnDocument(r) \/ Sample(r) \/ Finish(r)
    <3>1. api' = api /\ strays' = strays
      BY <2>5 DEF callVars, NoticeDeath, Receive, Die, SpawnDocument, Sample, Finish
    <3>2. Calls => Calls'
      BY <2>5, NoticeDeathStep, ReceiveStep, DieStep, SpawnDocumentStep, SampleStep, FinishStep
    <3> QED BY <3>1, <3>2 DEF CallsInv
  <2>6. CASE Quiescent \/ UNCHANGED vars
    <3>1. UNCHANGED <<api, callVars, states, parents, errored, coreVars>>
      BY <2>6 DEF Quiescent, vars, procVars
    <3>2. UNCHANGED <<api, pc, ask, idx, kids, got, aborts, strays, inbox, live, outbox, coreUp>>
      BY <3>1 DEF callVars, coreVars
    <3>3. ASSUME Calls PROVE Calls'
      <4>1. \A d, id : /\ (Flight(d, id)' <=> Flight(d, id)) /\ (Loose(d, id)' <=> Loose(d, id))
                       /\ (Token(d, id)' <=> Token(d, id))
        BY <3>2 DEF Flight, Loose, Token, InInbox, InCore, InOutbox, Adds, Gives, Sending, Computing,
                    Returning, AbortedBehind
      <4>2. CoreOK' /\ OnceOK' /\ ErrorOK'
        BY <3>1, <3>2, <3>3 DEF Calls, CoreOK, OnceOK, ErrorOK, InInbox, InCore, InOutbox, Adds, Gives
      <4> QED BY <3>1, <3>2, <3>3, <4>1, <4>2, MoveStep
    <3> QED BY <3>2, <3>3 DEF CallsInv
  <2> QED BY <2>1, <2>2, <2>3, <2>4, <2>5, <2>6 DEF Next
<1> QED BY <1>1, <1>2, InvInvariant, PTL DEF Spec

(* No call waits in vain: as long as nothing was put into its collector, one of  *)
(* its requests is registered for it and is on its way, whatever the others do.  *)
THEOREM NobodyForgotten == NamesApart => (Spec => []NobodyWaitsForNothing)
<1>1. Inv /\ CallsInv => NobodyWaitsForNothing
  <2> SUFFICES ASSUME Inv, CallsInv, NEW c \in Call, pc[c] \in {"waiting", "yielded"},
                      got[c] \in {"nothing", "part"}
               PROVE  \E id \in DOMAIN states : /\ states[id] = c
                                                /\ Sending(c, id) \/ Computing(c, id) \/ Returning(c, id)
    BY DEF NobodyWaitsForNothing
  <2>1. Calls
    BY DEF Inv, TypeOK, ApiOK, CallsInv
  <2>2. PICK id \in DOMAIN states : states[id] = c
    BY <2>1 DEF Calls, WaitOK
  <2>3. Token(c, id)
    BY <2>1, <2>2 DEF Calls, TokenOK, Active, Current
  <2> QED BY <2>2, <2>3 DEF Token, Loose
<1> QED BY <1>1, CallsInvariant, InvInvariant, PTL

(* Behind every request that a cancelled call has left there is an abort.        *)
THEOREM CancelledLeavesNothing == NamesApart => (Spec => []CancelledIsAborted)
<1>1. Inv /\ CallsInv => CancelledIsAborted
  <2> SUFFICES ASSUME Inv, CallsInv, NEW c \in Call, pc[c] = "cancelled", NEW i \in 1..ask[c].shape.n
               PROVE  ~Sending(c, IdOf(c, i)) /\ ~Computing(c, IdOf(c, i))
    BY DEF CancelledIsAborted
  <2>1. Calls /\ TypeOK
    BY DEF Inv, TypeOK, ApiOK, CallsInv
  <2>2. IdOf(c, i) \in IdSet
    <3>1. i \in 1..2
      BY <2>1, ShapeSize
    <3> QED BY <2>1, <3>1, IdOfFacts
  <2>3. ~Loose(c, IdOf(c, i))
    BY <2>1, <2>2 DEF Calls, CancelOK
  <2> QED BY <2>3 DEF Loose
<1> QED BY <1>1, CallsInvariant, InvInvariant, PTL

(* A call is never given what another call with its id asked for.                *)
THEOREM OutputsAreOwn == NamesApart => (Spec => []OwnOutputs)
<1>1. CallsInv => OwnOutputs
  BY DEF CallsInv, OwnOutputs
<1> QED BY <1>1, CallsInvariant, PTL
=============================================================================
