------------------------------ MODULE Frontend ------------------------------
(***************************************************************************)
(* From a caller to the engine core and back.  A program uses one of two      *)
(* entry points: AsyncLazyLLM.generate, many coroutines on one event loop,    *)
(* or LazyLLM.generate, one batch after the other.  Both pass a request       *)
(* through LazyProcessor.process_inputs, register it with the output          *)
(* processor of this process and send it to the engine core, another process, *)
(* over a FIFO channel; a second channel brings the outputs back.             *)
(*                                                                         *)
(* A coroutine runs without interruption from one await to the next, and can  *)
(* be cancelled at each of them.  The scheduler (LazyScheduler) appears as    *)
(* what a client can see of it: a request is live, may have a document        *)
(* request spawned for it, and ends.                                          *)
(***************************************************************************)
EXTENDS Integers, Sequences, FiniteSets, SequencesExt

CONSTANTS
  Call,       \* calls of AsyncLazyLLM.generate, each made at most once
  Scenarios,  \* what the calls may ask for: functions from calls to asks
  Batches,    \* the batches LazyLLM.generate may be given: sequences of shapes
  MaxBatches, \* bound: how many it is given
  MayDie      \* whether the engine core may fail

(* What process_inputs and the engines tell apart of a request.  An "option"   *)
(* is refused by one of the ValueErrors that have nothing to do with          *)
(* documents, or by the rotation bound; a "text" makes tokenization fail.     *)
Shape == [docs : BOOLEAN, kind : {"sampling", "guided", "pooling", "lora", "logprobs"},
          n : 1..2, defect : {"none", "option", "text"}]

(* A call: the request id it passes, its request, whether its task may be      *)
(* cancelled or its generator closed, and whether it wants partial outputs.   *)
Ask == [name : STRING, shape : Shape, leaves : BOOLEAN, streams : BOOLEAN]

ASSUME FrontendAssumption ==
    /\ Scenarios \subseteq [Call -> Ask]
    /\ Batches \subseteq Seq(Shape) /\ MaxBatches \in Nat /\ MayDie \in BOOLEAN

VARIABLES
  api,       \* the entry point the program uses
  \* the calls of AsyncLazyLLM.generate
  pc,        \* where each coroutine is
  ask,       \* what it asks for
  idx,       \* the child that it adds next
  kids,      \* ParentRequest.child_requests of its fan-out
  got,       \* RequestOutputCollector: what waits to be taken
  aborts,    \* the ids of the abort that it is sending, and how it ends then
  strays,    \* ghost: calls that were given an output of another one
  \* LazyLLM.generate
  phase, batch, counter, given, abandoned, answers,
  \* the output processor
  states,    \* request_states: the owner of each registered id
  parents,   \* parent_requests: the call that fanned out under each name
  errored,   \* the client knows that the engine is dead
  \* the channels and the engine core
  inbox, live, outbox, coreUp

callVars  == <<pc, ask, idx, kids, got, aborts, strays>>
batchVars == <<phase, batch, counter, given, abandoned, answers>>
procVars  == <<states, parents, errored>>
coreVars  == <<inbox, live, outbox, coreUp>>
vars == <<api, callVars, batchVars, procVars, coreVars>>

-----------------------------------------------------------------------------
(* process_inputs.                                                            *)

(* _validate_document_request.  Guided decoding is not among what it refuses,  *)
(* although the document path cannot serve it: see Stuck.                     *)
UnservableDocuments(s) == s.docs /\ s.kind \in {"pooling", "lora", "logprobs"}

(* How process_inputs ends.                                                   *)
Outcome(s) ==
    CASE s.defect = "option" \/ UnservableDocuments(s) -> "ValueError"
      [] s.defect = "text" /\ ~UnservableDocuments(s)  -> "Exception"
      [] OTHER -> "accepted"

-----------------------------------------------------------------------------
(* The output processor and the client of the engine core.                    *)

SingleId(name) == <<name, 0>>

(* Mutant of ChildId: the first child has the id of the request itself.        *)
ChildIdFromZero(name, i) == <<name, i - 1>>

ChildId(name, i) == <<name, i>>
DocId(id) == <<id[1], id[2], "doc">>

Registered(id) == id \in DOMAIN states
With(id, owner) == [i \in DOMAIN states \cup {id} |-> IF i = id THEN owner ELSE states[i]]
Without(ids) == [i \in DOMAIN states \ ids |-> states[i]]

(* A request on its way to the engine core; by is a ghost.                    *)
Request(id, by, s, streams) == [id |-> id, by |-> by, docs |-> s.docs, kind |-> s.kind,
                                spawned |-> ~s.docs, told |-> ~streams]
Add(r) == [type |-> "ADD", request |-> r]
Abort(ids) == [type |-> "ABORT", ids |-> ids]
Output(r, final) == [type |-> "OUTPUT", id |-> r.id, by |-> r.by, final |-> final]
DEAD == [type |-> "DEAD"]

Init ==
    /\ api \in {"AsyncLazyLLM", "LazyLLM"}
    /\ pc = [c \in Call |-> "idle"] /\ ask \in Scenarios
    /\ idx = [c \in Call |-> 0] /\ kids = [c \in Call |-> {}]
    /\ got = [c \in Call |-> "nothing"] /\ strays = {}
    /\ aborts = [c \in Call |-> [ids |-> {}, to |-> "none"]]
    /\ phase = "ready" /\ batch = [prompts |-> <<>>, first |-> 0]
    /\ counter = 0 /\ given = {} /\ abandoned = {} /\ answers = <<>>
    /\ states = <<>> /\ parents = <<>> /\ errored = FALSE
    /\ inbox = <<>> /\ live = {} /\ outbox = <<>> /\ coreUp = TRUE

-----------------------------------------------------------------------------
(* AsyncLazyLLM.generate.                                                     *)

IdOf(c, i) == IF ask[c].shape.n = 1 THEN SingleId(ask[c].name) ELSE ChildId(ask[c].name, i)

AddOf(c) == Add(Request(IdOf(c, idx[c]), c, ask[c].shape, ask[c].streams))

(* Mutant of ToAbort: a fan-out is not followed to its children.              *)
ToAbortSingle(name) == IF Registered(SingleId(name)) THEN {SingleId(name)} ELSE {}

(* The ids OutputProcessor.abort_requests finds for a request id: the request  *)
(* itself, or the children of the last fan-out under that name.               *)
ToAbort(name) ==
    IF Registered(SingleId(name)) THEN {SingleId(name)}
    ELSE IF name \in DOMAIN parents THEN kids[parents[name]] ELSE {}

(* Mutant of Aborts: every failure is followed by an abort.                   *)
AbortsAlways(exception) == exception # "EngineDeadError"

(* The except clauses of generate: which of them abort the request id.        *)
Aborts(exception) == exception \in {"CancelledError", "Exception"}

(* The coroutine leaves its try block with an exception.                      *)
Raise(c, exception, to) ==
    IF Aborts(exception)
    THEN LET ids == ToAbort(ask[c].name)
         IN  /\ pc' = [pc EXCEPT ![c] = "aborting"]
             /\ aborts' = [aborts EXCEPT ![c] = [ids |-> ids, to |-> to]]
             /\ states' = Without(ids)
             /\ parents' = IF Registered(SingleId(ask[c].name)) THEN parents
                           ELSE [n \in DOMAIN parents \ {ask[c].name} |-> parents[n]]
    ELSE /\ pc' = [pc EXCEPT ![c] = to]
         /\ UNCHANGED <<aborts, states, parents>>

(* Mutant of Register: an id in use is registered again.                       *)
RegisterTwice(c, i) ==
    /\ pc' = [pc EXCEPT ![c] = "sending"]
    /\ states' = With(IdOf(c, i), c)
    /\ idx' = [idx EXCEPT ![c] = i]
    /\ kids' = [kids EXCEPT ![c] = IF ask[c].shape.n = 1 THEN @ ELSE @ \cup {IdOf(c, i)}]
    /\ UNCHANGED <<parents, aborts>>

(* _add_request up to its await: the child is registered, unless its id is     *)
(* in use.                                                                   *)
Register(c, i) ==
    IF Registered(IdOf(c, i))
    THEN /\ Raise(c, "ValueError", "refused")
         /\ kids' = IF ask[c].shape.n = 1 THEN kids ELSE [kids EXCEPT ![c] = @ \cup {IdOf(c, i)}]
         /\ UNCHANGED idx
    ELSE /\ pc' = [pc EXCEPT ![c] = "sending"]
         /\ states' = With(IdOf(c, i), c)
         /\ idx' = [idx EXCEPT ![c] = i]
         /\ IF ask[c].shape.n = 1 THEN UNCHANGED <<kids, parents>>
            ELSE /\ kids' = [kids EXCEPT ![c] = @ \cup {IdOf(c, i)}]
                 /\ parents' = [n \in DOMAIN parents \cup {ask[c].name} |->
                                  IF n = ask[c].name THEN c ELSE parents[n]]
         /\ UNCHANGED aborts

(* generate runs up to its first await: add_request checks the engine and the  *)
(* parameters, and processes the inputs.                                      *)
Generate(c) ==
    /\ api = "AsyncLazyLLM" /\ pc[c] = "idle"
    /\ CASE errored -> Raise(c, "EngineDeadError", "failed") /\ UNCHANGED <<idx, kids>>
         [] ~errored /\ ask[c].shape.kind = "pooling" ->
              Raise(c, "Exception", "failed") /\ UNCHANGED <<idx, kids>>
         [] ~errored /\ ask[c].shape.kind # "pooling" /\ Outcome(ask[c].shape) # "accepted" ->
              Raise(c, Outcome(ask[c].shape), "refused") /\ UNCHANGED <<idx, kids>>
         [] OTHER -> Register(c, 1)
    /\ UNCHANGED <<api, ask, got, strays, batchVars, errored, coreVars>>

(* Whether the client still sends: it raises EngineDeadError otherwise.       *)
Sends == ~errored

(* add_request_async returns, and the coroutine goes on to the next child, or  *)
(* to wait for its outputs.                                                   *)
Sent(c) ==
    /\ pc[c] = "sending"
    /\ inbox' = IF Sends /\ coreUp THEN Append(inbox, AddOf(c))
                ELSE inbox
    /\ CASE ~Sends -> Raise(c, "EngineDeadError", "failed") /\ UNCHANGED <<idx, kids>>
         [] Sends /\ idx[c] < ask[c].shape.n -> Register(c, idx[c] + 1)
         [] OTHER -> /\ pc' = [pc EXCEPT ![c] = "waiting"]
                     /\ UNCHANGED <<idx, kids, aborts, states, parents>>
    /\ UNCHANGED <<api, ask, got, strays, batchVars, errored, live, outbox, coreUp>>

(* An output is taken from the collector; generate yields it, and is resumed   *)
(* unless it was the last one.                                               *)
Take(c) ==
    /\ pc[c] = "waiting" /\ got[c] # "nothing"
    /\ got' = [got EXCEPT ![c] = "nothing"]
    /\ CASE got[c] = "error" -> Raise(c, "EngineDeadError", "failed")
         [] got[c] = "part"  -> /\ pc' = [pc EXCEPT ![c] = "yielded"]
                                /\ UNCHANGED <<aborts, states, parents>>
         [] OTHER -> /\ pc' = [pc EXCEPT ![c] = "returned"]
                     /\ UNCHANGED <<aborts, states, parents>>
    /\ UNCHANGED <<api, ask, idx, kids, strays, batchVars, errored, coreVars>>

Resume(c) ==
    /\ pc[c] = "yielded"
    /\ pc' = [pc EXCEPT ![c] = "waiting"]
    /\ UNCHANGED <<api, ask, idx, kids, got, aborts, strays, batchVars, procVars, coreVars>>

(* The task is cancelled at an await: the send may have taken place or not.    *)
Cancel(c) ==
    /\ ask[c].leaves /\ pc[c] \in {"sending", "waiting"}
    /\ \E sent \in BOOLEAN :
          /\ sent => pc[c] = "sending" /\ Sends
          /\ inbox' = IF sent /\ coreUp
                      THEN Append(inbox, AddOf(c)) ELSE inbox
    /\ Raise(c, "CancelledError", "cancelled")
    /\ UNCHANGED <<api, ask, idx, kids, got, strays, batchVars, errored, live, outbox, coreUp>>

(* The caller stops iterating: GeneratorExit is raised at the yield, which no  *)
(* except clause of generate names.                                          *)
Close(c) ==
    /\ ask[c].leaves /\ pc[c] = "yielded"
    /\ pc' = [pc EXCEPT ![c] = "closed"]
    /\ UNCHANGED <<api, ask, idx, kids, got, aborts, strays, batchVars, procVars, coreVars>>

(* abort: the ids that were found are sent to the engine core.                *)
SendAbort(c) ==
    /\ pc[c] = "aborting"
    /\ inbox' = IF aborts[c].ids # {} /\ Sends /\ coreUp THEN Append(inbox, Abort(aborts[c].ids))
                ELSE inbox
    /\ pc' = [pc EXCEPT ![c] = aborts[c].to]
    /\ aborts' = [aborts EXCEPT ![c] = [ids |-> {}, to |-> "none"]]
    /\ UNCHANGED <<api, ask, idx, kids, got, strays, batchVars, procVars, live, outbox, coreUp>>

(* The output handler: an output is put into the collector of the request's    *)
(* call, with which a fan-out is done when its last child is.  An output for   *)
(* an id that is not registered is dropped.                                  *)
HandleOutput ==
    /\ api = "AsyncLazyLLM" /\ outbox # <<>> /\ Head(outbox).type = "OUTPUT"
    /\ outbox' = Tail(outbox)
    /\ LET o == Head(outbox) IN
       IF ~Registered(o.id) THEN UNCHANGED <<got, kids, states, parents, strays>>
       ELSE LET c == states[o.id]
                left == kids[c] \ {o.id}
                done == o.final /\ left = {}
            IN  /\ kids' = IF o.final THEN [kids EXCEPT ![c] = left] ELSE kids
                /\ states' = IF o.final THEN Without({o.id}) ELSE states
                /\ parents' = IF done /\ o.id # SingleId(ask[c].name)
                              THEN [n \in DOMAIN parents \ {ask[c].name} |-> parents[n]] ELSE parents
                /\ got' = IF done THEN [got EXCEPT ![c] = "final"]
                          ELSE IF got[c] = "nothing" /\ ~o.final
                               THEN [got EXCEPT ![c] = "part"] ELSE got
                /\ strays' = IF o.by # c THEN strays \cup {c} ELSE strays
    /\ UNCHANGED <<api, pc, ask, idx, aborts, batchVars, errored, inbox, live, coreUp>>

(* The client reads that the core is dead; the output handler passes the error *)
(* on to every registered request.                                           *)
NoticeDeath ==
    /\ outbox # <<>> /\ Head(outbox) = DEAD /\ ~errored
    /\ errored' = TRUE
    /\ UNCHANGED <<api, callVars, batchVars, states, parents, coreVars>>

(* Mutant of PropagateDeath: the handler ends without telling anybody.        *)
PropagateDeathSilently ==
    /\ api = "AsyncLazyLLM" /\ outbox # <<>> /\ Head(outbox) = DEAD /\ errored
    /\ outbox' = Tail(outbox)
    /\ UNCHANGED <<api, callVars, batchVars, procVars, inbox, live, coreUp>>

PropagateDeath ==
    /\ api = "AsyncLazyLLM" /\ outbox # <<>> /\ Head(outbox) = DEAD /\ errored
    /\ outbox' = Tail(outbox)
    /\ got' = [c \in Call |-> IF \E id \in DOMAIN states : states[id] = c THEN "error" ELSE got[c]]
    /\ UNCHANGED <<api, pc, ask, idx, kids, aborts, strays, batchVars, procVars,
                   inbox, live, coreUp>>

-----------------------------------------------------------------------------
(* LazyLLM.generate: one thread.                                              *)

(* A batch is taken; batches of unequal lengths have been refused already.     *)
StartBatch ==
    /\ api = "LazyLLM" /\ phase = "ready" /\ Len(answers) + Cardinality(abandoned) < MaxBatches
    /\ \E prompts \in Batches : batch' = [prompts |-> prompts, first |-> counter]
    /\ phase' = "adding" /\ given' = {}
    /\ UNCHANGED <<api, callVars, counter, abandoned, answers, procVars, coreVars>>

(* LazyLLMEngine.add_request: n > 1 is refused with documents, and what        *)
(* process_inputs refuses.                                                   *)
AddRequestRefuses(s) == (s.docs /\ s.n # 1) \/ Outcome(s) # "accepted"

Position == counter - batch.first

(* A prompt without documents is left to vLLM's add_request, which sends n      *)
(* children under ids of their own.                                          *)
PromptId(s, i) == IF s.n = 1 THEN SingleId(counter) ELSE ChildId(counter, i)

AddPrompt ==
    LET s == batch.prompts[Position + 1]
        ids == {PromptId(s, i) : i \in 1..s.n}
    IN
    /\ phase = "adding" /\ Position < Len(batch.prompts)
    /\ ~AddRequestRefuses(s) /\ ~errored
    /\ states' = [id \in DOMAIN states \cup ids |-> IF id \in ids THEN counter ELSE states[id]]
    /\ inbox' = IF coreUp
                THEN inbox \o [i \in 1..s.n |-> Add(Request(PromptId(s, i), counter, s, FALSE))]
                ELSE inbox
    /\ counter' = counter + 1
    /\ UNCHANGED <<api, callVars, phase, batch, given, abandoned, answers, parents, errored,
                   live, outbox, coreUp>>

(* The exception leaves generate; its number is used up, and the prompts that  *)
(* were added before it stay.                                                *)
RefuseBatch ==
    /\ phase = "adding" /\ Position < Len(batch.prompts)
    /\ AddRequestRefuses(batch.prompts[Position + 1]) \/ errored
    /\ phase' = IF errored THEN "failed" ELSE "ready"
    /\ abandoned' = abandoned \cup {<<batch.first, counter>>}
    /\ counter' = counter + 1
    /\ UNCHANGED <<api, callVars, batch, given, answers, procVars, coreVars>>

(* The requests of prompt k that are registered.                              *)
Waiting(k) == {id \in DOMAIN states : id[1] = k}

(* _run_engine: outputs are collected as long as a request is registered; a     *)
(* prompt has its output when the last of its requests has ended.             *)
RunEngine ==
    /\ phase \in {"adding", "running"} /\ Position = Len(batch.prompts)
    /\ states # <<>> /\ outbox # <<>> /\ Head(outbox).type = "OUTPUT"
    /\ phase' = "running"
    /\ outbox' = Tail(outbox)
    /\ LET o == Head(outbox)
           finished == Registered(o.id) /\ o.final
       IN  /\ given' = IF finished /\ Waiting(o.id[1]) = {o.id}
                       THEN given \cup {o.id[1]} ELSE given
           /\ states' = IF finished THEN Without({o.id}) ELSE states
    /\ UNCHANGED <<api, callVars, batch, counter, abandoned, answers, parents, errored,
                   inbox, live, coreUp>>

EngineError ==
    /\ phase \in {"adding", "running"} /\ Position = Len(batch.prompts)
    /\ states # <<>> /\ outbox # <<>> /\ Head(outbox) = DEAD /\ errored
    /\ phase' = "failed"
    /\ UNCHANGED <<api, callVars, batch, counter, given, abandoned, answers, procVars, coreVars>>

(* Mutant of ReturnBatch: the loop stops when the engine has nothing to say.   *)
ReturnBatchEarly ==
    /\ phase \in {"adding", "running"} /\ Position = Len(batch.prompts) /\ outbox = <<>>
    /\ phase' = "ready"
    /\ answers' = Append(answers, [asked |-> batch.first .. counter - 1, given |-> given])
    /\ UNCHANGED <<api, callVars, batch, counter, given, abandoned, procVars, coreVars>>

(* The outputs are sorted by request id and returned.                         *)
ReturnBatch ==
    /\ phase \in {"adding", "running"} /\ Position = Len(batch.prompts) /\ states = <<>>
    /\ phase' = "ready"
    /\ answers' = Append(answers, [asked |-> batch.first .. counter - 1, given |-> given])
    /\ UNCHANGED <<api, callVars, batch, counter, given, abandoned, procVars, coreVars>>

-----------------------------------------------------------------------------
(* The engine core.                                                           *)

(* The documents of a guided request wait for a grammar that nobody compiles,   *)
(* are set aside, and are spawned again: schedule() does not return.          *)
Stuck == \E r \in live : r.docs /\ r.kind = "guided" /\ r.spawned

(* vLLM's input thread, and what the busy loop does with the request.          *)
(* LazyEngineCoreProc.process_input_socket has the name and the parameters of  *)
(* the thread of an older vLLM; the one the repository installs, 0.9.2, starts  *)
(* process_input_sockets.                                                    *)
Receive ==
    /\ inbox # <<>> /\ coreUp /\ ~Stuck
    /\ inbox' = Tail(inbox)
    /\ live' = IF Head(inbox).type = "ADD" THEN live \cup {Head(inbox).request}
               ELSE {r \in live : r.id \notin Head(inbox).ids}
    /\ UNCHANGED <<api, callVars, batchVars, procVars, outbox, coreUp>>

(* LazyScheduler: a document request is spawned, a token is sampled, a request *)
(* ends, of itself or as its document has been computed.                     *)
SpawnDocument(r) ==
    /\ ~r.spawned /\ ~Stuck
    /\ live' = (live \ {r}) \cup
               {[r EXCEPT !.spawned = TRUE],
                [r EXCEPT !.id = DocId(r.id), !.spawned = TRUE, !.told = TRUE]}
    /\ UNCHANGED <<api, callVars, batchVars, procVars, inbox, outbox, coreUp>>

Sample(r) ==
    /\ ~r.told /\ ~Stuck
    /\ live' = (live \ {r}) \cup {[r EXCEPT !.told = TRUE]}
    /\ outbox' = Append(outbox, Output(r, FALSE))
    /\ UNCHANGED <<api, callVars, batchVars, procVars, inbox, coreUp>>

Finish(r) ==
    /\ ~Stuck
    /\ live' = live \ {r}
    /\ outbox' = Append(outbox, Output(r, TRUE))
    /\ UNCHANGED <<api, callVars, batchVars, procVars, inbox, coreUp>>

(* run_engine_core: an exception in the busy loop is the end of the core, which *)
(* says so behind its outputs.                                               *)
Die ==
    /\ MayDie /\ coreUp
    /\ coreUp' = FALSE /\ inbox' = <<>> /\ live' = {} /\ outbox' = Append(outbox, DEAD)
    /\ UNCHANGED <<api, callVars, batchVars, procVars>>

(* Every call has ended, and the engine is idle.                              *)
Quiescent ==
    /\ \A c \in Call : pc[c] \notin {"sending", "waiting", "yielded", "aborting"}
    /\ phase \in {"ready", "failed"} /\ live = {} /\ inbox = <<>>
    /\ UNCHANGED vars

Next ==
    \/ \E c \in Call : \/ Generate(c) \/ Sent(c) \/ Take(c) \/ Resume(c)
                       \/ Cancel(c) \/ Close(c) \/ SendAbort(c)
    \/ HandleOutput \/ NoticeDeath \/ PropagateDeath
    \/ StartBatch \/ AddPrompt \/ RefuseBatch \/ RunEngine \/ EngineError \/ ReturnBatch
    \/ Receive
    \/ \E r \in live : SpawnDocument(r)
    \/ \E r \in live : Sample(r)
    \/ \E r \in live : Finish(r)
    \/ Die \/ Quiescent

(* The event loop runs each coroutine that can go on and the output handler;   *)
(* the caller of a batch waits for it; the core reads its channel and computes *)
(* as long as it has requests.  Nobody has to make a call or leave one.        *)
Fairness ==
    /\ \A c \in Call : WF_vars(Sent(c) \/ Take(c) \/ Resume(c) \/ SendAbort(c))
    /\ WF_vars(HandleOutput \/ NoticeDeath \/ PropagateDeath)
    /\ WF_vars(AddPrompt \/ RefuseBatch \/ RunEngine \/ EngineError \/ ReturnBatch)
    /\ WF_vars(Receive) /\ WF_vars(\E r \in live : Finish(r))

Spec == Init /\ [][Next]_vars /\ Fairness

-----------------------------------------------------------------------------
Ended == {"returned", "refused", "failed", "cancelled", "closed"}

(* Types of the variables.                                                    *)
TypeOK ==
    /\ api \in {"AsyncLazyLLM", "LazyLLM"}
    /\ pc \in [Call -> Ended \cup {"idle", "sending", "waiting", "yielded", "aborting"}]
    /\ ask \in Scenarios /\ idx \in [Call -> 0..2]
    /\ got \in [Call -> {"nothing", "part", "final", "error"}] /\ strays \subseteq Call
    /\ phase \in {"ready", "adding", "running", "failed"} /\ counter \in Nat
    /\ given \subseteq 0..counter /\ errored \in BOOLEAN /\ coreUp \in BOOLEAN
    /\ \A id \in DOMAIN states : states[id] \in Call \cup 0..counter
    /\ \A c \in Call : kids[c] \subseteq {<<ask[c].name, i>> : i \in 1..2}

(* The request of a call is somewhere on its way: in the channel with no abort  *)
(* behind it, live, or its output is in the other channel.                   *)
AbortedBehind(i, id) ==
    \E k \in i+1 .. Len(inbox) : inbox[k].type = "ABORT" /\ id \in inbox[k].ids
Sending(c, id) ==
    \E i \in DOMAIN inbox : /\ inbox[i].type = "ADD" /\ inbox[i].request.by = c
                            /\ inbox[i].request.id = id /\ ~AbortedBehind(i, id)
Computing(c, id) == /\ \E r \in live : r.id = id /\ r.by = c
                    /\ ~AbortedBehind(0, id)
Returning(c, id) ==
    \E i \in DOMAIN outbox : outbox[i] = DEAD \/ (outbox[i].by = c /\ outbox[i].id = id /\ outbox[i].final)

(* A coroutine that waits for an output is not forgotten: something will be    *)
(* put into its collector, whatever other calls with its id do.              *)
NobodyWaitsForNothing ==
    \A c \in Call : pc[c] \in {"waiting", "yielded"} /\ got[c] \in {"nothing", "part"} =>
       \E id \in DOMAIN states : /\ states[id] = c
                                 /\ Sending(c, id) \/ Computing(c, id) \/ Returning(c, id)

(* async_llm.py:203-204: when a call was cancelled nothing of it goes on: each  *)
(* of its requests that is in the engine core or on the way to it has an       *)
(* abort behind it.                                                          *)
CancelledIsAborted ==
    \A c \in Call : pc[c] = "cancelled" =>
       \A i \in 1..ask[c].shape.n : ~Sending(c, IdOf(c, i)) /\ ~Computing(c, IdOf(c, i))

(* A call is given outputs of its own requests only, and an id is registered   *)
(* for one call.                                                             *)
OwnOutputs == strays = {}

(* LazyLLM.generate leaves no prompt of its batch without an answer, and none   *)
(* is answered twice.  What else it returns was left behind by a batch that   *)
(* was refused half-way, and comes in front of its own: see AnswersInOrder.   *)
BatchComplete ==
    /\ \A k \in DOMAIN answers :
          /\ answers[k].asked \subseteq answers[k].given
          /\ \A id \in answers[k].given \ answers[k].asked :
                \E b \in abandoned : id \in b[1] .. b[2] - 1
    /\ \A k, l \in DOMAIN answers : k # l => answers[k].given \cap answers[l].given = {}

(* entrypoints/llm.py:106-108: a batch is answered in the order of its prompts. *)
(* The outputs are sorted by the numbers of their prompts, so the i-th output  *)
(* is that of the i-th prompt just when there are no others.  It does not hold: *)
(* see README.md, section 6.                                                   *)
AnswersInOrder == \A k \in DOMAIN answers : answers[k].given = answers[k].asked

(* Every call ends, and so does every batch, also when the core dies, and       *)
(* unless one request has stopped it: nothing but a guided request with        *)
(* documents keeps anybody waiting for ever, itself or others.                *)
CallsEnd == /\ \A c \in Call : pc[c] # "idle" ~> pc[c] \in Ended \/ Stuck
            /\ phase \in {"adding", "running"} ~> phase \in {"ready", "failed"} \/ Stuck
=============================================================================
