---------------------------- MODULE AiOperations ----------------------------
(***************************************************************************)
(* A request to the provider that belongs to no run, here the suggestion of *)
(* success criteria: the browser's key makes its retries one operation.     *)
(*   src/src/domain/ai/operations.ts, src/src/domain/objectives/suggest.ts  *)
(*                                                                         *)
(* The calls that carry one key.  The operation is resolved and recorded    *)
(* in one transaction, the provider called outside, the end recorded in     *)
(* another.  BeginOrReuse and what follows it are the two halves of the first.       *)
(***************************************************************************)
EXTENDS Naturals, FiniteSets

CONSTANTS
  Askers,        \* the calls of suggestSuccessCriteria under way
  NoInput,       \* no fingerprint
  Inputs,        \* the fingerprints of what they ask
  Knowledge,     \* numbers: the items there may be, the most relevant first
  PromptCap,     \* how many of them a prompt holds
  MaxAsks,       \* bound on the calls
  MaxTeachings   \* bound on the changes of what is relevant

ASSUME AiAssumption ==
  /\ NoInput \notin Inputs /\ Knowledge \subseteq Nat /\ IsFiniteSet(Knowledge)
  /\ PromptCap \in Nat /\ MaxAsks \in Nat /\ MaxTeachings \in Nat

VARIABLES
  operation,   \* the row with the key: its status, fingerprint and stored answer
  injections,  \* the knowledge recorded as supplied to it
  relevant,    \* the knowledge a selection would take now
  asker,       \* per call: how far it is, what it asks and what it sends
  asks, teachings,
  outrun,   \* ghost: the row changed between a call's first read and its next step
  prompts,        \* ghost: the prompts the provider got
  returned     \* ghost: what was asked, with the input whose answer was returned

aiVars == <<operation, injections, relevant, asker, asks, teachings, outrun, prompts, returned>>

NoAsk == [step |-> "idle", input |-> NoInput, seen |-> "none", prompt |-> {}]

AiTypeOK ==
  /\ operation \in [status : {"none", "dispatched", "completed", "failed"},
                    contextHash : Inputs \cup {NoInput}, resultData : Inputs \cup {NoInput}]
  /\ injections \subseteq Knowledge /\ relevant \subseteq Knowledge
  /\ asker \in [Askers -> [step : {"idle", "found", "calling", "answered", "refused"},
                           input : Inputs \cup {NoInput},
                           seen : {"none", "dispatched", "completed", "failed"},
                           prompt : SUBSET Knowledge]]
  /\ asks \in 0..MaxAsks /\ teachings \in 0..MaxTeachings /\ outrun \in BOOLEAN
  /\ prompts \subseteq Inputs \X SUBSET Knowledge /\ returned \subseteq Inputs \X Inputs

AiInit ==
  /\ operation = [status |-> "none", contextHash |-> NoInput, resultData |-> NoInput]
  /\ injections = {} /\ relevant = {}
  /\ asker = [a \in Askers |-> NoAsk] /\ asks = 0 /\ teachings = 0
  /\ outrun = FALSE /\ prompts = {} /\ returned = {}

-----------------------------------------------------------------------------
\* Where a call that read the row goes: on, or back with what it found.
Goes(a, input, on) ==
  /\ asker' = [asker EXCEPT ![a] = IF on THEN [NoAsk EXCEPT !.step = "found", !.input = input,
                                                           !.seen = operation.status] ELSE @]
  /\ returned' = IF ~on /\ operation.status = "completed" /\ operation.contextHash = input
                 THEN returned \cup {<<input, operation.resultData>>} ELSE returned

\* Seeded bug: an operation that is running is dispatched again.
BeginOrReuseRunning(a, input) ==
  /\ asker[a] = NoAsk /\ asks < MaxAsks /\ asks' = asks + 1
  /\ Goes(a, input, operation.status # "completed" /\ operation.contextHash \in {NoInput, input})
  /\ UNCHANGED <<operation, injections, relevant, teachings, outrun, prompts>>

\* beginOrReuseAiOperation reads the row: another fingerprint is a conflict, a
\* completed operation is answered from its row, a dispatched one with nothing.
BeginOrReuse(a, input) ==
  /\ asker[a] = NoAsk /\ asks < MaxAsks /\ asks' = asks + 1
  /\ Goes(a, input, operation.status \in {"none", "failed"} /\ operation.contextHash \in {NoInput, input})
  /\ UNCHANGED <<operation, injections, relevant, teachings, outrun, prompts>>

\* The prompt holds the most relevant; those on record have no order.
Best(items) == {k \in items : Cardinality({j \in items : j < k}) < PromptCap}
Recorded ==
  {prompt \in SUBSET injections :
     Cardinality(prompt) = IF Cardinality(injections) < PromptCap THEN Cardinality(injections) ELSE PromptCap}

\* On with a prompt, or to an error where no employee is there to ask: the
\* operation was recorded all the same.
Dispatches(a, prompt) ==
  /\ asker' \in {[asker EXCEPT ![a].step = "calling", ![a].prompt = prompt], [asker EXCEPT ![a] = NoAsk]}
  /\ outrun' = (outrun \/ operation.status # asker[a].seen)

\* beginAiOperation, with its second read, and the selection of knowledge,
\* recorded once per item whoever selects it.  A row that is there by now is
\* taken for the call's own; one that another transaction is about to commit
\* ends the call by the unique index.
BeginAiOperation(a) ==
  /\ asker[a].step = "found" /\ asker[a].seen = "none"
  /\ \/ /\ operation' = IF operation.status # "none" THEN operation
                        ELSE [status |-> "dispatched", contextHash |-> asker[a].input, resultData |-> NoInput]
        /\ injections' = injections \cup relevant
        /\ Dispatches(a, Best(relevant))
     \/ /\ operation.status # "none" /\ asker' = [asker EXCEPT ![a] = NoAsk]
        /\ UNCHANGED <<operation, injections, outrun>>
  /\ UNCHANGED <<relevant, asks, teachings, prompts, returned>>

\* A failed operation is dispatched again, by id, with the knowledge it had.
RetryOperation(a) ==
  /\ asker[a].step = "found" /\ asker[a].seen # "none"
  /\ operation' = [operation EXCEPT !.status = "dispatched"]
  /\ \E prompt \in Recorded : Dispatches(a, prompt)
  /\ UNCHANGED <<injections, relevant, asks, teachings, prompts, returned>>

CallProvider(a) ==
  /\ asker[a].step = "calling"
  /\ asker' \in {[asker EXCEPT ![a].step = step] : step \in {"answered", "refused"}}
  /\ prompts' = prompts \cup {<<asker[a].input, asker[a].prompt>>}
  /\ UNCHANGED <<operation, injections, relevant, asks, teachings, outrun, returned>>

\* completeAiOperation, by id: an answer that cannot be read is stored as none.
CompleteAiOperation(a) ==
  /\ asker[a].step = "answered"
  /\ operation' = [operation EXCEPT !.status = "completed", !.resultData = asker[a].input]
  /\ returned' = returned \cup {<<asker[a].input, asker[a].input>>}
  /\ asker' = [asker EXCEPT ![a] = NoAsk]
  /\ UNCHANGED <<injections, relevant, asks, teachings, outrun, prompts>>

\* failAiOperation, by id.
FailAiOperation(a) ==
  /\ asker[a].step = "refused"
  /\ operation' = [operation EXCEPT !.status = "failed"]
  /\ asker' = [asker EXCEPT ![a] = NoAsk]
  /\ UNCHANGED <<injections, relevant, asks, teachings, outrun, prompts, returned>>

\* The server goes down; a dispatched operation stays so.
AskerStops(a) ==
  /\ asker[a] # NoAsk /\ asker' = [asker EXCEPT ![a] = NoAsk]
  /\ UNCHANGED <<operation, injections, relevant, asks, teachings, outrun, prompts, returned>>

\* Knowledge is activated, revised or archived.
Teach ==
  /\ teachings < MaxTeachings /\ teachings' = teachings + 1
  /\ relevant' \in (SUBSET Knowledge) \ {relevant}
  /\ UNCHANGED <<operation, injections, asker, asks, outrun, prompts, returned>>

AiNext ==
  \/ Teach
  \/ \E a \in Askers :
       \/ \E input \in Inputs : BeginOrReuse(a, input)
       \/ BeginAiOperation(a) \/ RetryOperation(a) \/ CallProvider(a)
       \/ CompleteAiOperation(a) \/ FailAiOperation(a) \/ AskerStops(a)

AiSpec == AiInit /\ [][AiNext]_aiVars

-----------------------------------------------------------------------------
\* "The key must identify ONE immutable logical request": whatever is retried
\* after failures and while the knowledge changes, all that the provider gets
\* under a key is the one input with knowledge on record for it, the same if
\* a prompt holds all of it; one call at a time asks, and what is returned
\* answers what was asked; unless a call was outrun between its first read
\* of the operation and what it did next.
KeyIsOneRequest ==
  outrun \/
  /\ \A call \in prompts :
       /\ call[1] = operation.contextHash /\ call[2] \subseteq injections
       /\ Cardinality(injections) <= PromptCap => call[2] = injections
  /\ Cardinality({a \in Askers : asker[a].step \in {"calling", "answered", "refused"}}) <= 1
  /\ \A pair \in returned : pair[1] = pair[2]
=============================================================================
