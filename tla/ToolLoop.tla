------------------------------ MODULE ToolLoop ------------------------------
(***************************************************************************)
(* One turn of the native tool-calling loop (chat_v3/executor.py,          *)
(* ToolLoopExecutor.stream): a model proposes a batch of tool calls, the   *)
(* runtime contract lets the batch through, sends it back once to the      *)
(* fallback model or blocks it, the tools run, and the loop asks again     *)
(* until a model answers in text or the rounds are used up.  What the turn *)
(* does with the executor afterwards (chat_v3/service.py) is here as far   *)
(* as it asks models or runs tools: the required availability check and    *)
(* the rewrite of an answer that failed QC.                                *)
(*                                                                         *)
(* A call is a number and a verdict of the contract; tool arguments,       *)
(* outputs and the text of answers are left out.                           *)
(***************************************************************************)
EXTENDS Naturals, FiniteSets, Sequences

CONSTANTS
    MaxToolRounds,  \* MAX_TOOL_ROUNDS
    MaxBatch        \* bound: calls a model proposes at once

ASSUME ToolLoopAssumption ==
    /\ MaxToolRounds \in Nat /\ MaxBatch \in Nat \ {0}

VARIABLES
    pc,
    tools,         \* the executor was given tools
    round,         \* iterations begun
    model,         \* the model asked last
    bound,         \* tools were bound to that request
    issued,        \* calls proposed so far; each has its number
    pending,       \* prepared_calls still to run
    called,        \* calls of the AI messages in self._messages
    resolved,      \* calls with a ToolMessage in self._messages
    ran, blocked,  \* self.tool_calls: the calls that ran, that were blocked
    hasResult,     \* has_tool_result
    fallbackDue,   \* fallback_instruction is not empty
    fallbackUsed,  \* selector_fallback_used
    forced,        \* force_answer_without_tools
    required,      \* the call of run_required_tool, if it was made
    \* history variables (no code reads them)
    tainted,       \* calls proposed in one batch with a denied call
    fallbackAsks,  \* requests to the fallback model
    toolRounds     \* iterations that ran tools

history == <<tainted, fallbackAsks, toolRounds>>
conversation == <<called, resolved, ran, blocked>>
flags == <<hasResult, fallbackUsed, forced>>
vars == <<pc, tools, round, model, bound, issued, pending, conversation, flags,
          fallbackDue, required, history>>

Ended == {"answered", "stopped", "failed", "rewritten"}
Places == {"new", "ready", "waiting", "running"} \cup Ended
Models == {"selector", "composer", "fallback"}

Init ==
    /\ pc = "new" /\ tools = FALSE /\ round = 0 /\ model = "selector" /\ bound = FALSE
    /\ issued = 0 /\ pending = {} /\ called = {} /\ resolved = {}
    /\ ran = {} /\ blocked = {} /\ hasResult = FALSE /\ fallbackDue = FALSE
    /\ fallbackUsed = FALSE /\ forced = FALSE /\ required = {}
    /\ tainted = {} /\ fallbackAsks = 0 /\ toolRounds = 0

-----------------------------------------------------------------------------
(* The loop.                                                                *)

\* The executor of a turn, with the tools of the domains it was routed to.
Bind ==
    /\ pc = "new" /\ pc' = "ready"
    /\ tools' \in BOOLEAN
    /\ UNCHANGED <<round, model, bound, issued, pending, conversation, flags,
                   fallbackDue, required, history>>

NextModel ==
    IF fallbackDue THEN "fallback"
    ELSE IF hasResult \/ ~tools THEN "composer" ELSE "selector"

Asked(m) == fallbackAsks' = fallbackAsks + (IF m = "fallback" THEN 1 ELSE 0)

Ask ==
    /\ pc = "ready" /\ round < MaxToolRounds + 1
    /\ round' = round + 1
    /\ model' = NextModel /\ Asked(NextModel)
    /\ bound' = (tools /\ ~forced)
    /\ fallbackDue' = FALSE
    /\ pc' = "waiting"
    /\ UNCHANGED <<tools, issued, pending, conversation, flags, required, tainted, toolRounds>>

\* The rounds are used up: the composer answers without tools.
AskForAnswer ==
    /\ pc = "ready" /\ round = MaxToolRounds + 1
    /\ model' = "composer" /\ bound' = FALSE
    /\ pc' = "waiting"
    /\ UNCHANGED <<tools, round, issued, pending, conversation, flags, fallbackDue,
                   required, history>>

Answer ==
    /\ pc = "waiting"
    /\ pc' = "answered"
    /\ UNCHANGED <<tools, round, model, bound, issued, pending, conversation, flags,
                   fallbackDue, required, history>>

\* A batch of n calls and those of them the contract denies: the tool is not
\* bound, the guard refuses it or its arguments do not fit the schema.
NewCalls(n) == issued + 1 .. issued + n
Propose(n, denied) ==
    /\ pc = "waiting" /\ bound
    /\ denied \subseteq NewCalls(n)
    /\ issued' = issued + n
    /\ tainted' = IF denied = {} THEN tainted ELSE tainted \cup NewCalls(n)
    /\ UNCHANGED <<tools, round, model, bound, required, fallbackAsks>>

\* A first denied batch is dropped and the fallback model selects again.
Retry(n, denied) ==
    /\ Propose(n, denied)
    /\ denied # {} /\ ~fallbackUsed
    /\ fallbackUsed' = TRUE /\ fallbackDue' = TRUE
    /\ pc' = "ready"
    /\ UNCHANGED <<pending, conversation, hasResult, forced, toolRounds>>

\* Mutant: only the denied calls are answered.
RefuseDeniedCalls(n, denied) ==
    /\ Propose(n, denied)
    /\ denied # {} /\ fallbackUsed
    /\ called' = called \cup NewCalls(n)
    /\ resolved' = resolved \cup denied
    /\ blocked' = blocked \cup denied
    /\ hasResult' = TRUE /\ forced' = TRUE
    /\ pc' = "ready"
    /\ UNCHANGED <<pending, ran, fallbackDue, fallbackUsed, toolRounds>>

\* Mutant: the calls that are not denied run.
RefusePartly(n, denied) ==
    /\ Propose(n, denied)
    /\ denied # {} /\ fallbackUsed
    /\ called' = called \cup NewCalls(n)
    /\ resolved' = resolved \cup NewCalls(n)
    /\ blocked' = blocked \cup denied
    /\ ran' = ran \cup (NewCalls(n) \ denied)
    /\ hasResult' = TRUE /\ forced' = TRUE
    /\ pc' = "ready"
    /\ UNCHANGED <<pending, fallbackDue, fallbackUsed, toolRounds>>

\* Mutant: the tools stay bound.
RefuseGently(n, denied) ==
    /\ Propose(n, denied)
    /\ denied # {} /\ fallbackUsed
    /\ called' = called \cup NewCalls(n)
    /\ resolved' = resolved \cup NewCalls(n)
    /\ blocked' = blocked \cup NewCalls(n)
    /\ hasResult' = TRUE
    /\ pc' = "ready"
    /\ UNCHANGED <<pending, ran, forced, fallbackDue, fallbackUsed, toolRounds>>

\* Mutant: a refused batch does not count as a result.
RefuseSilently(n, denied) ==
    /\ Propose(n, denied)
    /\ denied # {} /\ fallbackUsed
    /\ called' = called \cup NewCalls(n)
    /\ resolved' = resolved \cup NewCalls(n)
    /\ blocked' = blocked \cup NewCalls(n)
    /\ forced' = TRUE
    /\ pc' = "ready"
    /\ UNCHANGED <<pending, ran, hasResult, fallbackDue, fallbackUsed, toolRounds>>

\* A second one is answered for every call with an error, and no tools after it.
Refuse(n, denied) ==
    /\ Propose(n, denied)
    /\ denied # {} /\ fallbackUsed
    /\ called' = called \cup NewCalls(n)
    /\ resolved' = resolved \cup NewCalls(n)
    /\ blocked' = blocked \cup NewCalls(n)
    /\ hasResult' = TRUE /\ forced' = TRUE
    /\ pc' = "ready"
    /\ UNCHANGED <<pending, ran, fallbackDue, fallbackUsed, toolRounds>>

Accept(n) ==
    /\ Propose(n, {})
    /\ called' = called \cup NewCalls(n)
    /\ pending' = NewCalls(n)
    /\ toolRounds' = toolRounds + 1
    /\ pc' = "running"
    /\ UNCHANGED <<resolved, ran, blocked, flags, fallbackDue>>

\* _run_tool, in the order of the batch; a tool that raises has an output too.
\* stop_after_tool looks at the outputs after each call.
RunTool ==
    /\ pc = "running"
    /\ \E c \in pending :
          /\ \A d \in pending : c <= d
          /\ ran' = ran \cup {c} /\ resolved' = resolved \cup {c}
          /\ pending' = pending \ {c}
          /\ \/ pc' = "stopped" /\ UNCHANGED hasResult
             \/ pending' # {} /\ pc' = "running" /\ UNCHANGED hasResult
             \/ pending' = {} /\ pc' = "ready" /\ hasResult' = TRUE
    /\ UNCHANGED <<tools, round, model, bound, issued, called, blocked, fallbackDue,
                   fallbackUsed, forced, required, history>>

\* A model request raises, or the reader of the stream is gone.
Cut ==
    /\ pc \in {"waiting", "running"}
    /\ pc' = "failed"
    /\ UNCHANGED <<tools, round, model, bound, issued, pending, conversation, flags,
                   fallbackDue, required, history>>

-----------------------------------------------------------------------------
(* The turn around it.                                                      *)

\* A preOrder without evidence for its schedule: the availability tool runs,
\* whatever the model did, and a fixed text replaces the answer.  Its
\* ToolMessage joins the conversation, an AI message that calls it does not.
RequireTool ==
    /\ pc \in {"answered", "stopped"} /\ required = {}
    /\ issued' = issued + 1 /\ required' = {issued'}
    /\ ran' = ran \cup required' /\ resolved' = resolved \cup required'
    /\ UNCHANGED <<pc, tools, round, model, bound, pending, called, blocked, flags,
                   fallbackDue, history>>

\* Mutant: a fallback already spent on the selection is not looked at.
RewriteAnyway ==
    /\ pc = "answered"
    /\ ran \cup blocked # {}
    /\ model' = "fallback" /\ bound' = FALSE /\ Asked("fallback")
    /\ pc' = "rewritten"
    /\ UNCHANGED <<tools, round, issued, pending, conversation, flags, fallbackDue,
                   required, tainted, toolRounds>>

\* QC rejects the answer: the fallback model rewrites it, unless it was used.
Rewrite ==
    /\ pc = "answered"
    /\ ran \cup blocked # {}
    /\ ~fallbackUsed
    /\ model' = "fallback" /\ bound' = FALSE /\ Asked("fallback")
    /\ pc' = "rewritten"
    /\ UNCHANGED <<tools, round, issued, pending, conversation, flags, fallbackDue,
                   required, tainted, toolRounds>>

-----------------------------------------------------------------------------
Loop ==
    \/ Ask \/ AskForAnswer \/ Answer \/ RunTool \/ Cut
    \/ \E n \in 1 .. MaxBatch :
          \/ Accept(n)
          \/ \E denied \in SUBSET NewCalls(n) : Retry(n, denied) \/ Refuse(n, denied)

Next == Bind \/ Loop \/ RequireTool \/ Rewrite

Spec == Init /\ [][Next]_vars

-----------------------------------------------------------------------------
(* Properties.                                                              *)

\* Every variable keeps its type; no round beyond the last.
TypeOK ==
    /\ pc \in Places /\ tools \in BOOLEAN /\ round \in 0 .. MaxToolRounds + 1
    /\ model \in Models /\ bound \in BOOLEAN
    /\ issued \in Nat /\ pending \subseteq Nat
    /\ called \subseteq Nat /\ resolved \subseteq Nat /\ required \subseteq Nat
    /\ ran \subseteq Nat /\ blocked \subseteq Nat /\ tainted \subseteq Nat
    /\ hasResult \in BOOLEAN /\ fallbackDue \in BOOLEAN
    /\ fallbackUsed \in BOOLEAN /\ forced \in BOOLEAN
    /\ fallbackAsks \in Nat /\ toolRounds \in Nat

\* A model is never asked with a tool call in the conversation that has no
\* result, or a result of no call: a batch is retried, refused or run whole.
\* (The rewrite after a required tool is the exception, see RequireTool.)
RequestsAreWhole ==
    pc = "waiting" \/ (pc = "rewritten" /\ required = {}) => called = resolved

\* No call of a batch that holds a denied call runs, not even its allowed ones,
\* in whatever round and whoever proposed it.
OnlyCleanBatchesRun == ran \cap tainted = {}

\* The stronger model is asked at most once a turn, for a rejected selection or
\* for a rejected answer.
OneFallbackRequest == fallbackAsks <= 1

\* After a refused batch no tool the model chose runs in this turn.
QuietAfterRefusal == [][blocked # {} => ran' \subseteq ran \cup required']_vars

\* What a tool found is told by the composer or the fallback model: the cheap
\* selector never has the last word once a call ran or was blocked, unless a
\* fixed text replaces it.
SelectorNeverTellsResults ==
    pc = "answered" /\ required = {} /\ ran \cup blocked # {} => model # "selector"

\* How often tools run: in no more than MaxToolRounds + 1 rounds of a turn,
\* whatever is retried, refused or stopped.  That is NOT what the documentation
\* says ("Max **4 rounds**, then a forced" answer, chat_v3/README_EN.md:153, for
\* MAX_TOOL_ROUNDS = 4): the range of the loop is MAX_TOOL_ROUNDS + 1, and tools
\* are bound in every round of it.
ToolRoundsBounded == toolRounds <= MaxToolRounds + 1

=============================================================================
