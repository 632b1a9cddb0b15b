# Verification of the T-Station chat service

TLA+ modules, TLC configurations and TLAPS proofs for the T-Station AI chat agent
(`src/app/tstation-ai`) and its FAQ ingestion worker
(`src/app/tstation-ingestion`). Paths below are relative to `src/app/tstation-ai/`
unless they start with `src/`; `chat_v3/` and the other service packages are under
`services/tstation/`.

Contents: 1 the system, 2 the modules and the code, 3 the runs, 4 fairness and
assumptions, 5 the proofs, 6 what the checks found, 7 what is not modelled,
8 the plan.

## 1. The system

The service answers customers of a tire shop. A browser posts a message; the API
process locks the session in Redis, runs one *turn* of the chat runtime (router,
tool loop, answer checks, UI card), streams its events back and stores the
answer. Redis keeps everything that lives longer than a request. There are
several API worker processes, so an `await` is a point where any other request
may run, and a Redis command is the only atomic step two requests share.

| Component | State | Operations | What is hard |
|---|---|---|---|
| Chat API session layer: `api/tstation/chat_message.py` | `chat:streaming`, `chat:abort`, `chat:action:quick_order` (dedup), per-generator flags | chat (stream or not), quick order, append, abort, delete | a lock with a TTL and an unowned DEL, cleanup in `finally` under cancellation, saves that raise after they were applied, an abort flag that outlives its turn |
| Session directory: `chat_history_service.py` | set of a user's sessions, hash per session, messages | create, save, list with orphan cleanup, delete | two keys changed by separate commands without a lock |
| Rolling summary: `history_summarizer.py`, `get_history_for_llm` | `chat:summary`, `chat:summary_lock` | background refresh after each answer, prompt read | positions counted in one command and used seconds later, messages that land out of order, a prompt read by two commands |
| Tool loop: `chat_v3/executor.py` | the message list of the turn, flags | ask, retry, refuse, run a batch, stop, force an answer | every call of a batch needs a result before the next request, one retry, a round budget |
| Turn pipeline: `chat_v3/service.py` | slots, tool context, chips of the turn | a dozen branches that emit, save and end | the order of `[DONE]` and the saves, an exception after a tool had its effect |
| Slots: `schemas/tstation/slots.py`, `chat_v3/slots/` | the customer's choices, `chat:meta` field `slots` | merge, derive, load, save | dependency resets while merging, read-modify-write |
| Tool context: `chat_v3/memory.py` | `chat:tool_ctx` | merge, load | read-modify-write, truncation |
| Schedule gate: `chat_v3/schedule_validation.py` | none | is there evidence that the installation slot is free? | evidence of an earlier turn |
| Router and guards: `chat_v3/router/` | none | classify, correct, choose tools | rules that override each other |
| Monthly quota: `quota_service.py` | a counter per user and month | check, charge, reconcile | check-then-act, month rollover, overwriting |
| Order card: `chat_v3/templates.py` | the card shown | harvest of tool calls, four sources of a card | sources that ask for different evidence |
| Task records: `services/queue.py`, `schemas/queue.py` | one JSON record per task | create, worker updates | polls and cancellations exist but no application mounts their routes |
| FAQ index: `src/app/tstation-ingestion/tasks`, `api/tstation/faq_sync.py` | a Qdrant collection behind an alias | full ingestion, incremental sync, periodic fetch, push, start-up | an alias swapped and a collection deleted under another worker, partial answers, three owners of the points |
| Text and wire: templates, QC, policies, V2 runtime, generated client | none between turns | format, match, call | language, not state |

How they interact: the API layer calls the session directory to find or create
the session and to store messages, `get_history_for_llm` for the prompt, the
turn pipeline for the events (through `TStationChatServiceV2.chat`, which hands
over to chat_v3 while `AI_CHAT_V3_PURE_LLM_ENABLED` is on, `config/env.py:80`),
and starts a `refresh_summary` task after each stored answer. The turn pipeline
loads slots and tool context, runs the tool loop and saves both. The FAQ
endpoint writes a task record and sends a Celery task; the ingestion worker
updates the record and the index, which the support tools search.

What makes each component correct:

- **API layer**: one turn at a time per session; no path but a fault leaves the
  lock behind, and then only for its TTL; an answer is stored once, and is stored
  when its client was told the turn is done; a button orders once; an abort hits
  the turn it was meant for; what is deleted stays deleted.
- **Session directory**: a session that exists is listed; nothing is left that
  no deletion can reach.
- **Rolling summary**: the summary stands for exactly the messages it covers; a
  prompt leaves nothing out; work is neither undone nor repeated.
- **Tool loop**: no request with an unanswered call; a batch with a denied call
  has no effect; one retry; bounded rounds.
- **Turn state**: what a turn told its customer it did is known to every later
  turn; a deleted session starts from nothing.
- **Order flow**: the amount belongs to the product, and an order card names a
  shop and a day that an availability answer listed.
- **Quota**: the excess over the limit is bounded by the turns in flight; nobody
  is charged for more than was used.
- **FAQ index**: searches always find a collection; each source deletes only
  what it owns; the files' part is the files, the Oracle part becomes the table.

## 2. Modules and code

| Module | Models | Role |
|---|---|---|
| `ChatSession` | `api/tstation/chat_message.py`, saves of `chat_history_service.py` | the handlers of one session, one action per stretch between awaits |
| `SerialTurns` | - | abstract: turns hold the session one after the other and record at most one answer each |
| `MCChatSession` | - | kinds of requests and symmetry for TLC |
| `ChatSessionProofs` | - | theorems of `ChatSession`: types, lock, unlocking, stored answers, orders, the refinement of `SerialTurns` |
| `RollingSummary` | `history_summarizer.py`, summary part of `chat_history_service.py` | summarizer tasks, messages, deletions, prompts |
| `MCRollingSummary`, `RollingSummaryProofs` | - | instances; theorems |
| `ToolLoop` | `chat_v3/executor.py`, its use in `chat_v3/service.py` | one turn of the loop |
| `Router` | `chat_v3/router/`, choice of tools in `chat_v3/tools/` | the rules that correct the routing model, as operators |
| `RoutedTurn` | `chat_v3/service.py` | `Router` and `ToolLoop` composed: from the message to the answer |
| `ToolLoopProofs` | - | theorems of `ToolLoop`, and that a routed turn is one of its turns |
| `SessionDirectory` | `chat_history_service.py`, endpoints of `chat_message.py` | one Redis command per action |
| `SessionDirectoryProofs` | - | theorems of `SessionDirectory` |
| `TurnState` | `chat_v3/service.py`, `slots/store.py`, `memory.py`, saves of `chat_history_service.py` | what the turns of a session leave for the next one |
| `MCTurnState`, `TurnStateProofs` | - | instances; theorems |
| `OrderFlow` | `schemas/tstation/slots.py`, `slots/derive.py`, `schedule_validation.py`, order part of `templates.py` | an order taken over several turns |
| `MCOrderFlow`, `OrderFlowProofs` | - | instances; theorems |
| `Quota` | `quota_service.py`, its callers | the monthly counter of one user |
| `MCQuota`, `QuotaProofs` | - | instances; theorems |
| `FaqIndex` | `src/app/tstation-ingestion`, `api/tstation/faq_sync.py` | the jobs on one index |
| `MCFaqIndex`, `FaqIndexProofs` | - | instances; theorems |

Definitions whose comment starts with "Mutant" are faulty forms of the
definition that follows them. No specification uses them; they show that each
property notices a bug in the definition it depends on.

### ChatSession

`lock`, `abortKey`, `dedup` and `history` are the Redis keys; `pc`, `chunks`,
`captured`, `saved` the local state of a handler; `outcome` what its client was
told. `lock` remembers who set the key, which Redis does not: no action reads
the owner, except `LockExpires`, which counts an expiry under a holder that is at
work as an overrun, and history variables. Those are `lost` (the requests whose
key went while they were at work), `harmed`, `replyLost`, `deletedSince`,
`toldAborted` and the counters.

| Code | Actions |
|---|---|
| `chat`, up to the lock (447-513): the user message is stored and the prompt read *before* SET NX | `SaveUser`, `ReadHistory`, `Acquire`, `Busy` |
| `stream_chat_response` (538-641) | `StartStream`, `Chunk`, `LastChunk`, `AbortSeen`, `TurnRaises`, `SaveBeforeDone`, `SendDone`, `CleanupSave`, `Release` |
| `chat` without stream (513-530): unlocks, then saves | `SyncAnswered`, `SyncUnlock`, `SyncSave` |
| `quick_order_action` (644-830) | `Acquire`, `CheckDedup`, `RefuseDuplicate`, `NoteOrder`, `ValidateOrder`, `PlaceOrder`, `AnswerOrder`, `SendOrderDone`, `CloseOrder`, `BackgroundSave` |
| `append_message`, `abort_stream`, `delete_session` | `AppendMessage`, `AbortAsked`/`AbortSet`, `DeleteSession` |
| TTLs of 120, 30 and 120 s | `LockExpires` (of a leaked key, or under a turn that takes longer), `AbortExpires`, `DedupExpires` |
| Redis errors, disconnects at a `yield` or in an `await`, cancellation, killed workers | `SaveFails`, `UnlockFails`, `ClientGone`, `ClientGoneInAwait`, `CutShort`, `WorkerDies` |
| the thread of `asyncio.to_thread` (568) that a cancelled save leaves behind | `ThreadSaves` |

A save that raises may have been executed (a socket timeout after the pipeline
was sent). A disconnect closes a generator suspended at a `yield`, whose
`finally` then runs in peace, or cancels it in an `await`, and then each await of
the `finally` is cancelled again (`cut`). A cancelled save has started its thread
or not (`SaveAdrift`); a thread that has started goes on without its handler
(`adrift`), which does not learn of what it stores and stores the answer again.
A turn has no deadline, so the key may expire under it and let the next turn in;
each handler then deletes the key of whoever holds it (`Unlock`), so that a turn
that has lost its key may take the next one's: `overruns` counts expiries only,
what follows from them is not bounded. Chunk contents are reduced to whether
there is an answer to store.

`SerialTurns` is what is left of serial turns then: a turn begins only when all
that are still at work are in overtime, that is, have lost the session, and only
the end of one in overtime puts another one there.

### RollingSummary

Messages are numbers in storing order; a summary is the count it covers and the
set of messages its text was made from, so that "the text summarizes what the
count says" can be stated. `StoreMessage` inserts up to `MaxLate` places before
the end, because the score is the clock of the process that saves
(`chat_history_service.py:253`). `Start` to `Release` are `refresh_summary`, one
action per Redis command or LLM call; `StartPrompt` and `FinishPrompt` the two
commands of `get_history_for_llm`.

### ToolLoop

Calls are numbered as they are proposed. `Retry`, `Refuse`, `Accept` are the
three fates of a batch (lines 201-242), `Ask` the choice of model and the
binding of tools, `AskForAnswer` the request after the last round, `Bind` the
construction of the executor. `RequireTool` and `Rewrite` are what the turn does
with the executor later. Which calls are denied is any choice; so is where
`stop_after_tool` stops.

### Router and RoutedTurn

A decision of the routing model is a guard, a set of domains and a list of
intents; the eight rules of `route.py` are operators from decision and message
to decision, and `Routed` is their chain in the order of `route_request`. A rule
that takes an intent out of the middle of the list leaves the placeholder
`"other"` there, which answers nothing; the order of the rest is what counts. A
message is what the rules and the gates on the text (`policies/`) find in it.
`AnswerOf` is what `_run_turn_impl` does with the result: the guard's text, the
first intent that is the key of a static FAQ, or the loop. `RoutedTurn` starts
from any message and any decision of the model (`Decide`) or none
(`RouterFails`), and enters `ToolLoop` by its `Bind` with the tools of the
decision (`Enter`), after which the decision is not needed and is dropped.

### SessionDirectory

`listed`, `meta`, `messages` are the keys; a hash without `user_id` is
`"partial"` (a field written into a hash that was deleted). Requests are loops
of `Proc`; each action is one command or one MULTI pipeline. `raced` records the
sessions created while a cleanup or a deletion of the same id was about to
remove them from the set.

### TurnState

`slots` and `ctx` are the two Redis values; `mine`, `calls`, `existing` the
variables of `_run_turn_impl` and `finalize_chat_context_async`. A turn is
`Begin`, `Load`, `Route`, then one of the branches: `guarded` (guards and static
FAQs, which know the card click but save before the router's patch is applied),
`short` (the redirect of a store visit) and `tools` save before they tell; the two
`staggered` branches before the tool loop tell first (`SendDoneEarly`), and for a
stream the reader closes the generator there (`api/tstation/chat_message.py:602`).
`SaveSlots`, `ReadContext` and `WriteContext` are one Redis command each and may
fail, with or without effect; a failure while the context is persisted is only
logged (`GiveUp`), one while the slots are read gives empty slots (`Load`). Quick
orders write the context first and then add a note to the slots (`Order`,
`NoteAttempt`). The merge of two tool contexts, which keeps the newest result of
each key and as many as there is room for, is written by places: `Firsts` are the
places of the sorted list at which a key appears first, `Nth` the n-th of them,
`Deduped` the results there. A choice is a fact of the turn that made it, because
what a new choice resets is the subject of `OrderFlow`.

### OrderFlow

`slots` is stored, `base` and `work` are the slots before and inside the tool
loop. `Begin` is a card click (`apply_fe_slots`), `Route` the router's patch
(`apply_patch`), `CallTool` one call with arguments of the model's choice and the
derivation in `stop_after_tool`, `CheckSchedule` the gate with its four outcomes,
`HarvestCall` one round of `harvest_order_slots`, `Show` the choice among the four
sources of the order card, `Save` and `Drop` the two ends. `AnswerShort` is a turn
that ends before the loop, `AnswerStopped` one whose calls showed a vehicle with
different tires in front and behind (`service.py:1190`): it saves the derived
slots and the calls and harvests nothing. `UserResets` and `RuntimeResets` are the
tables of `ConversationSlots`, on the fields that name an order. Where the code
compares names, the model leaves open whether they differ; where it asks whether a
size is known or a product search is skipped, that is open too. At most `MaxStray`
arguments of a call may differ from the slots. The calls of a batch that follow a
denied one are allowed although the executor answers them without running them:
the model has more behaviours there.

### Quota

`used` is the counter of each month's key, `spent` what Langfuse has seen, `cost`
what a turn's tracker has summed. `CheckExempt`, `CheckCounter`, `Spend` and
`Charge` are the four moments of a turn; `ReadReal` and `WriteReal` the two halves
of the reconciliation, which in this repository only an operator and tests call.
Its window is made from Korean time labelled as UTC (`quota_service.py:169`), so
that what was spent in the first nine hours of a month is not in the total:
`ReadReal` takes any total up to what was spent. `Spend` is all LLM calls of a
turn, in one month; in the code they are separate calls, which may fall on both
sides of the end of a month. `uncharged`, `carried`, `loose` and `raced` are
history variables that name the reasons for a difference between `used` and
`spent`.

### FaqIndex

`alias` and `colls` are Qdrant, `oracle` the shop's table, `files` the two FAQ
files of the running image; `work` holds the local variables of each job. `Submit`
and `Beat` send messages, `Take` and `FetchOracle` begin a job, `Resolve` to
`Erase` are `_run_incremental_sync`, `Create` to `DropOld` are `_run_ingestion`;
each is one call to Qdrant or the backend, but for the scroll of the whole
collection (`qdrant_service.py:512-537`), whose pages are one read. The source of
a pushed document is the client's (`api/tstation/faq_sync.py:65`): `"push"` stands
for every source that no other job uses, and a push may also claim that of the
fetches or of the files. `counted` is what the backend's `total` counts, which the
code compares with the rows of the answer (`faq_fetch_task.py:49`): the table, or
the rows of the answer, as the generated client has it
(`models/faq_list_response.py:20`); it never changes. `Write` takes any non-empty
part of what is left, so that every division into batches and every failure
between two is there. `Retry`, `Lost` and `Restart` are Celery's retries, a killed
process (acknowledged as lost) and a replaced container (delivered again).
`start.sh` stops at the first error, so no worker runs before a reconciliation
went through (`Booted`). Left out: the branch of `swap_alias` for a legacy
collection and the count check of `_run_ingestion`, neither of which a run of the
model can reach (a legacy collection means no full ingestion; the points of a
fresh collection are written by its job alone), and the orphan collections that a
failed ingestion leaves.

## 3. Runs

| Run | Instance | Shows |
|---|---|---|
| `chat_core` | 2 requests of every kind, 1 fault, 1 turn that outlives its lock, 1 deletion, 1 abort, 1 expiry of the dedup key, 2.8M states | `OneTurnAtATime`, `AnswerStoredOnce`, `DoneMeansStored`, `StreamStoresUnderLock`, `LockLeftOnlyByFault`, `OrderPlacedOnce`; `ChatSession` implements `SerialTurns` (`TurnsAreSerial`) |
| `chat_live` | 2 requests of every kind, 1 fault, 1 turn that outlives its lock, fairness, 0.1M | `LockEventuallyFree`, `EveryRequestEnds`, `OrderEventuallyStored` |
| `summary_core` | 2 tasks, 4 messages, one late message, deletion, expiry and crash each, fairness, 1.1M | `OneSummarizer`, `SummaryIsThePrefix`, `PromptHasEveryMessage`, `DeletedAreForgotten`, `SummaryAdvances`, `SummaryLockFreed` |
| `tool_loop` | every message, every decision with at most 2 intents and one of 2 sets of domains, the real 4 rounds, batches of up to 3 calls, 0.3M | `AnswerHasGround`, `RequestsAreWhole`, `OnlyCleanBatchesRun`, `OneFallbackRequest`, `SelectorNeverTellsResults`, `QuietAfterRefusal` |
| `sessions` | 2 requests at a time, 2 sessions, 1 crash, fairness, 0.1M | `UnlistedOnlyByRace`, `MessagesHaveMeta`, `OrphansGo` |
| `turn_state` | 2 requests of every kind, 2 faults, 1 overlap, 1 deletion or expiry, 2 calls of 3 kinds and room for 2 results, 4.9M | `ChoicesKept`, `ResultsKept`, `DeletionForgets`, types |
| `order_flow` | any number of turns, 2 products, 2 shops, 1 day, hour and quantity, 1 call of the models per turn, 7.1M | `AmountIsOfTheGoods`, `CardIsVerified` |
| `quota` | 2 requests at a time, 2 months, limit 2, 11.3M | `OverrunBounded`, `NoOvercharge`, types |
| `faq_index` | 1 push of any of 2 bodies, 2 fetches, start-ups of 2 images, 3 pushes to a name of their own, 1 error, kill or restart, 1 edit, fairness, 1.4M | `LiveCollectionStands`, `FilePartIsTheFiles`, `PushedStays`, `RowsStay`, `IndexConverges` |
| `abort_stale`, `push_lost`, `order_card` | as small as shows it | violations, section 6 |

`TypeOK` is proved for every instance (section 5). Most runs leave it out. In
`quota` and `turn_state` it is checked as well: there it says what a turn can
charge at most, and that the merged tool context is never over its limit.

Bounds. In `ChatSession` two requests suffice for two handlers that interfere. One
overrun puts both at work at once, and the unlock of the first takes the key of
the second; that a third is let in by this is beyond two requests, and every
property of `chat_core` is proved without bounds. A stream of one chunk and the
last one, with `AbortEvery` 2, has a chunk at which the abort key is read and one
at which it is not (the code reads every fifth). `chat_core` takes requests for
interchangeable, as its properties and its initial states do; `chat_live` does
not. One fault at any of its places reaches every `finally` branch.
`RollingSummary` keeps the relations of the constants (minimum above kept,
interval above one) with 2, 2 and 1 for 6, 4 and 4; with four messages a first
summary and an update both happen. `ToolLoop` has the real number of rounds; a
batch of three has a call before, at and after a stop. In `Router` two intents are
what puts one FAQ before another, and the domains matter only for whether there
are tools. `SessionDirectory` and `OrderFlow` serve any number of requests or
turns one after the other. In `OrderFlow` two products and two shops are what a
reset tells apart; the day of another shop is the case of a stale schedule. In
`TurnState` a second request is what finds, loses or overwrites what the first one
left; two results fill the context (20 in the code). In `Quota` a limit of two
with turns of at most one token lets two requests pass the check together at the
last token. In `FaqIndex` one answer of the backend shows one row (`Limit`) and
the table has one or two, so that whole and partial answers both occur; `MCInit`
tries the larger table and a name of its own with the first image only, a leftover
collection only with the smaller table, and a `total` that counts the answer only
with the larger. Three pushes to a name of their own are what it takes to lose a
collection under a sync (`Vanished`). A push sends a document of its own beside
one that claims an id and the source of the files, or one that claims the source
of the fetches; with two fresh collections an incremental sync can lose the one it
writes to; a third full ingestion that overlaps two others waits for a name.

Deadlock is checked in `sessions`, `quota`, `order_flow` and `order_card`, whose
actors go on for ever; the other runs stop on purpose when their bounds are used
up.

## 4. Fairness and assumptions

- `ChatSession!FairSpec`: a started handler and a created task go on (the event
  loop schedules every ready coroutine; the LLM client, the tools and the Redis
  client have timeouts), the thread of a cancelled save ends, and Redis expires
  keys. Nobody has to send a request, disconnect or abort. Each handler has one
  weak fairness condition over all its steps.
- `RollingSummary!FairSpec`: a started task goes on; Redis expires keys.
  Creating tasks is not fair, because a task that does not get the lock is
  dropped.
- `SessionDirectory!FairSpec`: requests make their next step and the user opens
  the list again and again (strong fairness of `List`, since a request slot may
  be busy in between). `OrphansGo` depends on that: orphans are removed only by
  listing.
- Nothing is assumed of how long a turn takes. The tool loop has no deadline, so
  a turn may outlive the 120 s of its lock: any number of times in the proofs,
  `MaxOverruns` times in the runs. `OneTurnAtATime`, `StreamStoresUnderLock` and
  `SerialTurns` say what then still holds, and in terms of which requests lost
  their key; `LockLeftOnlyByFault`, `OrderPlacedOnce`, `DoneMeansStored` and
  `AnswerStoredOnce` do not depend on it.
- `TasksFitTTL`: a summarizer does not outlive its lock. Its only long step is one
  LLM call with a timeout of 30 s against a lock of 120 s.
- `FaqIndex!FairSpec`: beat never stops, and some start-up or fetch that can go on
  does; a single fetch may wait for ever. Nothing is assumed of pushes, and
  `Raise`, `Lost` and `Restart` need no fairness: they are bounded faults.
- `DocsAssumption` in `FaqIndex`: tables are finite, and the ids of the Oracle rows,
  which are UUID5s of a namespace of their own (`faq_fetch_task.py:27`), are not
  those of the files or of pushes. A push may use the ids of the files, and any
  source.
- `MaxCalls`, `MaxContext` at least 1 in `TurnState`: a quick order stores the
  result of one call, and the context has room for a result
  (`_MAX_TOOL_CONTEXT_ITEMS` is 20).
- `Furnished`, the hypothesis of two theorems of `FaqIndex`: every image has FAQ
  entries, as the two data files of the repository do. An image without any
  builds nothing at start-up; the first jobs of its worker may then build a
  collection each, and the last swap of the alias drops the others.
- `MaxLate <= Keep`: a message lands at most as many places before the end as
  messages are kept out of the summary. With larger clock skew between workers
  a message may land inside the covered prefix and be in no prompt.

## 5. Proofs

Each theorem holds for every number of requests, tasks, sessions and messages
and every bound. Every safety invariant and action property of a run has one.

**ChatSessionProofs.** `TypeCorrect`. `Places`: each kind of request stays at its
places, and a thread that nobody awaits belongs to a stream that was cancelled.
`MutualExclusion` (`OneTurnAtATime`): the property is not inductive, since nothing
in it says where a holder's key is; the invariant `KeyInv` is (whoever is at work,
with a handler or only a thread, and has not lost the key owns it, and no key is
lost before an overrun), and implies it. `EveryStepKeeps` classifies the steps by
what they do to the key: nothing, a SET, the DEL of one that ends, an expiry.
`EveryPathUnlocks` (`LockLeftOnlyByFault`): together with "only a disconnect puts
a request under cancellation" it is inductive for any TTL. `DoneIsStored`
(`DoneMeansStored`): the invariant `DoneInv` says that `assistant_saved` tells the
truth (`FlagTellsTruth`), that nothing is captured before the start, that a stream
past its save has saved, and where a request that was told "done" can be; it needs
neither the lock nor its TTL. The other four theorems first classify the steps by
what they can do to their variables (`EveryStepOrders`, `EveryStepStores`,
`EveryStepTurns`), so that only the few kinds that matter are argued about.
`OneOrder` (`OrderPlacedOnce`): `OrdersPaid` counts, for each button, orders
placed and requests that may still place one against the dedup key and its
expiries; only `CheckDedup` adds to one side, and sets the key with it.
`OneAnswer` (`AnswerStoredOnce`): `CopyInv` counts the copies that are stored with
the saves that can still come (`Owed`: two of the handler at most until its flag
is set, one of each thread) and finds two at most, one if no reply was lost.
`Refinement` (`TurnsAreSerial`): the holders of `SerialTurns` are the requests at
a place where they work in the session, those in overtime the ones that lost their
key, its record the streams whose handler knows its answer stored; each step of
`ChatSession` is a step of `SerialTurns` or a stutter, by `KeyInv` and `Places`.
`StoredUnderLock` (`StreamStoresUnderLock`): whoever stores a streamed answer,
handler or thread, is at work, and so owns the key or has lost it.

**RollingSummaryProofs.** `TypeCorrect` with `Ahead` (a task that counted enough
messages has a positive target, so `covered_count` is never negative).
`Exclusion` from `LockHeld`. `PrefixSafe`: `AllPrefixed` says of the stored
summary, of the base a task found and of the batch it read that each is the
prefix, or the stretch, it counts as; an insertion at most `Keep` places before
the end leaves these prefixes alone, which is where `MaxLate <= Keep` enters.
`Advances` from `BaseIsCurrent` (the summary a working task found is still the
stored one, or gone). `PromptsComplete` from `Promised`: after the first command
of a prompt, what was there is in the summary read or behind its count.
`DeletionForgets` (`DeletedAreForgotten`) from `Forgotten`: a deleted message is
neither in the history nor in the summary, nor in what a task holds of them, and
a task that is not at work holds nothing.

**ToolLoopProofs.** One invariant, `Inv`: calls are numbered below `issued`
(`Numbered`); between batches called and answered calls agree, inside one they
differ by the pending calls (`Whole`); pending and run calls are untainted
(`Clean`); a fallback request was paid for by the flag (`Paid`); after a refusal
no tools are bound (`Quiet`); a selector request precedes any result (`Told`).
Seven theorems follow: one for each property of the loop, its types and the number
of its rounds. `RoundsBounded` (tools run in at most `MaxToolRounds` + 1 rounds,
one more than the documentation says, section 6) counts the rounds that ran tools
against those begun; no run checks it. `TurnsAreLoops` (`TurnSpec => Spec`)
carries them over to routed turns. `GroundedAnswers` (`AnswerHasGround`): a
decision never changes, so the invariant (`Decided`) only says that it is what the
rules make of some answer of the model, and the work is one lemma per rule. The
first rules only clear a guard or set the one of the day (`CheckedFacts`); each
gate on the text puts its FAQ first or finds it named (`FaqFacts`), which after
all of them leaves the first FAQ that of a gate, or the model had named every
gate's FAQ itself (`Heard`, `FaqHeard`); the pickup rule also takes FAQs out, but
only its own two, and only if it has not fired (`PickupFacts`). The theorem is for
any set of domains and any number of intents; a run names two.

**SessionDirectoryProofs.** `OnlyRacesUnlist`: a race in progress is recorded
(`RacesNoted`), a session being described was added or raced (`AddedFirst`) and
a cleanup's victims have no hash unless raced (`UnlistsOrphans`).
`MessagesKeepMeta` is inductive with the types.

**TurnStateProofs.** `ChoicesStay` (`ChoicesKept`) in three layers: the types of
what the choices depend on (`Typed`); the flow of control (`Flow`: requests
begin in order, one is at work unless one outlives the lock, and which branch
can be where); and the argument proper (`Kept`). In `Kept`, `NothingDropped`
says that what is stored is in the slots of the request that will overwrite
them, `Ready` that a request that is about to save has what it promises,
`Stored` that past the save it is there. The property alone is not inductive: it
says nothing of the request at work, whose save replaces everything. `SlotsGrow`
is the step from these to "nothing a finished turn promised is lost".
`TypeCorrect` adds the tool context, whose merge gives a list of results again
(`Rest`, `MergedType`) with no more of them than there is room for (`Fits`,
`MergedFits`). `CallsFlow` says which branch can have calls, and
where. `DeletedIsForgotten` (`DeletionForgets`): unless a request that began
before a deletion saved after it (`revived`), what is stored and what every
later request holds is of turns after it (`Forgotten`). `ResultsStay`
(`ResultsKept`) is about the merge. `DedupedFacts` and the four lemmas after it
say what `Deduped` makes of a sorted list: items of the list, sorted, one of
each key, each item covered by itself or a newer one of its key, and as many as
fit, those left out being older than all that are kept. They rest on `RankFacts`
and `NthFacts`: the n-th smallest of a set of places is the one with n of them
up to it. The invariant is that the stored context is in that form and nothing
in it is newer than the request at work (`Orderly`), and that what a request
wrote is covered by what is stored and by what another one has read to merge
(`Covering`): the property alone does not know that the latter will replace the
former.

**OrderFlowProofs.** `AmountOfTheGoods` (`AmountIsOfTheGoods`): in each of the
three copies of the slots an amount has the product it was asked for (`Priced`),
and calls that did not fail were asked of a product (`Asked`); the lemmas say
that every merge, reset, derivation and harvest keeps it. `CardsAreVerified`
(`CardIsVerified`) from `CheckedInv`: a verdict "free" is about a shop and day
that an answer listed, nothing is shown before its time, and without a check no
call asked for the card of a complete order.

**FaqIndexProofs.** `AliasStands` (`LiveCollectionStands`): a full ingestion owns
the collection it fills until it swaps (`Owned`), nobody finds a collection that
was not created (`Known`), and what is about to be dropped is not live
(`Replaced`). One lemma per action; `Calm` is the common argument of those that
touch neither alias nor collections. Three layers on top of it give the rest, each
proved from those below. `Loaded`: what messages, collections and jobs carry (the
source of a document fits its id, or a push sent it so; a job deletes only what
its source owns, what start-up is to write or delete is the difference between the
files and the index it read). `Placed`, for the default name and an image with
entries: only start-up ever builds a collection, it does so before the worker
runs, and then the name leads somewhere for good, so that an incremental sync
works on what searches find. With `LiveStep` (from then on only batches and
deletions of incremental syncs change what searches find) every property becomes
one about two kinds of steps. `FilesAreServed` (`FilePartIsTheFiles`): during
start-up the file part is the files, and what pushes claim to be theirs, but for
what start-up has still to write and to delete (`Reconciled`). `RowsRemain`
(`RowsStay`): only a fetch deletes rows, and none that is in its answer, which is
the whole table if `total` counts the table or one answer shows it. `PushesStay`
(`PushedStays`): a document of a push under way is in its list of things to write
or in the index in a version some push sent (`Arrived`), and no fetch or start-up
may delete it as long as no push gave it the source of another job (`PushOnly`).
The last two assume `Furnished` (section 4).

**QuotaProofs.** The two properties compare sums over the requests under way,
and a sum over a set is a fold, about which the provers know nothing. `Total`
adds the weights in a fixed order of the requests (`Partial` holds the sums up
to each place); `InductionOnNat` is induction over a set of numbers, without an
operator parameter, from the well-foundedness of the natural numbers. From it
come the four facts the proof uses: sums exist (`TotalOf`), grow with their
weights (`TotalOrdered`), of equal weights are products (`TotalConstant`), and
change by what one weight changes (`TotalChanged`). `NobodyIsOvercharged`
(`NoOvercharge`): what was charged to a month and what is in flight for it is at
most what was spent in it and carried into it (`Charged`), where a
reconciliation writes a total that lacks what was spent since it was read
(`Read`). `OverrunIsBounded` (`OverrunBounded`): the other way round, what was
spent is in the counter, in flight or not charged (`Accounted`), and the counter
with all that the requests past the gate may still charge is less than the limit
and a turn of each (`Bounded`); a month that is over keeps the bound it ended
with (`Past`), one to come is empty (`Future`). Neither property is inductive,
since neither mentions what is in flight. Each action moves one request or none
(`OneMoves`).

Only model-checked: the liveness properties (`LockEventuallyFree`,
`EveryRequestEnds`, `OrderEventuallyStored`, `SummaryLockFreed`, `OrphansGo`,
`IndexConverges`), whose proofs need fairness and so `ENABLED`, which the prover
does not support.

## 6. What the checks found

1. `abort_stale`: the abort key belongs to the session, lives 30 s and is
   cleared only by a stream that reads it. An abort that comes too late for its
   turn, or between two fifth chunks of its last ones, ends the *next* turn
   (`api/tstation/chat_message.py:595`). The same window makes the endpoint
   answer `aborted: true` for a turn that completes (line 976).
2. `push_lost`: two first pushes to a `collection_name` of their own both find no
   collection and ingest fully; the second swap of the alias drops the first
   one's collection, and with it documents whose task said SUCCESS
   (`src/app/tstation-ingestion/tasks/faq_sync_task.py:166`).
3. `order_card`: a schedule check that says no keeps the first two sources of the
   order card from being shown, and the answer says that the order was not taken
   further; the third, the rich card of a preview or a final price call of the
   same turn, is shown all the same (`chat_v3/templates.py:2106`).

Seen while modelling, not runs of their own:

- A session deleted during a turn has the turn's answer afterwards, in a hash
  without owner (`api/tstation/chat_message.py:1007`).
- A summarizer at work when its session is deleted stores the summary of the
  deleted messages (`history_summarizer.py:138`); a new session of that id gets
  it in its prompts.
- A listing that meets a session between the SADD and the HSET of its creation
  removes it from the user's list for good (`chat_history_service.py:359`).
- `chat_v3/README_EN.md:153` says "Max 4 rounds, then forced no-tools final
  answer"; the loop runs `MAX_TOOL_ROUNDS` + 1 = 5 rounds with tools
  (`chat_v3/executor.py:173`). `ToolRoundsBounded` in `ToolLoop`, the bound the code
  keeps, is a theorem and a property of no run: it holds of the code, not of the
  documentation.
- A client that disconnects while its answer is being saved cancels the await,
  not the thread (`api/tstation/chat_message.py:568`); `assistant_saved` stays
  False, the `finally` block (`:640`) saves the answer again under a fresh message
  id, and the history shows it twice. `AnswerStoredOnce` allows two copies in this
  case and after a save whose reply was lost, and one in every other.
- A turn that outlives the 120 s of its key does not only run beside the next one:
  its `finally` deletes the key whoever owns it (`:641`), so that a third turn may
  enter while the second works. `OneTurnAtATime` counts both as having lost
  their key.
- The source of a pushed document is whatever the client sends
  (`schemas/tstation/faq_sync.py:11`): one pushed as `tstation-be` is deleted by the
  next full fetch, one pushed as `local_faq` or `faq_data` by the next start-up
  (`faq_sync_task.py:258`), although the docstring calls a push "purely additive"
  (`api/tstation/faq_sync.py:37`). `PushedStays` and `FilePartIsTheFiles` exclude
  these documents by name (`PushOnly`, `Versions`).
- The fetch takes an answer for partial if `total` exceeds its rows
  (`faq_fetch_task.py:49-50`). The generated client documents `total` as the number
  of FAQs returned (`faq_list_response.py:20`): if that is what the backend sends,
  no answer is ever partial, and a table above the limit of 200 loses the rows
  that the answer leaves out. `RowsStay` excludes that case by name.
- A selection rejected in the last round is promised a retry by the fallback
  model that never takes place (`executor.py:207-222`).
- The booking window is decided before the rules that clear an unsupported-brand
  or benefit guard (`chat_v3/router/route.py:375-377`): when the model names one of
  these without ground, a day outside the window is not told and reaches the
  tools, although the docstring says that "the date it extracts decides it"
  (`:155`). Deciding it last is no remedy as it stands: it would overrule the FAQs
  (`RoutedDayLast`).
- A gate on the text puts its FAQ first only if the model had not named it: when
  the model names another FAQ in front of it, that one is told
  (`route.py:262`, `:295`).
- The rule that clears an unsupported-brand guard changes the domain to
  DISCOVERY but keeps the tool profile, which may be that of another domain and
  then narrows the tools to what the two share (`route.py:188`,
  `chat_v3/tools/__init__.py:133`).
- A turn answered by a guard or a static FAQ saves the slots before the router's
  patch is applied (`chat_v3/service.py:851`, `:885`, patch at `:900`): what else
  the customer chose in that message is lost.
- Two branches of the turn send `[DONE]` before they save the slots while the
  reader of a stream stops at `[DONE]` (`chat_v3/service.py:977`, `:1022` and
  `api/tstation/chat_message.py:604`): the choices of that turn are lost.
- A reconciliation of the quota that meets a turn under way counts its tokens
  twice, and one that crosses the end of the month writes the old month's total
  into the new key (`quota_service.py:188`). Its window is Korean time labelled
  UTC (`:169`): what was spent in the first nine hours of the month is forgotten.
- The harvest writes the quantity of a preview beside the amount of another
  quantity (`chat_v3/templates.py:472`), although `slots.py` resets the amount
  when the quantity changes; a search over several shops changes the shop
  without the schedule; the evidence of a schedule check is for shop, day and
  hour only, whatever product and quantity it was made for.
- An image whose two FAQ files are empty reconciles nothing and leaves the old
  entries, although `main.py:56` says that removing an entry removes it from
  Qdrant; `FilePartIsTheFiles` excludes that image.

## 7. What is not modelled

- The turn's content: classification, prompts, templates, QC of numbers,
  policies. These are functions on text; the models take their outcome as a
  choice.
- The V2 runtime (`chat.py`, 40,000 lines) and the llm_first runtime, which the
  shipped settings do not run; the generated backend client; retrieval scores;
  authentication, settings, monitoring, scripts and the UI demo.
- Task status records: the endpoints that read and cancel them
  (`api/queue.py`) are mounted nowhere, so that a record has one writer at a time
  and no reader in this program.
- Together these are most of the repository's lines: the V2 runtime and the
  policies alone are some 90,000, the generated client 33,000. What the models
  cover is the part with state, order and failure.
- In the modelled components: token validation and the read-only endpoints
  (they change nothing), the seven-day TTL of the history in `ChatSession` and
  `RollingSummary` (a session in use is refreshed by each save;
  `SessionDirectory` has it), a second user in `SessionDirectory`, redaction and
  truncation of tool outputs in `ToolLoop`, the calls of a turn one by one in
  `Quota`, and a read of the index whose pages other jobs write between in
  `FaqIndex`.

## 8. Plan

Done, in this order: `ChatSession` with `SerialTurns`; `RollingSummary`;
`ToolLoop`; `SessionDirectory`; `FaqIndex`; `Quota`; `TurnState`; `OrderFlow`, which
includes the slot merge and the schedule gate; `Router` with `RoutedTurn`; and
the proofs of section 5, for every safety property that a run checks.

Left, by what it would add:

1. The prompt a turn reads: `ChatSession` composed with `RollingSummary`, so that
   a turn that completes between the read of the history and the lock shows as a
   prompt without it (`api/tstation/chat_message.py:450`).
2. The order of the fields inside one slot merge (`schemas/tstation/slots.py:989`)
   against a reference, for the fields that `OrderFlow` leaves out (vehicle, sizes,
   coupons).
3. The file part of an image without entries, and pushes to a name of their own:
   the weakest hypotheses under which `RowsRemain` and `PushesStay` hold there.
4. An abstract store that `SessionDirectory`, `RollingSummary` and `TurnState`
   implement, to state deletion once for all keys of a session.
