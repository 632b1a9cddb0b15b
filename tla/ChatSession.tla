---------------------------- MODULE ChatSession ----------------------------
(***************************************************************************)
(* The API layer of one chat session (api/tstation/chat_message.py): the   *)
(* requests that run against it, the Redis keys they share and the order   *)
(* in which each of them locks the session, stores messages, answers the   *)
(* client and unlocks.                                                     *)
(*                                                                         *)
(* A request is one HTTP call.  Its kind is the handler that serves it:    *)
(*   stream - POST /chat with stream=true (chat, stream_chat_response)     *)
(*   sync   - POST /chat with stream=false (chat)                          *)
(*   order  - POST /actions/quick-order (quick_order_action)               *)
(*   append - POST /append of a plain message (append_message); an append  *)
(*            that carries chat fields is served as a sync request         *)
(* Between two awaits of a handler anything else may happen, in this or in *)
(* another worker process, so one action is one stretch between awaits.    *)
(***************************************************************************)
EXTENDS Naturals, Sequences, FiniteSets

CONSTANTS
    Request,      \* the HTTP requests that reach the session
    ActionId,     \* message ids a quick-order button can carry
    Free,         \* "the key is not in Redis"
    Kinds,        \* the kinds of request that arrive
    AbortEvery,   \* the abort key is read at every AbortEvery-th chunk
    MaxChunks,    \* bound: chunks of one streamed turn
    MaxFaults,    \* bound: Redis errors, lost clients and killed workers
    MaxDeletes,   \* bound: deletions of the session
    MaxLapses,    \* bound: expiries of a quick-order dedup key
    MaxOverruns,  \* bound: turns that last longer than _STREAMING_TTL
    MaxAborts     \* bound: calls of abort_stream while the session is locked

ASSUME RequestAssumption == Free \notin Request
ASSUME KindsAssumption == Kinds \subseteq {"stream", "sync", "order", "append"}
ASSUME BoundsAssumption ==
    /\ AbortEvery \in Nat \ {0}
    /\ {MaxChunks, MaxFaults, MaxDeletes, MaxLapses, MaxOverruns, MaxAborts}
         \subseteq Nat

VARIABLES
    \* Redis
    lock,         \* chat:streaming:{sid}: Free, or the request that set it
    abortKey,     \* chat:abort:{sid} exists
    dedup,        \* chat:action:quick_order:{sid}:{id}: the ids that exist
    history,      \* chat:tmpl:{sid}: the stored messages, oldest first
    \* requests
    kind, actionId,
    pc,           \* where the handler is
    chunks,       \* chunk_count
    captured,     \* an answer to store has been seen
    saved,        \* assistant_saved
    outcome,      \* what the client was told
    cut,          \* requests whose cleanup is being cancelled
    pendingSave,  \* fire-and-forget saves not yet run
    adrift,       \* threads that save for r and that nobody awaits any more
    aborting,     \* the abort handler between its EXISTS and its SET
    \* the order backend
    placed,       \* orders placed for each action id
    \* history variables (no code reads them)
    faults, lapses, deletes, overruns, aborts,
    lost,         \* requests whose streaming key went while they were at work
    harmed,       \* requests hit by a fault
    replyLost,    \* requests with a save whose success they never learned
    deletedSince, \* requests under way or over when the session was deleted
    toldAborted   \* requests for which abort_stream answered aborted: true

redis == <<lock, abortKey, dedup, history>>
inputs == <<kind, actionId>>
local == <<chunks, captured, saved, cut>>
background == <<pendingSave, adrift, aborting, placed>>
budget == <<faults, lapses, deletes, overruns, aborts>>
ghosts == <<lost, harmed, replyLost, deletedSince, toldAborted>>
vars == <<redis, inputs, pc, outcome, local, background, budget, ghosts>>

-----------------------------------------------------------------------------
(* Where a handler can be, and which of these places hold the session.     *)

Before == {"idle", "asked", "ready"}
StreamPlaces == {"granted", "running", "saving", "saved", "cleanup", "releasing"}
OrderPlaces == {"locked", "duplicate", "noting", "noted", "ordering", "ordered",
                "answered", "closing"}
Holding == StreamPlaces \cup OrderPlaces \cup {"answering", "unlocking"}
After == {"unsaved", "ended"}
Place == Before \cup Holding \cup After

Told == {"none", "busy", "duplicate", "done", "aborted", "error", "gone"}

Message == [by : Request, role : {"user", "assistant"}]
UserMessage(r) == [by |-> r, role |-> "user"]
Answer(r) == [by |-> r, role |-> "assistant"]
Stored(m) == \E i \in DOMAIN history : history[i] = m

\* The handler of r, or a save it started, is under way in the session.
AtWork(r) == pc[r] \in Holding \/ adrift[r] > 0

Goto(r, place) == pc' = [pc EXCEPT ![r] = place]
Tell(r, what) == outcome' = [outcome EXCEPT ![r] = what]
Finish(r, what) == Goto(r, "ended") /\ Tell(r, what)

\* DEL chat:streaming, whoever set it.
Unlock(r) ==
    /\ lock' = Free
    /\ lost' = lost \cup {s \in Request \ {r} : s = lock /\ AtWork(s)}

Init ==
    /\ lock = Free /\ abortKey = FALSE /\ dedup = {} /\ history = <<>>
    /\ kind \in [Request -> Kinds]
    /\ actionId \in [Request -> ActionId]
    /\ pc = [r \in Request |-> "idle"]
    /\ outcome = [r \in Request |-> "none"]
    /\ chunks = [r \in Request |-> 0]
    /\ captured = [r \in Request |-> FALSE]
    /\ saved = [r \in Request |-> FALSE]
    /\ cut = {} /\ pendingSave = {} /\ aborting = Free
    /\ adrift = [r \in Request |-> 0]
    /\ placed = [a \in ActionId |-> 0]
    /\ faults = 0 /\ lapses = 0 /\ deletes = 0 /\ overruns = 0 /\ aborts = 0
    /\ lost = {} /\ harmed = {} /\ replyLost = {} /\ deletedSince = {} /\ toldAborted = {}

-----------------------------------------------------------------------------
(* POST /chat, up to the lock.                                              *)

\* save_message(session, "user", ...): before the session is locked.
SaveUser(r) ==
    /\ pc[r] = "idle" /\ kind[r] \in {"stream", "sync"}
    /\ history' = Append(history, UserMessage(r))
    /\ Goto(r, "asked")
    /\ UNCHANGED <<lock, abortKey, dedup, inputs, outcome, local, background,
                   budget, ghosts>>

\* get_history_for_llm: the prompt of the turn, read before the lock too.
ReadHistory(r) ==
    /\ pc[r] = "asked"
    /\ Goto(r, "ready")
    /\ UNCHANGED <<redis, inputs, outcome, local, background, budget, ghosts>>

\* Mutant: SET without NX.
AcquireBlindly(r) ==
    /\ \/ pc[r] = "ready" /\ kind[r] = "stream" /\ Goto(r, "granted")
       \/ pc[r] = "ready" /\ kind[r] = "sync" /\ Goto(r, "answering")
       \/ pc[r] = "idle" /\ kind[r] = "order" /\ Goto(r, "locked")
    /\ lock' = r
    /\ UNCHANGED <<abortKey, dedup, history, inputs, outcome, local,
                   background, budget, ghosts>>

\* SET chat:streaming NX EX succeeds.
Acquire(r) ==
    /\ \/ pc[r] = "ready" /\ kind[r] = "stream" /\ Goto(r, "granted")
       \/ pc[r] = "ready" /\ kind[r] = "sync" /\ Goto(r, "answering")
       \/ pc[r] = "idle" /\ kind[r] = "order" /\ Goto(r, "locked")
    /\ lock = Free /\ lock' = r
    /\ UNCHANGED <<abortKey, dedup, history, inputs, outcome, local,
                   background, budget, ghosts>>

\* It fails: 409 session_busy.  A chat request has stored its message already.
Busy(r) ==
    /\ \/ pc[r] = "ready"
       \/ pc[r] = "idle" /\ kind[r] = "order"
    /\ lock # Free
    /\ Finish(r, "busy")
    /\ UNCHANGED <<redis, inputs, local, background, budget, ghosts>>

\* POST /append of a plain message takes no lock.
AppendMessage(r) ==
    /\ pc[r] = "idle" /\ kind[r] = "append"
    /\ history' = Append(history, UserMessage(r))
    /\ Finish(r, "done")
    /\ UNCHANGED <<lock, abortKey, dedup, inputs, local, background, budget,
                   ghosts>>

-----------------------------------------------------------------------------
(* The stream: stream_chat_response.                                        *)

StartStream(r) ==
    /\ pc[r] = "granted"
    /\ Goto(r, "running")
    /\ UNCHANGED <<redis, inputs, outcome, local, background, budget, ghosts>>

AbortDue(r) == (chunks[r] + 1) % AbortEvery = 0 /\ abortKey

\* A chunk arrives and is passed on; a data or message event is captured.
Chunk(r) ==
    /\ pc[r] = "running" /\ chunks[r] < MaxChunks /\ ~AbortDue(r)
    /\ chunks' = [chunks EXCEPT ![r] = @ + 1]
    /\ \E answer \in BOOLEAN : captured' = [captured EXCEPT ![r] = @ \/ answer]
    /\ UNCHANGED <<redis, inputs, pc, outcome, saved, cut, background, budget,
                   ghosts>>

\* Mutant: DONE is passed on before the answer is saved.
LastChunkUnsaved(r) ==
    /\ pc[r] = "running" /\ ~AbortDue(r)
    /\ Goto(r, "saved")
    /\ UNCHANGED <<redis, inputs, outcome, local, background, budget, ghosts>>

\* "[DONE]" ends the loop; the answer is about to be saved.
LastChunk(r) ==
    /\ pc[r] = "running" /\ ~AbortDue(r)
    /\ Goto(r, "saving")
    /\ UNCHANGED <<redis, inputs, outcome, local, background, budget, ghosts>>

\* Mutant: an abort unlocks at once, before `finally` stores what there is.
AbortSeenUnlocks(r) ==
    /\ pc[r] = "running" /\ AbortDue(r)
    /\ abortKey' = FALSE /\ lock' = Free
    /\ Goto(r, "cleanup") /\ Tell(r, "aborted")
    /\ UNCHANGED <<dedup, history, inputs, local, background, budget, ghosts>>

\* The abort key is there: consume it, tell the client, leave by `finally`.
AbortSeen(r) ==
    /\ pc[r] = "running" /\ AbortDue(r)
    /\ abortKey' = FALSE
    /\ Goto(r, "cleanup") /\ Tell(r, "aborted")
    /\ UNCHANGED <<lock, dedup, history, inputs, local, background, budget,
                   ghosts>>

\* The turn raises: the handler leaves by `finally`.
TurnRaises(r) ==
    /\ \/ pc[r] = "running" /\ Goto(r, "cleanup")
       \/ pc[r] \in {"noted", "ordering", "ordered"} /\ Goto(r, "closing")
    /\ Tell(r, "error")
    /\ UNCHANGED <<redis, inputs, local, background, budget, ghosts>>

\* Mutant: assistant_saved is not looked at.
SaveAnswerAgain(r) ==
    IF captured[r]
      THEN /\ history' = Append(history, Answer(r))
           /\ saved' = [saved EXCEPT ![r] = TRUE]
      ELSE UNCHANGED <<history, saved>>

\* save_assistant_history: nothing to store, stored before, or stored now.
SaveAnswer(r) ==
    IF captured[r] /\ ~saved[r]
      THEN /\ history' = Append(history, Answer(r))
           /\ saved' = [saved EXCEPT ![r] = TRUE]
      ELSE UNCHANGED <<history, saved>>

SaveBeforeDone(r) ==
    /\ pc[r] = "saving"
    /\ SaveAnswer(r)
    /\ Goto(r, "saved")
    /\ UNCHANGED <<lock, abortKey, dedup, inputs, outcome, chunks, captured, cut,
                   background, budget, ghosts>>

SendDone(r) ==
    /\ pc[r] = "saved"
    /\ Goto(r, "cleanup") /\ Tell(r, "done")
    /\ UNCHANGED <<redis, inputs, local, background, budget, ghosts>>

\* Mutant: with nothing to store `finally` waits for an answer.
CleanupSaveOnlyIfCaptured(r) ==
    /\ pc[r] = "cleanup" /\ r \notin cut /\ captured[r]
    /\ SaveAnswer(r)
    /\ Goto(r, "releasing")
    /\ UNCHANGED <<lock, abortKey, dedup, inputs, outcome, chunks, captured, cut,
                   background, budget, ghosts>>

\* `finally`: save once more if that has not been done ...
CleanupSave(r) ==
    /\ pc[r] = "cleanup" /\ r \notin cut
    /\ SaveAnswer(r)
    /\ Goto(r, "releasing")
    /\ UNCHANGED <<lock, abortKey, dedup, inputs, outcome, chunks, captured, cut,
                   background, budget, ghosts>>

\* ... then unlock.
Release(r) ==
    /\ pc[r] = "releasing" /\ r \notin cut
    /\ Unlock(r)
    /\ Goto(r, "ended")
    /\ UNCHANGED <<abortKey, dedup, history, inputs, outcome, local, background,
                   budget, harmed, replyLost, deletedSince, toldAborted>>

-----------------------------------------------------------------------------
(* POST /chat without streaming.                                            *)

\* TStationChatServiceV2.chat returns or raises; `finally` unlocks.
SyncAnswered(r) ==
    /\ pc[r] = "answering"
    /\ \E ok \in BOOLEAN : captured' = [captured EXCEPT ![r] = ok]
    /\ Goto(r, "unlocking")
    /\ UNCHANGED <<redis, inputs, outcome, chunks, saved, cut, background,
                   budget, ghosts>>

SyncUnlock(r) ==
    /\ pc[r] = "unlocking"
    /\ Unlock(r)
    /\ IF captured[r] THEN Goto(r, "unsaved") /\ UNCHANGED outcome
                      ELSE Finish(r, "error")
    /\ UNCHANGED <<abortKey, dedup, history, inputs, local, background, budget,
                   harmed, replyLost, deletedSince, toldAborted>>

\* Only now, with the session unlocked, is the answer stored and returned.
SyncSave(r) ==
    /\ pc[r] = "unsaved"
    /\ SaveAnswer(r)
    /\ Finish(r, "done")
    /\ UNCHANGED <<lock, abortKey, dedup, inputs, chunks, captured, cut,
                   background, budget, ghosts>>

-----------------------------------------------------------------------------
(* POST /actions/quick-order, once it holds the session.                    *)

\* Mutant: the answer of SET dedup is ignored.
CheckDedupNever(r) ==
    /\ pc[r] = "locked"
    /\ dedup' = dedup \cup {actionId[r]}
    /\ Goto(r, "noting")
    /\ UNCHANGED <<lock, abortKey, history, inputs, outcome, local, background,
                   budget, ghosts>>

\* SET dedup NX EX 120: a fresh id goes on, a known one is turned away.
CheckDedup(r) ==
    /\ pc[r] = "locked"
    /\ dedup' = dedup \cup {actionId[r]}
    /\ Goto(r, IF actionId[r] \in dedup THEN "duplicate" ELSE "noting")
    /\ UNCHANGED <<lock, abortKey, history, inputs, outcome, local, background,
                   budget, ghosts>>

\* Mutant: 409 duplicate_action without unlocking the session first.
RefuseDuplicateLocked(r) ==
    /\ pc[r] = "duplicate"
    /\ Finish(r, "duplicate")
    /\ UNCHANGED <<redis, inputs, local, background, budget, ghosts>>

\* 409 duplicate_action.
RefuseDuplicate(r) ==
    /\ pc[r] = "duplicate"
    /\ Unlock(r)
    /\ Finish(r, "duplicate")
    /\ UNCHANGED <<abortKey, dedup, history, inputs, local, background, budget,
                   harmed, replyLost, deletedSince, toldAborted>>

NoteOrder(r) ==
    /\ pc[r] = "noting"
    /\ history' = Append(history, UserMessage(r))
    /\ Goto(r, "noted")
    /\ UNCHANGED <<lock, abortKey, dedup, inputs, outcome, local, background,
                   budget, ghosts>>

\* The payload is checked against the latest preOrder card.
ValidateOrder(r) ==
    /\ pc[r] = "noted"
    /\ \/ Goto(r, "ordering") /\ UNCHANGED captured
       \/ Goto(r, "answered") /\ captured' = [captured EXCEPT ![r] = TRUE]
    /\ UNCHANGED <<redis, inputs, outcome, chunks, saved, cut, background,
                   budget, ghosts>>

\* quick_order_tool.invoke: an error is caught and does not say whether the
\* backend took the order.
InvokeTool(r) ==
    \/ placed' = [placed EXCEPT ![actionId[r]] = @ + 1]
    \/ UNCHANGED placed

PlaceOrder(r) ==
    /\ pc[r] = "ordering"
    /\ InvokeTool(r)
    /\ Goto(r, "ordered")
    /\ UNCHANGED <<redis, inputs, outcome, local, pendingSave, adrift, aborting,
                   budget, ghosts>>

\* The attempt's context is persisted and the answer built.
AnswerOrder(r) ==
    /\ pc[r] = "ordered"
    /\ captured' = [captured EXCEPT ![r] = TRUE]
    /\ Goto(r, "answered")
    /\ UNCHANGED <<redis, inputs, outcome, chunks, saved, cut, background,
                   budget, ghosts>>

SendOrderDone(r) ==
    /\ pc[r] = "answered"
    /\ Goto(r, "closing") /\ Tell(r, "done")
    /\ UNCHANGED <<redis, inputs, local, background, budget, ghosts>>

\* Mutant: the answer is sent and never stored.
CloseOrderForgets(r) ==
    /\ pc[r] = "closing" /\ r \notin cut
    /\ Unlock(r)
    /\ Goto(r, "ended")
    /\ UNCHANGED <<abortKey, dedup, history, inputs, outcome, local, background,
                   budget, harmed, replyLost, deletedSince, toldAborted>>

\* `finally`: unlock, then save the answer in a task nobody awaits.
CloseOrder(r) ==
    /\ pc[r] = "closing" /\ r \notin cut
    /\ Unlock(r)
    /\ pendingSave' = IF captured[r] THEN pendingSave \cup {r} ELSE pendingSave
    /\ Goto(r, "ended")
    /\ UNCHANGED <<abortKey, dedup, history, inputs, outcome, local, adrift,
                   aborting, placed, budget, harmed, replyLost, deletedSince,
                   toldAborted>>

BackgroundSave(r) ==
    /\ r \in pendingSave
    /\ pendingSave' = pendingSave \ {r}
    /\ SaveAnswer(r)
    /\ UNCHANGED <<lock, abortKey, dedup, inputs, pc, outcome, chunks, captured,
                   cut, adrift, aborting, placed, budget, ghosts>>

-----------------------------------------------------------------------------
(* The other endpoints, and the clocks of Redis.                            *)

\* abort_stream, first half: EXISTS chat:streaming.
AbortAsked ==
    /\ aborting = Free /\ lock # Free /\ aborts < MaxAborts
    /\ aborting' = lock /\ aborts' = aborts + 1
    /\ UNCHANGED <<redis, inputs, pc, outcome, local, pendingSave, adrift, placed,
                   faults, lapses, deletes, overruns, ghosts>>

\* Second half: SET chat:abort EX 30, answer aborted: true.
AbortSet ==
    /\ aborting # Free
    /\ aborting' = Free /\ abortKey' = TRUE
    /\ toldAborted' = toldAborted \cup {aborting}
    /\ UNCHANGED <<lock, dedup, history, inputs, pc, outcome, local, pendingSave,
                   adrift, placed, budget, lost, harmed, replyLost, deletedSince>>

\* delete_session: the messages go; the streaming and abort keys stay.
DeleteSession ==
    /\ deletes < MaxDeletes /\ deletes' = deletes + 1
    /\ history' = <<>>
    /\ deletedSince' = deletedSince \cup {r \in Request : pc[r] # "idle"}
    /\ UNCHANGED <<lock, abortKey, dedup, inputs, pc, outcome, local,
                   background, faults, lapses, overruns, aborts, lost, harmed,
                   replyLost, toldAborted>>

\* Mutant: SET without EX.
LockNeverExpires == FALSE /\ UNCHANGED vars

\* _STREAMING_TTL passes: over a key left behind, or under a turn at work.
LockExpires ==
    /\ lock # Free /\ lock' = Free
    /\ IF AtWork(lock)
         THEN /\ overruns < MaxOverruns /\ overruns' = overruns + 1
              /\ lost' = lost \cup {lock}
         ELSE UNCHANGED <<overruns, lost>>
    /\ UNCHANGED <<abortKey, dedup, history, inputs, pc, outcome, local,
                   background, faults, lapses, deletes, aborts, harmed, replyLost,
                   deletedSince, toldAborted>>

AbortExpires ==
    /\ abortKey /\ abortKey' = FALSE
    /\ UNCHANGED <<lock, dedup, history, inputs, pc, outcome, local,
                   background, budget, ghosts>>

DedupExpires(a) ==
    /\ a \in dedup /\ lapses < MaxLapses
    /\ dedup' = dedup \ {a} /\ lapses' = lapses + 1
    /\ UNCHANGED <<lock, abortKey, history, inputs, pc, outcome, local,
                   background, faults, deletes, overruns, aborts, ghosts>>

-----------------------------------------------------------------------------
(* Faults.                                                                  *)

Harm(r) ==
    /\ faults < MaxFaults /\ faults' = faults + 1
    /\ harmed' = harmed \cup {r}
    /\ UNCHANGED <<lapses, deletes, overruns, aborts, lost, toldAborted, deletedSince>>

\* The message m reached Redis or not, but the caller sees an exception.
SaveRaises(r, m) ==
    \/ UNCHANGED <<history, replyLost>>
    \/ history' = Append(history, m) /\ replyLost' = replyLost \cup {r}

\* A save raises.  In the stream's loop `finally` tries again; anywhere else
\* the handler is left, and a save made under the lock leaves the key behind.
SaveFails(r) ==
    /\ Harm(r)
    /\ \/ pc[r] = "idle" /\ kind[r] # "order" /\ SaveRaises(r, UserMessage(r))
          /\ Finish(r, "error")
       \/ pc[r] = "noting" /\ SaveRaises(r, UserMessage(r)) /\ Finish(r, "error")
       \/ pc[r] = "saving" /\ captured[r] /\ SaveRaises(r, Answer(r))
          /\ Goto(r, "cleanup") /\ Tell(r, "error")
       \/ pc[r] = "cleanup" /\ captured[r] /\ ~saved[r] /\ r \notin cut
          /\ SaveRaises(r, Answer(r)) /\ Goto(r, "ended") /\ UNCHANGED outcome
       \/ pc[r] = "unsaved" /\ SaveRaises(r, Answer(r)) /\ Finish(r, "error")
    /\ UNCHANGED <<lock, abortKey, dedup, inputs, local, background>>

\* The DEL of an unlock raises: the key stays until its TTL.
UnlockFails(r) ==
    /\ Harm(r)
    /\ pc[r] \in {"releasing", "unlocking", "duplicate", "closing"}
    /\ Goto(r, "ended")
    /\ Tell(r, IF outcome[r] = "none" THEN "error" ELSE outcome[r])
    /\ UNCHANGED <<redis, inputs, local, background, replyLost>>

\* The await of a save is cancelled: its thread goes on without it, or had not
\* started and never will.
SaveAdrift(r) ==
    \/ UNCHANGED <<adrift, replyLost>>
    \/ /\ adrift' = [adrift EXCEPT ![r] = @ + 1]
       /\ replyLost' = replyLost \cup {r}

\* A thread that nobody awaits stores its answer, or fails.
ThreadSaves(r) ==
    /\ adrift[r] > 0 /\ adrift' = [adrift EXCEPT ![r] = @ - 1]
    /\ history' = Append(history, Answer(r)) \/ UNCHANGED history
    /\ UNCHANGED <<lock, abortKey, dedup, inputs, pc, outcome, local,
                   pendingSave, aborting, placed, budget, ghosts>>

\* Where an event stream is suspended at a yield, and where in an await.
AtYield(r) == pc[r] \in {"running", "saved", "noted", "ordering", "ordered", "answered"}
InAwait(r) ==
    \/ pc[r] \in {"running", "cleanup", "releasing", "noted", "ordering",
                  "ordered", "closing"}
    \/ pc[r] = "saving" /\ captured[r]

ToFinally(r) ==
    Goto(r, IF pc[r] = "releasing" THEN "releasing"
            ELSE IF pc[r] \in StreamPlaces THEN "cleanup" ELSE "closing")

\* The client of an event stream disconnects.  A generator that has not
\* started never runs; one suspended at a yield is closed and cleans up in
\* peace.
ClientGone(r) ==
    /\ Harm(r)
    /\ \/ pc[r] \in {"granted", "noted"} /\ Goto(r, "ended")
       \/ AtYield(r) /\ ToFinally(r)
    /\ Tell(r, "gone")
    /\ UNCHANGED <<redis, inputs, local, background, replyLost>>

\* One in an await is cancelled there, and again at each await of its
\* `finally`; the thread it waited for, which saves the answer or places the
\* order, goes on.  (When it places the order is not seen by anyone.)
ClientGoneInAwait(r) ==
    /\ Harm(r)
    /\ InAwait(r) /\ r \notin cut /\ cut' = cut \cup {r}
    /\ IF pc[r] = "saving" THEN SaveAdrift(r) ELSE UNCHANGED <<adrift, replyLost>>
    /\ IF pc[r] = "ordering" THEN InvokeTool(r) ELSE UNCHANGED placed
    /\ ToFinally(r)
    /\ Tell(r, IF outcome[r] = "none" THEN "gone" ELSE outcome[r])
    /\ UNCHANGED <<redis, inputs, chunks, captured, saved, pendingSave, aborting>>

\* A `finally` under cancellation: its first await is the last thing it does.
CutShort(r) ==
    /\ r \in cut /\ pc[r] \in {"cleanup", "releasing", "closing"}
    /\ Goto(r, "ended")
    /\ IF pc[r] = "cleanup" /\ captured[r] /\ ~saved[r]
         THEN SaveAdrift(r) /\ UNCHANGED <<lock, lost>>
         ELSE /\ Unlock(r) \/ UNCHANGED <<lock, lost>>
              /\ UNCHANGED <<adrift, replyLost>>
    /\ UNCHANGED <<abortKey, dedup, history, inputs, outcome, local, pendingSave,
                   aborting, placed, budget, harmed, deletedSince, toldAborted>>

\* The worker process of r is killed: r, its background task and its threads
\* are gone.
WorkerDies(r) ==
    /\ Harm(r)
    /\ \/ pc[r] \in Holding \cup {"asked", "ready", "unsaved"}
       \/ r \in pendingSave \/ adrift[r] > 0
    /\ Goto(r, "ended")
    /\ Tell(r, IF outcome[r] = "none" THEN "gone" ELSE outcome[r])
    /\ pendingSave' = pendingSave \ {r}
    /\ adrift' = [adrift EXCEPT ![r] = 0]
    /\ UNCHANGED <<redis, inputs, local, aborting, placed, replyLost>>

-----------------------------------------------------------------------------
\* One step of the handler of r, when nothing goes wrong around it.
Handle(r) ==
    \/ SaveUser(r) \/ ReadHistory(r) \/ Acquire(r) \/ Busy(r) \/ AppendMessage(r)
    \/ StartStream(r) \/ Chunk(r) \/ LastChunk(r) \/ AbortSeen(r) \/ TurnRaises(r)
    \/ SaveBeforeDone(r) \/ SendDone(r) \/ CleanupSave(r) \/ Release(r)
    \/ SyncAnswered(r) \/ SyncUnlock(r) \/ SyncSave(r)
    \/ CheckDedup(r) \/ RefuseDuplicate(r) \/ NoteOrder(r) \/ ValidateOrder(r)
    \/ PlaceOrder(r) \/ AnswerOrder(r) \/ SendOrderDone(r) \/ CloseOrder(r)
    \/ CutShort(r)

Fault(r) ==
    SaveFails(r) \/ UnlockFails(r) \/ ClientGone(r) \/ ClientGoneInAwait(r)
    \/ WorkerDies(r)

Next ==
    \/ \E r \in Request :
          Handle(r) \/ BackgroundSave(r) \/ ThreadSaves(r) \/ Fault(r)
    \/ AbortAsked \/ AbortSet \/ DeleteSession
    \/ LockExpires \/ AbortExpires \/ \E a \in ActionId : DedupExpires(a)

Spec == Init /\ [][Next]_vars

\* The event loop keeps running a started handler and a created task, a thread
\* ends (the Redis client has a timeout), and Redis expires a key whose TTL has
\* passed.  Nobody has to send a request.
FairSpec ==
    /\ Spec
    /\ \A r \in Request : WF_vars(pc[r] # "idle" /\ Handle(r))
    /\ \A r \in Request : WF_vars(BackgroundSave(r)) /\ WF_vars(ThreadSaves(r))
    /\ WF_vars(LockExpires)

-----------------------------------------------------------------------------
\* Every variable keeps its type: a client is told only what clients know.
TypeOK ==
    /\ lock \in Request \cup {Free} /\ abortKey \in BOOLEAN
    /\ dedup \subseteq ActionId /\ history \in Seq(Message)
    /\ kind \in [Request -> Kinds] /\ actionId \in [Request -> ActionId]
    /\ pc \in [Request -> Place]
    /\ outcome \in [Request -> Told]
    /\ chunks \in [Request -> Nat]
    /\ captured \in [Request -> BOOLEAN] /\ saved \in [Request -> BOOLEAN]
    /\ cut \subseteq Request /\ pendingSave \subseteq Request
    /\ adrift \in [Request -> Nat]
    /\ aborting \in Request \cup {Free}
    /\ placed \in [ActionId -> Nat]
    /\ faults \in Nat /\ lapses \in Nat /\ deletes \in Nat /\ overruns \in Nat
    /\ aborts \in Nat /\ lost \subseteq Request
    /\ harmed \subseteq Request /\ replyLost \subseteq Request
    /\ deletedSince \subseteq Request /\ toldAborted \subseteq Request

\* Of two requests at work in the session one has lost its key, and no key is
\* lost before some turn has outlived the TTL: short of that the SET NX of
\* chat:streaming does what the 409 session_busy answer says, although every
\* handler deletes the key without looking at who set it.
OneTurnAtATime ==
    /\ \A r, s \in Request :
          pc[r] \in Holding /\ pc[s] \in Holding => r = s \/ {r, s} \cap lost # {}
    /\ lost # {} => overruns > 0

\* The answer of a turn is stored at most once although
\* save_assistant_history runs twice on every stream (before DONE and in
\* `finally`); a second time only when the first save reached Redis and the
\* handler did not learn of it (the save raised, or its await was cancelled for
\* a client that disconnected), and never a third time.
Copies(r) == {i \in DOMAIN history : history[i] = Answer(r)}
AnswerStoredOnce ==
    \A r \in Request :
        Cardinality(Copies(r)) <= IF r \in replyLost THEN 2 ELSE 1

\* A chat client that saw its turn complete ("[DONE]", or the HTTP response)
\* finds the answer in the history it fetches next, and so does its next
\* turn's prompt, unless the session was deleted meanwhile.
DoneMeansStored ==
    \A r \in Request :
        /\ kind[r] # "order" /\ outcome[r] = "done" /\ captured[r]
        /\ r \notin deletedSince
        => Stored(Answer(r))

\* Every path out of the three handlers unlocks the session: a key left
\* behind by a finished request is the work of a fault.
LockLeftOnlyByFault ==
    lock # Free /\ pc[lock] \notin Holding => lock \in harmed

\* Pressing one order button again and again places at most one order, and
\* one more each time the dedup key has expired in between.
OrderPlacedOnce == \A a \in ActionId : placed[a] <= 1 + lapses

\* The answer of a streamed turn, also one stored by a thread whose handler was
\* cancelled, is stored while the session is its own, so that no later turn's
\* messages come before it; unless the turn lost its key.
StreamStoresUnderLock ==
    [][\A r \in Request :
          kind[r] = "stream" /\ ~Stored(Answer(r)) /\ Stored(Answer(r))'
          => lock = r \/ r \in lost]_vars

\* The session is never locked for ever: a leaked key expires.
LockEventuallyFree == lock # Free ~> lock = Free

\* Every request that has started ends.
EveryRequestEnds == \A r \in Request : pc[r] # "idle" ~> pc[r] = "ended"

\* The answer of a quick order is stored in the end although nobody waits
\* for the task that stores it.
OrderEventuallyStored ==
    \A r \in Request :
        kind[r] = "order" /\ outcome[r] = "done"
        ~> Stored(Answer(r)) \/ r \in harmed \cup deletedSince

\* The docstring of abort_stream (api/tstation/chat_message.py): what it aborts is
\* the response that is active when it is called.
OnlyAskedTurnsAbort ==
    \A r \in Request : outcome[r] = "aborted" => r \in toldAborted

\* The lock of the session implements serial turns: whatever the handlers do,
\* the faults and the deletion included, a turn begins only when every turn
\* before it has ended or lost its key, and a streamed answer is recorded once
\* and inside its own turn.  (A non-streamed answer and that of an order are
\* stored after the unlock.)
Holders == {r \in Request : pc[r] \in Holding}
Serial == INSTANCE SerialTurns WITH
    Turn <- Request, holders <- Holders, overtime <- lost \cap Holders,
    recorded <- {r \in Request : saved[r] /\ kind[r] = "stream"}
TurnsAreSerial == Serial!Spec
=============================================================================
