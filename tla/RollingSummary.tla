--------------------------- MODULE RollingSummary ---------------------------
(***************************************************************************)
(* The rolling summary of one session: the background task that writes it  *)
(* (history_summarizer.refresh_summary), the Redis keys it shares with the *)
(* chat API (chat:tmpl, chat:summary, chat:summary_lock) and the prompt    *)
(* built from them (ChatHistoryService.get_history_for_llm).               *)
(*                                                                         *)
(* Messages are numbered in the order they are stored.  The text of a      *)
(* summary is abstracted to the set of messages it was made from.          *)
(***************************************************************************)
EXTENDS Integers, Sequences, SequencesExt

CONSTANTS
    Task,         \* refresh_summary tasks, each started again and again
    Free,         \* "the key is not in Redis"
    MinMessages,  \* MIN_MESSAGES_FOR_SUMMARY
    Interval,     \* SUMMARY_UPDATE_INTERVAL
    Keep,         \* RECENT_MESSAGES_TO_KEEP
    Window,       \* messages of a prompt without a summary (20)
    MaxMessages,  \* bound: messages ever stored
    MaxLate,      \* how many places before the end a message can land
    MaxDeletes,   \* bound: deletions of the session
    MaxLapses,    \* bound: expiries of the summary key
    MaxCrashes,   \* bound: killed workers
    TasksFitTTL   \* TRUE: no live task lasts longer than the lock's 120 s

ASSUME TaskAssumption == Free \notin Task
ASSUME LimitsAssumption ==
    /\ {MinMessages, Interval, Keep, Window, MaxMessages, MaxLate, MaxDeletes,
        MaxLapses, MaxCrashes} \subseteq Nat
    /\ MinMessages > Keep /\ MaxLate <= Keep /\ TasksFitTTL \in BOOLEAN

VARIABLES
    history,     \* chat:tmpl:{sid}, oldest first
    summary,     \* chat:summary:{sid}: NoSummary or what it covers
    lock,        \* chat:summary_lock:{sid}: Free or the task that set it
    wanted,      \* tasks created and not yet started
    at,          \* where each task is
    count,       \* message_count
    base,        \* the summary the task found
    batch,       \* messages_to_summarize
    prompt,      \* get_history_for_llm: the summary it has read, the messages
    stored, deletes, lapses, crashes,   \* counted for the bounds
    deleted      \* history variable: messages that delete_session removed
                 \* while no task was at work

shared == <<history, summary, lock>>
task == <<at, count, base, batch>>
bounds == <<stored, deletes, lapses, crashes>>
vars == <<shared, wanted, task, prompt, bounds, deleted>>

\* `covered` is covered_count, `of` stands for the content.
NoSummary == [covered |-> 0, of |-> {}]
Exists(s) == s # NoSummary
NoPrompt == [phase |-> "none", summary |-> NoSummary, recent |-> {}, due |-> {}]

Place == {"idle", "counting", "deciding", "fetching", "thinking", "saving",
          "releasing"}
Working(w) == at[w] # "idle"
Goto(w, place) == at' = [at EXCEPT ![w] = place]
\* The task is over and its local variables with it.
End(w) ==
    /\ Goto(w, "idle")
    /\ count' = [count EXCEPT ![w] = 0]
    /\ base' = [base EXCEPT ![w] = NoSummary]
    /\ batch' = [batch EXCEPT ![w] = {}]
Target(w) == count[w] - Keep
Span(from, to) == {history[i] : i \in from .. to}
Lesser(m, n) == IF m < n THEN m ELSE n

Init ==
    /\ history = <<>> /\ summary = NoSummary /\ lock = Free
    /\ at = [w \in Task |-> "idle"] /\ count = [w \in Task |-> 0]
    /\ base = [w \in Task |-> NoSummary] /\ batch = [w \in Task |-> {}]
    /\ wanted = 0 /\ prompt = NoPrompt
    /\ stored = 0 /\ deletes = 0 /\ lapses = 0 /\ crashes = 0
    /\ deleted = {}

-----------------------------------------------------------------------------
(* refresh_summary.                                                         *)

\* Mutant: SET without NX.
StartBlindly(w) ==
    /\ wanted > 0 /\ wanted' = wanted - 1
    /\ at[w] = "idle"
    /\ lock' = w
    /\ Goto(w, "counting")
    /\ UNCHANGED <<history, summary, count, base, batch, prompt, bounds, deleted>>

\* acquire_summary_lock (SET NX EX 120).
Start(w) ==
    /\ wanted > 0 /\ wanted' = wanted - 1
    /\ at[w] = "idle" /\ lock = Free
    /\ lock' = w
    /\ Goto(w, "counting")
    /\ UNCHANGED <<history, summary, count, base, batch, prompt, bounds, deleted>>

\* A task that does not get the lock ends; nothing starts it again.
Skip ==
    /\ wanted > 0 /\ wanted' = wanted - 1
    /\ lock # Free
    /\ UNCHANGED <<shared, task, prompt, bounds, deleted>>

CountMessages(w) ==
    /\ at[w] = "counting"
    /\ count' = [count EXCEPT ![w] = Len(history)]
    /\ Goto(w, IF Len(history) < MinMessages THEN "releasing" ELSE "deciding")
    /\ UNCHANGED <<shared, wanted, base, batch, prompt, bounds, deleted>>

\* Mutant: the interval is forgotten.
TooEarlyOnce(w, s) == Target(w) <= s.covered

\* Nothing older than the kept messages is uncovered, or too little.
TooEarly(w, s) ==
    \/ Target(w) <= s.covered
    \/ Exists(s) /\ Target(w) - s.covered < Interval

Decide(w) ==
    /\ at[w] = "deciding"
    /\ base' = [base EXCEPT ![w] = summary]
    /\ Goto(w, IF TooEarly(w, summary) THEN "releasing" ELSE "fetching")
    /\ UNCHANGED <<shared, wanted, count, batch, prompt, bounds, deleted>>

\* zrange covered .. target-1; an empty range ends the task.
Fetch(w) ==
    /\ at[w] = "fetching"
    /\ LET range == Span(base[w].covered + 1, Lesser(Target(w), Len(history)))
       IN /\ batch' = [batch EXCEPT ![w] = range]
          /\ Goto(w, IF range = {} THEN "releasing" ELSE "thinking")
    /\ UNCHANGED <<shared, wanted, count, base, prompt, bounds, deleted>>

\* The LLM answers, or fails or answers nothing.
Summarize(w) ==
    /\ at[w] = "thinking"
    /\ Goto(w, "saving") \/ Goto(w, "releasing")
    /\ UNCHANGED <<shared, wanted, count, base, batch, prompt, bounds, deleted>>

\* Mutant: covered_count is counted again when the summary is saved.
SaveRecounted(w) ==
    /\ at[w] = "saving"
    /\ summary' = [covered |-> Len(history) - Keep, of |-> base[w].of \cup batch[w]]
    /\ Goto(w, "releasing")
    /\ UNCHANGED <<history, lock, wanted, count, base, batch, prompt, bounds, deleted>>

\* save_summary: SET, whatever the key holds by now.
Save(w) ==
    /\ at[w] = "saving"
    /\ summary' = [covered |-> Target(w), of |-> base[w].of \cup batch[w]]
    /\ Goto(w, "releasing")
    /\ UNCHANGED <<history, lock, wanted, count, base, batch, prompt, bounds, deleted>>

\* `finally`: DEL of the lock, whoever set it.
Release(w) ==
    /\ at[w] = "releasing"
    /\ lock' = Free
    /\ End(w)
    /\ UNCHANGED <<history, summary, wanted, prompt, bounds, deleted>>

-----------------------------------------------------------------------------
(* The chat API around it.                                                  *)

\* save_message: ZADD scored by the clock of the process that saves, so a
\* message can land up to MaxLate places before the end.  The save of an answer
\* creates a refresh_summary task, that of a user message does not.
StoreMessage ==
    /\ stored < MaxMessages /\ stored' = stored + 1
    /\ \E late \in 0 .. Lesser(MaxLate, Len(history)) :
          history' = InsertAt(history, Len(history) + 1 - late, stored + 1)
    /\ wanted' \in {wanted, wanted + 1}
    /\ UNCHANGED <<summary, lock, task, prompt, deletes, lapses, crashes, deleted>>

Removed == IF \E w \in Task : Working(w) THEN {} ELSE Span(1, Len(history))

\* Mutant: the summary key is not among those deleted.
DeleteSessionNotSummary ==
    /\ deletes < MaxDeletes /\ deletes' = deletes + 1
    /\ history' = <<>>
    /\ deleted' = deleted \cup Removed
    /\ UNCHANGED <<summary, lock, wanted, task, prompt, stored, lapses, crashes>>

\* delete_session: DEL of messages and summary in one command, not of the lock.
DeleteSession ==
    /\ deletes < MaxDeletes /\ deletes' = deletes + 1
    /\ history' = <<>> /\ summary' = NoSummary
    /\ deleted' = deleted \cup Removed
    /\ UNCHANGED <<lock, wanted, task, prompt, stored, lapses, crashes>>

\* get_history_for_llm, first command: GET of the summary.
StartPrompt ==
    /\ prompt.phase # "started"
    /\ prompt' = [phase |-> "started", summary |-> summary, recent |-> {},
                  due |-> Span(1, Len(history))]
    /\ UNCHANGED <<shared, wanted, task, bounds, deleted>>

\* Second command: the messages from covered_count on, or the last Window.
FirstRecent(s) ==
    IF Exists(s) THEN s.covered + 1
    ELSE IF Len(history) <= Window THEN 1 ELSE Len(history) - Window + 1

\* Mutant: the range starts one message late.
FinishPromptLate ==
    /\ prompt.phase = "started"
    /\ prompt' = [prompt EXCEPT !.phase = "read",
                     !.recent = Span(FirstRecent(prompt.summary) + 1, Len(history))]
    /\ UNCHANGED <<shared, wanted, task, bounds, deleted>>

FinishPrompt ==
    /\ prompt.phase = "started"
    /\ prompt' = [prompt EXCEPT !.phase = "read",
                     !.recent = Span(FirstRecent(prompt.summary), Len(history))]
    /\ UNCHANGED <<shared, wanted, task, bounds, deleted>>

\* The summary has a TTL of its own, renewed only when it is saved.
SummaryExpires ==
    /\ Exists(summary) /\ lapses < MaxLapses /\ lapses' = lapses + 1
    /\ summary' = NoSummary
    /\ UNCHANGED <<history, lock, wanted, task, prompt, stored, deletes, crashes,
                   deleted>>

\* Mutant: the lock is set without a TTL.
LockNeverExpires == FALSE /\ UNCHANGED vars

LockExpires ==
    /\ lock # Free
    /\ TasksFitTTL => ~Working(lock)
    /\ lock' = Free
    /\ UNCHANGED <<history, summary, wanted, task, prompt, bounds, deleted>>

WorkerDies(w) ==
    /\ Working(w) /\ crashes < MaxCrashes /\ crashes' = crashes + 1
    /\ End(w)
    /\ UNCHANGED <<shared, wanted, prompt, stored, deletes, lapses, deleted>>

-----------------------------------------------------------------------------
Run(w) ==
    \/ CountMessages(w) \/ Decide(w) \/ Fetch(w) \/ Summarize(w) \/ Save(w)
    \/ Release(w)

Next ==
    \/ \E w \in Task : Start(w) \/ Run(w) \/ WorkerDies(w)
    \/ Skip \/ StoreMessage \/ DeleteSession \/ StartPrompt \/ FinishPrompt
    \/ SummaryExpires \/ LockExpires

Spec == Init /\ [][Next]_vars

\* A started task goes on and Redis expires a key whose time is over.
FairSpec ==
    /\ Spec
    /\ \A w \in Task : WF_vars(Run(w))
    /\ WF_vars(LockExpires)

-----------------------------------------------------------------------------
(* Properties.                                                              *)

SummaryType == [covered : Nat, of : SUBSET Nat]

\* Every variable keeps its type: no covered_count below zero, no task started
\* that was not created.
TypeOK ==
    /\ history \in Seq(Nat) /\ summary \in SummaryType
    /\ lock \in Task \cup {Free} /\ wanted \in Nat
    /\ at \in [Task -> Place] /\ count \in [Task -> Nat]
    /\ base \in [Task -> SummaryType] /\ batch \in [Task -> SUBSET Nat]
    /\ prompt \in [phase : {"none", "started", "read"}, summary : SummaryType,
                   recent : SUBSET Nat, due : SUBSET Nat]
    /\ {stored, deletes, lapses, crashes} \subseteq Nat
    /\ deleted \subseteq Nat

\* Two tasks never summarize the session at once ("Prevent race condition via
\* Redis lock"), as long as no live task outlives the lock.
OneSummarizer ==
    TasksFitTTL => \A v, w \in Task : Working(v) /\ Working(w) => v = w

\* The stored summary was made from exactly the first covered_count messages,
\* with messages landing late and, after the lock's TTL, tasks overlapping; and
\* the last Keep messages are never covered.  (Until the session is deleted.)
SummaryIsThePrefix ==
    deletes = 0 =>
        /\ summary.covered + Keep <= Len(history) \/ ~Exists(summary)
        /\ summary.of = Span(1, summary.covered)

\* A prompt built from summary and recent messages, read by two commands while
\* tasks save and messages arrive, leaves no message out that was there when it
\* began.  Without a summary that holds of histories that fit the window.
PromptHasEveryMessage ==
    (deletes = 0 /\ prompt.phase = "read") =>
        \/ prompt.due \subseteq prompt.summary.of \cup prompt.recent
        \/ ~Exists(prompt.summary) /\ stored > Window

\* A summary is replaced only by one that covers at least Interval messages
\* more: no task undoes or repeats the work of another.
SummaryAdvances ==
    [][(TasksFitTTL /\ deletes = 0 /\ Exists(summary) /\ Exists(summary')
        /\ summary' # summary)
       => summary'.covered >= summary.covered + Interval]_vars

\* The summary lock does not stay for ever, whoever dies while holding it.
SummaryLockFreed == lock # Free ~> lock = Free

\* "Delete all keys (including tool context and summary)"
\* (chat_history_service.py): messages that were deleted while no task was at
\* work never come back in a summary, whatever tasks find, skip or crash
\* afterwards.  (A task under way at the deletion saves what it has read.)
DeletedAreForgotten == summary.of \cap deleted = {}

=============================================================================
