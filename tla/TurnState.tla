----------------------------- MODULE TurnState -----------------------------
(***************************************************************************)
(* What the turns of one session leave behind for the next one: the slots  *)
(* (the customer's choices, a field of chat:meta) and the tool context     *)
(* (results of tool calls, chat:tool_ctx).  A turn reads both, works for   *)
(* seconds and writes them back; each of its branches has its own order of *)
(* saving and telling (chat_v3/service.py, _run_turn_impl), and the reader *)
(* of a stream stops at [DONE] (api/tstation/chat_message.py), so that     *)
(* nothing after it runs.  Quick orders write the same keys.  The lock of  *)
(* ChatSession keeps requests apart unless one outlives it.                *)
(* A choice is a fact of the turn that made it; what a later choice resets *)
(* is the subject of OrderFlow, so here no fact replaces another.          *)
(***************************************************************************)
EXTENDS Naturals, Sequences, SequencesExt

CONSTANTS
    MaxTurns,    \* bound: requests of the session
    Key,         \* tool calls told apart by tool and input
    MaxCalls,    \* bound: tool calls of a turn
    MaxContext,  \* _MAX_TOOL_CONTEXT_ITEMS
    MaxFaults,   \* bound: errors of Redis, exceptions and lost processes
    MaxLapses,   \* bound: turns that outlive the lock
    MaxDeletes   \* bound: deletions and expiries of the tool context

ASSUME TurnsAssumption ==
    /\ {MaxTurns, MaxFaults, MaxLapses, MaxDeletes} \subseteq Nat
    /\ {MaxCalls, MaxContext} \subseteq Nat \ {0}

Turn == 1..MaxTurns
Fact == [turn : Turn, kind : {"clicked", "said", "found"}]
Item == [turn : Turn, at : 1..MaxCalls, key : Key]

VARIABLES
    slots,     \* the stored slots: facts
    ctx,       \* the stored tool context, newest first
    begun,     \* number of requests so far
    kind,      \* "stream", "sync" or "quick"
    pc,        \* where each request is
    branch,    \* the branch of _run_turn_impl it took
    mine,      \* its slots
    calls,     \* the tool calls it made, results that are worth storing
    existing,  \* the tool context as finalize_chat_context_async read it
    told,      \* what its client was told
    faults, lapses, deletes,
    overlapped, \* ghost: two requests were at work together
    misread,    \* ghost: a failed read of the slots was taken for "none"
    unsaved,    \* ghost: requests with a write that failed
    expired,    \* ghost: requests begun before the tool context expired
    before,     \* ghost: requests begun before the last deletion
    revived     \* ghost: one under way at a deletion wrote after it

store == <<slots, ctx>>
local == <<kind, branch, mine, calls, existing>>
budget == <<faults, lapses, deletes>>
ghosts == <<overlapped, misread, unsaved, expired, before, revived>>
vars == <<store, begun, pc, local, told, budget, ghosts>>

Working == {"loading", "routing", "loop", "answering", "ordering", "saving",
            "reading", "merging", "noting", "telling", "early"}

Init ==
    /\ slots = {} /\ ctx = <<>> /\ begun = 0
    /\ kind = [t \in Turn |-> "stream"] /\ pc = [t \in Turn |-> "new"]
    /\ branch = [t \in Turn |-> "none"] /\ mine = [t \in Turn |-> {}]
    /\ calls = [t \in Turn |-> <<>>] /\ existing = [t \in Turn |-> <<>>]
    /\ told = [t \in Turn |-> "nothing"]
    /\ faults = 0 /\ lapses = 0 /\ deletes = 0
    /\ overlapped = FALSE /\ misread = FALSE
    /\ unsaved = {} /\ expired = {} /\ before = {} /\ revived = FALSE

-----------------------------------------------------------------------------
Goto(t, place) == pc' = [pc EXCEPT ![t] = place]
\* The request is over, and its client was told so.
Finish(t, what) ==
    /\ Goto(t, "over") /\ told' = [told EXCEPT ![t] = what]
    /\ mine' = [mine EXCEPT ![t] = {}] /\ existing' = [existing EXCEPT ![t] = <<>>]
    /\ UNCHANGED <<kind, branch, calls>>
Fault == faults < MaxFaults /\ faults' = faults + 1 /\ UNCHANGED <<lapses, deletes>>
NoFault == UNCHANGED budget

Clicked(t) == [turn |-> t, kind |-> "clicked"]
Said(t) == [turn |-> t, kind |-> "said"]
Found(t) == [turn |-> t, kind |-> "found"]

\* The next request gets the lock, or has got it because one at work outlived it.
Begin(t) ==
    /\ t = begun + 1 /\ begun' = t
    /\ IF \E u \in Turn : pc[u] \in Working
         THEN /\ lapses < MaxLapses /\ lapses' = lapses + 1
              /\ overlapped' = TRUE
         ELSE UNCHANGED <<lapses, overlapped>>
    /\ \E k \in {"stream", "sync", "quick"} :
          /\ kind' = [kind EXCEPT ![t] = k]
          /\ Goto(t, IF k = "quick" THEN "ordering" ELSE "loading")
    /\ UNCHANGED <<store, branch, mine, calls, existing, told, faults, deletes,
                   misread, unsaved, expired, before, revived>>

\* load_slots: an error gives empty slots.
Load(t) ==
    /\ pc[t] = "loading"
    /\ \/ /\ mine' = [mine EXCEPT ![t] = slots]
          /\ NoFault /\ UNCHANGED misread
       \/ /\ Fault /\ mine' = [mine EXCEPT ![t] = {}]
          /\ misread' = (misread \/ slots # {})
    /\ Goto(t, "routing")
    /\ UNCHANGED <<store, begun, kind, branch, calls, existing, told,
                   overlapped, unsaved, expired, before, revived>>

\* Where a branch goes when its answer is made.  The two staggered branches
\* before the tool loop tell first.
Ends(b) == IF b = "staggered" THEN "early" ELSE "saving"

\* What the branch knows of the message: the card click is in the slots before
\* the router is asked, its patch is applied behind the guards and static FAQs.
Known(t, b) == IF b = "guarded" THEN {Clicked(t)} ELSE {Clicked(t), Said(t)}

\* Mutant: the slots of the request are started from the new choices alone.
RouteAfresh(t) ==
    /\ pc[t] = "routing"
    /\ \E b \in {"guarded", "short", "staggered", "tools"} :
          /\ branch' = [branch EXCEPT ![t] = b]
          /\ Goto(t, IF b = "tools" THEN "loop" ELSE Ends(b))
          /\ mine' = [mine EXCEPT ![t] = Known(t, b)]
    /\ UNCHANGED <<store, begun, kind, calls, existing, told, budget, ghosts>>

\* The branches before the tool loop: the answer of a guard or a static FAQ, a
\* short answer (the redirect of a store visit), a question about a staggered
\* vehicle; or the loop.
Route(t) ==
    /\ pc[t] = "routing"
    /\ \E b \in {"guarded", "short", "staggered", "tools"} :
          /\ branch' = [branch EXCEPT ![t] = b]
          /\ Goto(t, IF b = "tools" THEN "loop" ELSE Ends(b))
          /\ mine' = [mine EXCEPT ![t] = @ \cup Known(t, b)]
    /\ UNCHANGED <<store, begun, kind, calls, existing, told, budget, ghosts>>

\* The tool loop, with the calls of the turn in their order.
RunTools(t) ==
    /\ pc[t] = "loop"
    /\ \E n \in 0..MaxCalls : \E keys \in [1..n -> Key] :
          calls' = [calls EXCEPT ![t] =
                       [i \in 1..n |-> [turn |-> t, at |-> i, key |-> keys[i]]]]
    /\ Goto(t, "answering")
    /\ UNCHANGED <<store, begun, kind, branch, mine, existing, told, budget, ghosts>>

\* The branches after it.  The answer that is replaced as ungrounded saves the
\* slots from before the loop; a full one (with the question about the sizes
\* of a vehicle that was found, or the final answer) what the calls resolved.
Answer(t) ==
    /\ pc[t] = "answering"
    /\ \E b \in {"ungrounded", "full"} :
          /\ branch' = [branch EXCEPT ![t] = b]
          /\ mine' = [mine EXCEPT ![t] =
                         IF b = "ungrounded" THEN @ ELSE @ \cup {Found(t)}]
    /\ Goto(t, "saving")
    /\ UNCHANGED <<store, begun, kind, calls, existing, told, budget, ghosts>>

\* An order button: a payload that is not valid is refused, and else there is
\* one call, which always has an answer.
Order(t) ==
    /\ pc[t] = "ordering"
    /\ \/ /\ branch' = [branch EXCEPT ![t] = "refused"]
          /\ Goto(t, "telling") /\ UNCHANGED calls
       \/ /\ \E k \in Key :
                calls' = [calls EXCEPT ![t] = <<[turn |-> t, at |-> 1, key |-> k]>>]
          /\ branch' = [branch EXCEPT ![t] = "order"]
          /\ Goto(t, "reading")
    /\ UNCHANGED <<store, begun, kind, mine, existing, told, budget, ghosts>>

-----------------------------------------------------------------------------
(* Saving.  A write that raises may have been executed; nobody is told.     *)

\* persist_turn_context is called, and has something to store.
Persists(t) ==
    branch[t] \in {"full", "order"} /\ calls[t] # <<>>

Revives(t) == revived' = (revived \/ t \in before)
AfterSave(t) == IF kind[t] # "quick" /\ Persists(t) THEN "reading" ELSE "telling"

SaveSlots(t) ==
    /\ pc[t] = "saving"
    /\ \/ /\ slots' = mine[t] /\ Revives(t)
          /\ NoFault /\ UNCHANGED unsaved
       \/ /\ Fault /\ unsaved' = unsaved \cup {t}
          /\ \/ slots' = mine[t] /\ Revives(t)
             \/ UNCHANGED <<slots, revived>>
    /\ Goto(t, AfterSave(t))
    /\ UNCHANGED <<ctx, begun, local, told, overlapped, misread, expired, before>>

\* An exception while the context is persisted is logged, and the rest skipped.
GiveUp(t) == Fault /\ unsaved' = unsaved \cup {t} /\ Goto(t, "telling")

\* finalize_chat_context_async, first: GET.
ReadContext(t) ==
    /\ pc[t] = "reading"
    /\ \/ /\ existing' = [existing EXCEPT ![t] = ctx]
          /\ Goto(t, "merging") /\ NoFault /\ UNCHANGED unsaved
       \/ GiveUp(t) /\ UNCHANGED existing
    /\ UNCHANGED <<store, begun, kind, branch, mine, calls, told,
                   overlapped, misread, expired, before, revived>>

\* The places of the first item of each key.
Firsts(all) ==
    {i \in DOMAIN all : \A j \in 1..(i - 1) : all[j].key # all[i].key}
\* The n-th of a set of places.
Nth(places, n) == CHOOSE i \in places : Cardinality({j \in places : j <= i}) = n

\* Mutant: the newest results are not cut to as many as the context takes.
DedupedWhole(all) ==
    [n \in 1..Cardinality(Firsts(all)) |-> all[Nth(Firsts(all), n)]]

\* The first of each key stays, and as many as the context takes.
Deduped(all) ==
    [n \in 1..Min({Cardinality(Firsts(all)), MaxContext}) |-> all[Nth(Firsts(all), n)]]

\* Mutant: the stored results go before the new ones.
MergedOldFirst(new, old) == Deduped(old \o Reverse(new))

\* New results, newest first, then the stored ones.
Merged(new, old) == Deduped(Reverse(new) \o old)

\* Then: SET.  A quick order goes on to its note in the slots.
WriteContext(t) ==
    /\ pc[t] = "merging"
    /\ \/ /\ ctx' = Merged(calls[t], existing[t]) /\ Revives(t)
          /\ Goto(t, IF kind[t] = "quick" THEN "noting" ELSE "telling")
          /\ NoFault /\ UNCHANGED unsaved
       \/ /\ GiveUp(t)
          /\ \/ ctx' = Merged(calls[t], existing[t]) /\ Revives(t)
             \/ UNCHANGED <<ctx, revived>>
    /\ UNCHANGED <<slots, begun, local, told, overlapped, misread, expired, before>>

\* _persist_quick_order_attempt_context reads the slots to add the attempt.
NoteAttempt(t) ==
    /\ pc[t] = "noting"
    /\ \/ /\ mine' = [mine EXCEPT ![t] = slots \cup {Said(t)}]
          /\ Goto(t, "saving") /\ NoFault /\ UNCHANGED unsaved
       \/ GiveUp(t) /\ UNCHANGED mine
    /\ UNCHANGED <<store, begun, kind, branch, calls, existing, told,
                   overlapped, misread, expired, before, revived>>

-----------------------------------------------------------------------------
(* Telling.                                                                 *)

\* [DONE], after everything is saved.
SendDone(t) ==
    /\ pc[t] = "telling"
    /\ Finish(t, "done")
    /\ UNCHANGED <<store, begun, budget, ghosts>>

\* [DONE] in a staggered branch.  The reader of a stream closes the generator
\* there; a request that is not streamed goes on to the saves.
SendDoneEarly(t) ==
    /\ pc[t] = "early"
    /\ IF kind[t] = "stream" THEN Finish(t, "done")
       ELSE Goto(t, "saving") /\ UNCHANGED <<told, local>>
    /\ UNCHANGED <<store, begun, budget, ghosts>>

\* _run_turn_safe: an exception ends the turn with the error answer.
Raise(t) ==
    /\ Fault
    /\ pc[t] \in {"routing", "loop", "answering"}
    /\ Finish(t, "error")
    /\ UNCHANGED <<store, begun, ghosts>>

\* The client aborts or leaves, or the process ends: nothing further runs.
Cut(t) ==
    /\ pc[t] \in Working
    /\ IF kind[t] = "stream" THEN NoFault ELSE Fault
    /\ Finish(t, "cut")
    /\ UNCHANGED <<store, begun, ghosts>>

-----------------------------------------------------------------------------
(* Deletion and expiry.                                                     *)

Clearing == deletes < MaxDeletes /\ deletes' = deletes + 1
            /\ UNCHANGED <<faults, lapses>>

\* Mutant: the tool context of a deleted session is left.
DeleteKeepsContext ==
    /\ Clearing
    /\ slots' = {} /\ UNCHANGED ctx
    /\ before' = 1..begun /\ revived' = FALSE
    /\ UNCHANGED <<begun, pc, local, told, overlapped, misread, unsaved, expired>>

\* delete_session, whether or not a request is at work.
Delete ==
    /\ Clearing
    /\ slots' = {} /\ ctx' = <<>>
    /\ before' = 1..begun /\ revived' = FALSE
    /\ UNCHANGED <<begun, pc, local, told, overlapped, misread, unsaved, expired>>

\* Two hours without a result: the tool context is gone.
ContextExpires ==
    /\ Clearing
    /\ ctx # <<>> /\ ctx' = <<>>
    /\ ~ \E t \in Turn : pc[t] \in Working
    /\ expired' = 1..begun
    /\ UNCHANGED <<slots, begun, pc, local, told, overlapped, misread, unsaved,
                   before, revived>>

Next ==
    \/ \E t \in Turn :
          \/ Begin(t) \/ Load(t) \/ Route(t) \/ RunTools(t) \/ Answer(t) \/ Order(t)
          \/ SaveSlots(t) \/ ReadContext(t) \/ WriteContext(t) \/ NoteAttempt(t)
          \/ SendDone(t) \/ SendDoneEarly(t) \/ Raise(t) \/ Cut(t)
    \/ Delete \/ ContextExpires

Spec == Init /\ [][Next]_vars

-----------------------------------------------------------------------------
\* Every variable keeps its type, the two stored ones included; above all the
\* tool context, which each turn adds to and which goes into every prompt, never
\* grows over its limit, also when the merges of two turns overlap.
TypeOK ==
    /\ slots \subseteq Fact /\ begun \in 0..MaxTurns
    /\ ctx \in Seq(Item) /\ Len(ctx) <= MaxContext
    /\ kind \in [Turn -> {"stream", "sync", "quick"}]
    /\ pc \in [Turn -> Working \cup {"new", "over"}]
    /\ branch \in [Turn -> {"none", "guarded", "short", "staggered", "tools",
                            "ungrounded", "full", "order", "refused"}]
    /\ mine \in [Turn -> SUBSET Fact]
    /\ calls \in [Turn -> Seq(Item)] /\ existing \in [Turn -> Seq(Item)]
    /\ told \in [Turn -> {"nothing", "done", "error", "cut"}]
    /\ faults \in Nat /\ lapses \in Nat /\ deletes \in Nat
    /\ overlapped \in BOOLEAN /\ misread \in BOOLEAN /\ revived \in BOOLEAN
    /\ unsaved \subseteq Turn /\ expired \subseteq Turn /\ before \subseteq Turn

\* Done, all writes answered, and the session not deleted since.
Told(t) == told[t] = "done" /\ t \notin unsaved \cup before
Apart == ~overlapped /\ ~misread

\* The facts a turn has to leave behind.
Promised(t) ==
    CASE branch[t] = "refused" -> {}
      [] branch[t] = "order" -> {Said(t)}
      [] branch[t] = "full" -> {Clicked(t), Said(t), Found(t)}
      [] OTHER -> Known(t, branch[t])

\* What a turn that was told done made of the customer's choices is there for
\* every later turn, whatever later ones do or how they fail, unless a write or
\* the read of the slots failed or two turns overlapped; but not in a stream
\* whose branch tells before it saves.
ChoicesKept ==
    Apart => \A t \in Turn :
        Told(t) /\ ~(branch[t] = "staggered" /\ kind[t] = "stream")
            => Promised(t) \subseteq slots

Newer(a, b) == a.turn > b.turn \/ (a.turn = b.turn /\ a.at > b.at)
Items(s) == {s[i] : i \in DOMAIN s}

\* Every result of a turn that was told done (an order it placed, a schedule
\* it checked) is in the tool context, or a newer result of the same call is,
\* or MaxContext newer ones; unless its answer was replaced as ungrounded.
ResultsKept ==
    ~overlapped => \A t \in Turn :
        Told(t) /\ t \notin expired /\ branch[t] # "ungrounded" =>
        \A item \in Items(calls[t]) :
            \/ \E kept \in Items(ctx) :
                  kept.key = item.key /\ (kept = item \/ Newer(kept, item))
            \/ Len(ctx) = MaxContext /\ \A kept \in Items(ctx) : Newer(kept, item)

\* A session that was deleted starts from nothing: only a request that was
\* under way at the deletion can bring back slots or results from before it.
DeletionForgets ==
    ~revived => /\ \A fact \in slots : fact.turn \notin before
                /\ \A item \in Items(ctx) : item.turn \notin before
=============================================================================
