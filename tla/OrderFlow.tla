----------------------------- MODULE OrderFlow -----------------------------
(***************************************************************************)
(* An order taken over several turns: the slots that name it, what a new   *)
(* choice resets (schemas/tstation/slots.py), what the tool calls of a     *)
(* turn put into them (chat_v3/slots/derive.py, templates.py), the check   *)
(* of the installation schedule (chat_v3/schedule_validation.py) and the   *)
(* order card, with the button that places the order.                      *)
(* The arguments of a call and the router's patch are the models' and may  *)
(* be anything.  Words are not kept: whether a name in a patch or in a     *)
(* search result is another one than the stored is open, and so is whether *)
(* the customer is ordering.  One turn after another; the ways slots and   *)
(* context are lost between turns are in TurnState.                        *)
(***************************************************************************)
EXTENDS Naturals, Sequences, FiniteSets

CONSTANTS
    Goods, Shop, Day, Hour,
    Qty,        \* quantities
    Answers,    \* what an availability call may list: sets of shop and day
    MaxCalls,   \* bound: tool calls of a turn that the model makes
    MaxStray,   \* bound: arguments of a call that the slots do not have
    None        \* no value

ASSUME OrderAssumption ==
    /\ Answers \subseteq SUBSET (Shop \X Day)
    /\ {MaxCalls, MaxStray} \subseteq Nat
    /\ None \notin Goods \cup Shop \cup Day \cup Hour \cup Qty

Args == {"goods", "qty", "shop", "day", "hour"}
Field == Args \cup {"amount"}
Opt(S) == S \cup {None}
Slots == [goods : Opt(Goods), qty : Opt(Qty), shop : Opt(Shop), day : Opt(Day),
          hour : Opt(Hour), amount : Opt([goods : Goods, qty : Qty])]
\* A call: its arguments and the one row it returned, None if it has none,
\* and what an availability call listed.
Tool == {"search", "stores", "complex", "availability", "price", "preview"}
Call == [tool : Tool, failed : BOOLEAN, goods : Opt(Goods), qty : Opt(Qty),
         shop : Opt(Shop), day : Opt(Day), hour : Opt(Hour), free : Answers \cup {{}}]

VARIABLES
    slots,     \* the stored slots
    ctx,       \* the newest availability answer in the tool context
    pc,
    schedule,  \* the turn chooses a schedule: by "click", by "text", or not
    confirms,  \* the patch has a field of _CONFIRM_SLOT_KEYS
    ordering,  \* pending_intent is order, or goal_type place_order
    base,      \* the slots before the tool loop
    work,      \* the slots the turn works on
    calls,     \* executor.tool_calls
    harvested, \* number of calls harvest_order_slots has looked at
    required,  \* schedule_validation_required
    evidence,  \* what schedule_evidence says: "none", "free" or "refused"
    listed,    \* ghost: the answer the evidence is from
    card       \* the order card that was shown

turn == <<schedule, confirms, ordering, base>>
check == <<required, evidence, listed>>
vars == <<slots, ctx, pc, turn, work, calls, harvested, check, card>>

Empty == [f \in Field |-> None]

Init ==
    /\ slots = Empty /\ ctx = None /\ pc = "idle"
    /\ schedule = "no" /\ confirms = FALSE /\ ordering = FALSE /\ base = Empty
    /\ work = Empty /\ calls = <<>> /\ harvested = 0
    /\ required = FALSE /\ evidence = "none" /\ listed = {} /\ card = None

-----------------------------------------------------------------------------
(* What a choice resets.                                                    *)

Without(s, fields) == [f \in Field |-> IF f \in fields THEN None ELSE s[f]]

\* DEPENDENT_RESETS: a patch that names another one of these.
UserResets ==
    [product |-> {"goods", "shop", "day", "hour", "amount"},
     qty |-> {"shop", "day", "hour", "amount"},
     shop |-> {"shop", "day", "hour", "amount"},
     region |-> {"shop", "day", "hour"},
     car |-> {"goods", "amount"}]

\* RUNTIME_DEPENDENT_RESETS: a resolved value that is another than the stored.
RuntimeResets ==
    [goods |-> {"shop", "day", "hour", "amount"},
     qty |-> {"shop", "day", "hour", "amount"},
     shop |-> {"day", "hour", "amount"},
     day |-> {}, hour |-> {}]

\* apply_runtime_values: what comes in is never reset by what else comes in.
\* "also" are fields reset for a name that is not kept.
ApplyRuntime(s, values, also) ==
    LET incoming == {f \in DOMAIN values : values[f] # None}
        changed == {f \in incoming : s[f] \notin {None, values[f]}}
        reset == also \cup UNION {RuntimeResets[f] : f \in changed}
    IN  [f \in Field |-> IF f \in incoming THEN values[f]
                         ELSE IF f \in reset THEN None ELSE s[f]]

\* merge, by apply_patch: "other" are the named things that are others than
\* the stored ones.  "same": the patch names the product again, in the stored
\* words or longer ones, and a goods_no that was reset is restored.  The
\* schedule is set after everything that resets it.
Merge(s, other, same, qty, day, hour) ==
    LET changed == other \cup (IF qty # None /\ s.qty \notin {None, qty}
                                 THEN {"qty"} ELSE {})
        reset == UNION {UserResets[x] : x \in changed}
    IN  [Without(s, IF same THEN reset \ {"goods"} ELSE reset) EXCEPT
            !.qty = IF qty # None THEN qty ELSE @,
            !.day = IF day # None THEN day ELSE @,
            !.hour = IF hour # None THEN hour ELSE @]

-----------------------------------------------------------------------------
(* The turn up to the tool loop.                                            *)

\* A card was clicked: its values are in the request (apply_fe_slots).
Clicks == [goods : Goods, qty : Opt(Qty)] \cup [qty : Qty] \cup [shop : Shop]
          \cup [shop : Opt(Shop), day : Day, hour : Hour]

Begin ==
    /\ pc = "idle" /\ pc' = "routing"
    /\ \/ work' = slots /\ schedule' = "no"
       \/ \E values \in Clicks :
             /\ work' = ApplyRuntime(slots, values, {})
             /\ schedule' = IF "day" \in DOMAIN values THEN "click" ELSE "no"
    /\ UNCHANGED <<slots, ctx, confirms, ordering, base, calls, harvested, check, card>>

\* apply_patch, the order intent, and a schedule that is to be chosen anew.
\* The switch to a brand that is sold resets what another product resets.
Route ==
    /\ pc = "routing" /\ pc' = "loop"
    /\ \E other \in SUBSET {"product", "shop", "region", "car"}, qty \in Opt(Qty),
          day \in Opt(Day), hour \in Opt(Hour), same, change, named, order \in BOOLEAN :
          /\ "shop" \in other => named
          /\ LET merged == Merge(work, other, same, qty, day, hour)
             IN  base' = IF change THEN Without(merged, {"day", "hour", "amount"})
                         ELSE merged
          /\ schedule' = IF schedule = "no" /\ {day, hour} # {None}
                           THEN "text" ELSE schedule
          /\ confirms' = (named \/ {qty, day, hour} # {None})
          /\ ordering' = order
    /\ work' = base'
    /\ UNCHANGED <<slots, ctx, calls, harvested, check, card>>

\* The branches with no order in them: a guard or a static FAQ, which save what
\* the click chose and may leave a product for a brand that is sold; a store
\* visit or a staggered vehicle; an answer that is replaced as ungrounded.
AnswerShort ==
    /\ \/ pc = "routing" /\ \E brand \in BOOLEAN :
             work' = IF brand THEN Without(work, UserResets.product) ELSE work
       \/ pc \in {"loop", "harvest"} /\ harvested = 0 /\ work' = base
    /\ pc' = "saving" /\ calls' = <<>>
    /\ UNCHANGED <<slots, ctx, turn, harvested, check, card>>

\* A call showed that the tires of the vehicle differ: the loop has stopped and
\* the size is asked for.  What was derived is saved with the calls, nothing is
\* harvested; the vehicle's sizes may reset what another product resets.
AnswerStopped ==
    /\ pc = "harvest" /\ harvested = 0 /\ calls # <<>>
    /\ pc' = "saving"
    /\ \E sizes \in BOOLEAN :
          work' = IF sizes THEN Without(work, UserResets.product) ELSE work
    /\ UNCHANGED <<slots, ctx, turn, calls, harvested, check, card>>

-----------------------------------------------------------------------------
(* The tool loop.                                                           *)

\* What a call has, and what it may have besides: arguments, or the one row of a
\* search and of an availability call.
Has == [search |-> {"goods"}, stores |-> {"shop"}, complex |-> {"shop"},
        availability |-> {"goods"}, price |-> {"goods"}, preview |-> {"goods", "qty"}]
MayHave == [search |-> {}, stores |-> {}, complex |-> {},
            availability |-> {"qty", "shop", "day"}, price |-> {"qty", "shop"},
            preview |-> {"shop", "day", "hour"}]

\* The calls the model may make.  Of a failed one only the name matters.
ModelCalls ==
    {c \in Call :
        /\ c.free # {} => c.tool = "availability" /\ ~c.failed
        /\ IF c.failed
             THEN c.tool \notin {"search", "stores", "complex"}
                  /\ \A f \in Args : c[f] = None
             ELSE /\ \A f \in Has[c.tool] : c[f] # None
                  /\ \A f \in Args \ (Has[c.tool] \cup MayHave[c.tool]) : c[f] = None}

\* The arguments the slots do not have.
Stray(c, s) == {f \in Args : c[f] \notin {None, s[f]}}
Found(c) == c.tool \in {"search", "stores", "complex"}

\* _transaction_tool_guard: a preview needs the schedule that was chosen.
Denied(c) ==
    /\ c.tool = "preview"
    /\ \/ None \in {base.day, base.hour}
       \/ c.day \notin {None, base.day} \/ c.hour \notin {None, base.hour}

\* derive_slots_from_tool_calls: of each field, what the last call has that is
\* in _INPUT_FIELDS or is its one row.
Gives(c, f) ==
    IF c.failed \/ c.tool \in {"complex", "preview"} THEN None ELSE c[f]
Last(cs, f) ==
    LET giving == {i \in DOMAIN cs : Gives(cs[i], f) # None}
    IN  IF giving = {} THEN None
        ELSE Gives(cs[CHOOSE i \in giving : \A j \in giving : j <= i], f)
Derived(s, cs, relabel) ==
    ApplyRuntime(s, [f \in {"goods", "qty", "shop", "day"} |-> Last(cs, f)],
                 IF relabel THEN RuntimeResets.goods ELSE {})
\* A search may bring another name of the product.
MayRelabel(cs) == \E i \in DOMAIN cs : cs[i].tool = "search"

\* One call, and stop_after_tool, which derives from all of them.
CallTool ==
    /\ pc = "loop" /\ Len(calls) < MaxCalls
    /\ \E c \in ModelCalls :
          /\ Found(c) \/ Cardinality(Stray(c, work)) <= MaxStray
          /\ calls' = Append(calls, IF Denied(c) THEN [c EXCEPT !.failed = TRUE] ELSE c)
    /\ \E relabel \in BOOLEAN :
          /\ relabel => MayRelabel(calls')
          /\ work' = Derived(work, calls', relabel)
    /\ UNCHANGED <<slots, ctx, pc, turn, harvested, check, card>>

-----------------------------------------------------------------------------
(* The check of the schedule, on the slots from before the loop.            *)

Complete(s) == \A f \in Args : s[f] # None

\* needs_preorder_schedule_validation
Needs ==
    /\ schedule # "no" \/ \E i \in DOMAIN calls : calls[i].tool \in {"preview", "price"}
    /\ Complete(base) /\ ordering

\* _evidence_from_payload; the hour is in the day's entry.
Evidence(free) ==
    IF base.hour # None /\ <<base.shop, base.day>> \in free THEN "free" ELSE "refused"

Checks(cs) == {i \in DOMAIN cs : cs[i].tool = "availability"}
LastCheck(cs) == cs[CHOOSE i \in Checks(cs) : \A j \in Checks(cs) : j <= i]

\* current_turn_evidence: the last availability call of the turn.
FromCalls ==
    /\ Checks(calls) # {}
    /\ LET c == LastCheck(calls)
       IN  /\ evidence' = IF c.failed THEN "refused" ELSE Evidence(c.free)
           /\ listed' = IF c.failed THEN {} ELSE c.free
    /\ UNCHANGED calls

\* context_evidence: only if the schedule was clicked or chosen before.
FromContext ==
    /\ Checks(calls) = {} /\ Needs
    /\ schedule # "text" /\ ctx # None
    /\ evidence' = Evidence(ctx) /\ listed' = ctx /\ UNCHANGED calls

\* run_required_tool, with availability_args; the loop is over.
FromRequired ==
    /\ Checks(calls) = {} /\ Needs
    /\ schedule = "text" \/ ctx = None
    /\ \E a \in Answers, s \in Opt(Shop), failed \in BOOLEAN :
          /\ calls' = Append(calls,
                [tool |-> "availability", failed |-> failed, goods |-> base.goods,
                 qty |-> base.qty, shop |-> s, day |-> base.day, hour |-> None,
                 free |-> IF failed THEN {} ELSE a])
          /\ evidence' = IF failed THEN "refused" ELSE Evidence(a)
          /\ listed' = IF failed THEN {} ELSE a

Unchecked == Checks(calls) = {} /\ ~Needs /\ UNCHANGED <<evidence, listed, calls>>

CheckSchedule ==
    /\ pc = "loop" /\ pc' = "harvest"
    /\ required' = Needs
    /\ FromCalls \/ FromContext \/ FromRequired \/ Unchecked
    /\ UNCHANGED <<slots, ctx, turn, work, harvested, card>>

-----------------------------------------------------------------------------
(* Harvest and card.                                                        *)

\* Mutant: the amount of the old product is left.
SetProductForgetful(s, goods) ==
    IF goods = None THEN s ELSE [s EXCEPT !.goods = goods]

\* _set_product_slot: another product makes the amount stale.
SetProduct(s, goods) ==
    IF goods = None THEN s
    ELSE [s EXCEPT !.goods = goods,
                   !.amount = IF s.goods \in {None, goods} THEN @ ELSE None]

\* One round of harvest_order_slots.  The shop of an availability call is in a
\* list and its row is not looked at.
Harvest(s, c) ==
    LET product == SetProduct(s, c.goods)
        set(f) == IF c[f] # None /\ ~(f = "shop" /\ c.tool = "availability")
                    THEN c[f] ELSE s[f]
        raw == [product EXCEPT !.qty = set("qty"), !.shop = set("shop"),
                               !.day = set("day"), !.hour = set("hour")]
    IN  IF c.failed THEN s
        ELSE IF c.tool = "price" /\ raw.qty # None
               THEN [raw EXCEPT !.amount = [goods |-> raw.goods, qty |-> raw.qty]]
               ELSE raw

HarvestCall ==
    /\ pc = "harvest" /\ harvested < Len(calls)
    /\ harvested' = harvested + 1
    /\ work' = Harvest(work, calls[harvested'])
    /\ UNCHANGED <<slots, ctx, pc, turn, calls, check, card>>

Ready == Complete(work) /\ ordering
CardOf(s) == [goods |-> s.goods, qty |-> s.qty, shop |-> s.shop,
              day |-> s.day, hour |-> s.hour]
\* The order card of a preview: what it was given, and else the slots.
PreviewCard(c) == CardOf([f \in Field |-> IF f # "amount" /\ c[f] # None
                                            THEN c[f] ELSE work[f]])

Shown(tool) == {i \in DOMAIN calls : calls[i].tool = tool /\ ~calls[i].failed}
Latest(is) == CHOOSE i \in is : \A j \in is : j <= i

\* build_rich_data_event: the card of the call _pick_source picks.  Whether the
\* size is known, and whether a product search is skipped, is open.
RichCard(sized, skip) ==
    LET sources == {i \in DOMAIN calls : ~calls[i].failed /\ ~(skip /\ calls[i].tool = "search")}
        settled == sized /\ work.goods # None /\ work.qty # None
        c == calls[Latest(sources)]
    IN  IF sources = {} \/ (settled /\ (work.shop = None \/ Shown("availability") # {}))
          THEN None
        ELSE IF c.tool = "preview" THEN PreviewCard(c)
        ELSE IF /\ c.tool = "price" /\ Ready /\ c.goods = work.goods
                /\ c.qty # None \/ work.amount # None
          THEN CardOf(work)
        ELSE None

\* Mutant: the fallback does not ask whether the schedule was verified.
FirstCardUnverified ==
    IF (~required \/ evidence = "free") /\ Shown("preview") # {}
      THEN PreviewCard(calls[Latest(Shown("preview"))])
    ELSE IF confirms /\ Ready THEN CardOf(work)
    ELSE None

\* build_present_order_preview_event, and else build_preorder_fallback
FirstCard ==
    IF (~required \/ evidence = "free") /\ Shown("preview") # {}
      THEN PreviewCard(calls[Latest(Shown("preview"))])
    ELSE IF confirms /\ Ready /\ evidence = "free" THEN CardOf(work)
    ELSE None

\* The card, and the derivation before the save.
Show ==
    /\ pc = "harvest" /\ harvested = Len(calls) /\ pc' = "saving"
    /\ \E sized, skip \in BOOLEAN :
          card' = IF FirstCard # None THEN FirstCard ELSE RichCard(sized, skip)
    /\ \E relabel \in BOOLEAN :
          /\ relabel => MayRelabel(calls)
          /\ work' = Derived(work, calls, relabel)
    /\ UNCHANGED <<slots, ctx, turn, calls, harvested, check>>

-----------------------------------------------------------------------------
Forget ==
    /\ pc' = "idle" /\ schedule' = "no" /\ confirms' = FALSE /\ ordering' = FALSE
    /\ base' = Empty /\ work' = Empty /\ calls' = <<>> /\ harvested' = 0
    /\ required' = FALSE /\ evidence' = "none" /\ listed' = {} /\ card' = None

\* save_slots and persist_turn_context
Save ==
    /\ pc = "saving"
    /\ slots' = work
    /\ ctx' = IF Shown("availability") = {} THEN ctx
              ELSE calls[Latest(Shown("availability"))].free
    /\ Forget

\* An exception, an abort or a lost process: nothing is saved.
Drop ==
    /\ pc # "idle"
    /\ Forget /\ UNCHANGED <<slots, ctx>>

\* The tool context expired, or holds newer results only.
ContextGone ==
    /\ pc = "idle" /\ ctx # None /\ ctx' = None
    /\ UNCHANGED <<slots, pc, turn, work, calls, harvested, check, card>>

Next ==
    \/ Begin \/ Route \/ AnswerShort \/ AnswerStopped \/ CallTool \/ CheckSchedule
    \/ HarvestCall \/ Show \/ Save \/ Drop \/ ContextGone

Spec == Init /\ [][Next]_vars

-----------------------------------------------------------------------------
\* Every variable keeps its type.
TypeOK ==
    /\ slots \in Slots /\ base \in Slots /\ work \in Slots
    /\ ctx \in Answers \cup {{}, None} /\ listed \in Answers \cup {{}}
    /\ pc \in {"idle", "routing", "loop", "harvest", "saving"}
    /\ schedule \in {"no", "click", "text"} /\ confirms \in BOOLEAN
    /\ ordering \in BOOLEAN /\ required \in BOOLEAN
    /\ calls \in Seq(Call) /\ harvested \in Nat
    /\ evidence \in {"none", "free", "refused"}
    /\ card \in [goods : Goods, qty : Qty, shop : Opt(Shop), day : Opt(Day),
                 hour : Opt(Hour)] \cup {None}

\* The amount in the slots, which the models quote as it is, is never that of
\* another product than the slots name: whatever sequence of clicks, patches
\* and calls replaces, loses or restores the product.
AmountIsOfTheGoods ==
    \A s \in {slots, base, work} : s.amount # None => s.amount.goods = s.goods

\* An order card for the shop and the day the conversation had settled before
\* the calls of the turn is shown only if an availability answer, of this turn
\* or an earlier one, lists them; unless the check said they are not free.
CardIsVerified ==
    card # None /\ Complete(base) /\ ordering /\ evidence # "refused"
    /\ card.shop = base.shop /\ card.day = base.day
        => <<card.shop, card.day>> \in listed

\* "We did not go on to the order confirmation", the answer says, if the check
\* said no (validation_answer; a test of the preorder stream says it too): then
\* there is no order card.
RefusedShowsNoCard == required /\ evidence = "refused" => card = None
=============================================================================
