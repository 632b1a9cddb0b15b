------------------------------- MODULE Router -------------------------------
(***************************************************************************)
(* The router of a turn (chat_v3/router/route.py): a model classifies the  *)
(* message, and eight rules in a fixed order correct what it said.  A      *)
(* guard ends the turn with a fixed text; an intent that is the key of a   *)
(* static FAQ ends it with that FAQ; else the tool loop gets the tools of  *)
(* the domains.  Each rule overwrites what earlier ones decided.           *)
(*                                                                         *)
(* A message is what the rules find in it.  The delivery policies are one, *)
(* and so are the guards that no rule looks at.  Intents that are no key of *)
(* anything are left out; what is taken out leaves one of these, "other".  *)
(***************************************************************************)
EXTENDS Naturals, Sequences, SequencesExt

CONSTANTS
    DomainSets,  \* bound: what the model may answer as domain and extra_domains
    MaxIntents   \* bound: intents it may name

Domain == {"LEADING", "DISCOVERY", "TRANSACTION", "SUPPORT"}

ASSUME RouterAssumption ==
    /\ DomainSets \subseteq (SUBSET Domain) \ {{}} /\ MaxIntents \in Nat

Guard == {"none", "reservation_date_range", "unsupported_brand",
          "nonexistent_benefit", "pickup_info", "past_event_page", "delivery", "pii"}
StaticFaq == {"past_event_page", "runflat", "late_night", "pickup_status",
              "pickup_info", "delivery"}
Intent == StaticFaq \cup {"competitor_counterpart_guidance"}

RouteDecision == [guard : Guard, domains : DomainSets, intents : SeqOf(Intent, MaxIntents)]

Message ==
    [day : {"none", "inside", "outside"},     \* the requested day, of the window
     borneOut : BOOLEAN,        \* the evidence the brand or benefit guard asks for
     excludesOwned : BOOLEAN,   \* the customer does not mean the coupons they own
     runflat : BOOLEAN,         \* the model: a question about mixing runflat tires
     lateNight : BOOLEAN,       \* what the gates on the text say
     pickup : {"no", "pickup_status", "pickup_info"},
     delivery : BOOLEAN]

-----------------------------------------------------------------------------
(* The rules, in their order.                                               *)

\* _decide_reservation_date_guard: the day decides, unless another guard fired.
DayDecided(d, m) ==
    LET date == "reservation_date_range" IN
    [d EXCEPT !.guard = CASE @ = "none" /\ m.day = "outside" -> date
                          [] @ = date /\ m.day # "outside" -> "none"
                          [] OTHER -> @]

\* The customer does not want the unsupported brand, or not any more.
BrandCleared(d, m) ==
    IF d.guard = "unsupported_brand" /\ ~m.borneOut
      THEN [d EXCEPT !.guard = "none", !.domains = {"DISCOVERY"}] ELSE d

\* (The intents it rewrites are no keys.)
BenefitChecked(d, m) ==
    IF m.excludesOwned THEN [d EXCEPT !.guard = "none", !.domains = {"DISCOVERY"}]
    ELSE IF d.guard = "nonexistent_benefit" /\ ~m.borneOut
      THEN [d EXCEPT !.guard = "none"] ELSE d

\* The form of the other rules: the FAQ goes first, unless the model named it.
Faq(d, key) ==
    [guard |-> "none", domains |-> {"SUPPORT"},
     intents |-> IF Contains(d.intents, key) THEN d.intents ELSE <<key>> \o d.intents]

StaticMoved(d) == IF d.guard \in {"past_event_page", "delivery"} THEN Faq(d, d.guard) ELSE d
RunflatApplied(d, m) == IF m.runflat THEN Faq(d, "runflat") ELSE d
LateNightApplied(d, m) == IF m.lateNight THEN Faq(d, "late_night") ELSE d

\* Without a pickup in the text the model's own idea of one is taken out.
PickupFaqs == {"pickup_status", "pickup_info"}
PickupApplied(d, m) ==
    IF m.pickup # "no" THEN Faq(d, m.pickup)
    ELSE [d EXCEPT !.intents = [i \in DOMAIN @ |->
                                   IF @[i] \in PickupFaqs THEN "other" ELSE @[i]],
                   !.guard = IF @ \in PickupFaqs THEN "none" ELSE @]

DeliveryApplied(d, m) == IF m.delivery THEN Faq(d, "delivery") ELSE d

FaqsApplied(d, m) ==
    DeliveryApplied(PickupApplied(LateNightApplied(RunflatApplied(
        StaticMoved(d), m), m), m), m)

\* Mutant: the day is decided when the other rules are through.
RoutedDayLast(d, m) == DayDecided(FaqsApplied(BenefitChecked(BrandCleared(d, m), m), m), m)

\* route_request, after the model's answer.
Routed(d, m) == FaqsApplied(BenefitChecked(BrandCleared(DayDecided(d, m), m), m), m)

-----------------------------------------------------------------------------
(* What the turn makes of it.                                               *)

\* _run_turn_impl: the guard that has a text, the first FAQ, or the loop.
HasText(guard) == guard \notin {"none"} \cup PickupFaqs
AnswerOf(d) ==
    LET faqs == {i \in DOMAIN d.intents : d.intents[i] \in StaticFaq} IN
    IF HasText(d.guard) THEN d.guard
    ELSE IF faqs # {} THEN d.intents[Min(faqs)] ELSE "loop"

\* tools_for_domains: a profile narrows the tools, but never to none.
BindsTools(d) ==
    d.domains # {"LEADING"} /\ ~ Contains(d.intents, "competitor_counterpart_guidance")
=============================================================================
