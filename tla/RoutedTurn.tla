----------------------------- MODULE RoutedTurn -----------------------------
(***************************************************************************)
(* A turn from its message to its answer (chat_v3/service.py,              *)
(* _run_turn_impl): the router decides, and the turn ends with the text of *)
(* a guard or a static FAQ, or builds a ToolLoop with the tools of the     *)
(* decision.  The branches that depend on slots are in TurnState.          *)
(***************************************************************************)
EXTENDS ToolLoop, Router

VARIABLES
    message,   \* what the customer wrote
    proposed,  \* what the routing model answered
    answer     \* how the turn goes on: a guard, a FAQ, "loop" or, without a
               \* decision, "chat"

route == <<message, proposed, answer>>
turnVars == <<vars, route>>

NoMessage == [day |-> "none", borneOut |-> FALSE, excludesOwned |-> FALSE,
              runflat |-> FALSE, lateNight |-> FALSE, pickup |-> "no", delivery |-> FALSE]
NoDecision == [guard |-> "none", domains |-> {"LEADING"}, intents |-> <<>>]

TurnInit == Init /\ message \in Message /\ proposed = NoDecision /\ answer = "none"

\* route_request and the branches on its decision.
Decide ==
    /\ pc = "new" /\ answer = "none"
    /\ proposed' \in RouteDecision
    /\ answer' = AnswerOf(Routed(proposed', message))
    /\ UNCHANGED <<vars, message>>

\* An error of the router: the turn is pure chat.
RouterFails ==
    /\ pc = "new" /\ answer = "none"
    /\ answer' = "chat"
    /\ UNCHANGED <<vars, message, proposed>>

\* The executor of the turn.  What was routed is dropped: no property needs it.
Enter ==
    /\ Bind
    /\ \/ answer = "loop" /\ tools' = BindsTools(Routed(proposed, message))
       \/ answer = "chat" /\ tools' = FALSE
    /\ message' = NoMessage /\ proposed' = NoDecision /\ answer' = "none"

TurnNext ==
    \/ Decide \/ RouterFails \/ Enter
    \/ (Loop \/ RequireTool \/ Rewrite) /\ UNCHANGED route

TurnSpec == TurnInit /\ [][TurnNext]_turnVars

-----------------------------------------------------------------------------
Classified == answer \notin {"none", "chat"}
\* The gates on the text that fired.
Fired == {key \in StaticFaq : \/ key = "runflat" /\ message.runflat
                              \/ key = "late_night" /\ message.lateNight
                              \/ key = message.pickup
                              \/ key = "delivery" /\ message.delivery}

\* A customer who asks for a day outside the booking window is told so or gets
\* another fixed answer; the tools see such a day only when coupons were
\* excluded or the model had named a guard that a later rule cleared.
DayIsTold ==
    /\ answer = "reservation_date_range" => message.day = "outside"
    /\ message.day = "outside" /\ answer = "loop" =>
          \/ message.excludesOwned
          \/ proposed.guard \in {"unsupported_brand", "nonexistent_benefit", "pickup_info"}

\* A gate that fired is never overruled by a guard, and the FAQ told is its own
\* or that of another one that fired; unless the model had named all of these,
\* and another FAQ in front of them.
GatesAreHeard ==
    /\ Fired # {} => answer \in StaticFaq
    /\ Fired # {} /\ answer \notin Fired => Fired \subseteq ToSet(proposed.intents)

\* What the model alone says of brands, benefits and pickups is not told.
ModelIsChecked ==
    /\ answer \in {"unsupported_brand", "nonexistent_benefit"} => message.borneOut
    /\ answer \in PickupFaqs => message.pickup # "no"

\* The rules overwrite each other's decisions: in whatever combination they
\* apply, the answer of the turn is one the message calls for.
AnswerHasGround == Classified => DayIsTold /\ GatesAreHeard /\ ModelIsChecked
=============================================================================
