--------------------------- MODULE ToolLoopProofs ---------------------------
(***************************************************************************)
(* What ToolLoop promises for every number of rounds, every batch size and *)
(* with or without tools.  The invariant relates the conversation to the   *)
(* calls that wait, the numbers of calls to the denied batches, and the    *)
(* one fallback request to the flag that pays for it.  The last part is    *)
(* about the router in front of it: what the rules keep of a message, from *)
(* the first to the last, for any number of intents.                       *)
(***************************************************************************)
EXTENDS RoutedTurn, TLAPS, WellFoundedInduction

\* Calls are numbered as they come: a new batch shares none with an old one.
Numbered ==
    /\ pending \subseteq 1 .. issued
    /\ ran \subseteq 1 .. issued
    /\ tainted \subseteq 1 .. issued

\* Calls without a result wait in a batch that is running or was cut off.
Whole ==
    /\ pc \notin {"running", "stopped", "failed"} => pending = {}
    /\ required # {} => pc \in {"answered", "stopped", "rewritten"}
    /\ required = {} => called = resolved \cup pending

\* No call of a denied batch has run or waits to run.
Clean == (ran \cup pending) \cap tainted = {}

\* The fallback request is paid for by selector_fallback_used or ends the turn.
Paid ==
    /\ fallbackAsks \in {0, 1}
    /\ fallbackDue => fallbackUsed /\ fallbackAsks = 0
    /\ ~fallbackUsed /\ fallbackAsks = 1 => pc = "rewritten"

\* After a refusal tools are not bound and no batch runs.
Quiet ==
    /\ blocked # {} => forced /\ pc # "running"
    /\ forced /\ pc = "waiting" => ~bound

\* A result puts the selector aside before the next request.
Told ==
    /\ pc \in {"new", "ready", "waiting"} /\ ran \cup blocked # {} => hasResult
    /\ pc = "waiting" /\ hasResult => model # "selector"
    /\ SelectorNeverTellsResults

Inv == TypeOK /\ Numbered /\ Whole /\ Clean /\ Paid /\ Quiet /\ Told

-----------------------------------------------------------------------------

LEMMA NewCallsAreNew ==
  ASSUME issued \in Nat, NEW n \in 1 .. MaxBatch
  PROVE  /\ NewCalls(n) \subseteq 1 .. (issued + n)
         /\ NewCalls(n) \cap (1 .. issued) = {}
         /\ 1 .. issued \subseteq 1 .. (issued + n)
         /\ issued + n \in Nat
  BY ToolLoopAssumption DEF NewCalls

LEMMA InitInv == Init => Inv
<1> SUFFICES ASSUME Init PROVE Inv
  OBVIOUS
<1>1. TypeOK
  <2>1. 0 \in Nat /\ 0 \in 0 .. MaxToolRounds + 1
    BY ToolLoopAssumption
  <2>2. QED
    BY <2>1 DEF Init, TypeOK, Places, Ended, Models
<1>2. Numbered /\ Whole /\ Clean
  BY DEF Init, Numbered, Whole, Clean
<1>3. Paid /\ Quiet /\ Told
  BY DEF Init, Paid, Quiet, Told, SelectorNeverTellsResults
<1>4. QED
  BY <1>1, <1>2, <1>3 DEF Inv

LEMMA NextInv == Inv /\ [Next]_vars => Inv'
<1> SUFFICES ASSUME Inv, [Next]_vars PROVE Inv'
  OBVIOUS
<1> USE ToolLoopAssumption DEF Inv
<1>1. CASE Ask
  <2>1. TypeOK'
    <3>1. round' \in 0 .. MaxToolRounds + 1 /\ fallbackAsks' \in Nat
      BY <1>1 DEF Ask, Asked, TypeOK
    <3>2. model' \in Models /\ pc' \in Places /\ bound' \in BOOLEAN /\ fallbackDue' \in BOOLEAN
      BY <1>1 DEF Ask, NextModel, TypeOK, Places, Ended, Models
    <3>3. QED
      BY <1>1, <3>1, <3>2 DEF Ask, TypeOK, conversation, flags
  <2>2. (Numbered /\ Whole /\ Clean)'
    BY <1>1 DEF Ask, Numbered, Whole, Clean, conversation, flags
  <2>3. Paid'
    BY <1>1 DEF Ask, Asked, NextModel, Paid, conversation, flags
  <2>4. (Quiet /\ Told)'
    BY <1>1 DEF Ask, NextModel, Quiet, Told, SelectorNeverTellsResults, conversation, flags
  <2>5. QED
    BY <2>1, <2>2, <2>3, <2>4
<1>2. CASE AskForAnswer
  BY <1>2 DEF AskForAnswer, TypeOK, Places, Ended, Models, Numbered, Whole, Clean, Paid,
     Quiet, Told, SelectorNeverTellsResults, conversation, flags, history
<1>3. CASE Answer
  BY <1>3 DEF Answer, TypeOK, Places, Ended, Models, Numbered, Whole, Clean, Paid,
     Quiet, Told, SelectorNeverTellsResults, conversation, flags, history
<1>4. CASE RunTool
  <2> PICK c \in pending :
        /\ \A d \in pending : c <= d
        /\ ran' = ran \cup {c} /\ resolved' = resolved \cup {c}
        /\ pending' = pending \ {c}
        /\ \/ pc' = "stopped" /\ UNCHANGED hasResult
           \/ pending' # {} /\ pc' = "running" /\ UNCHANGED hasResult
           \/ pending' = {} /\ pc' = "ready" /\ hasResult' = TRUE
    BY <1>4 DEF RunTool
  <2>1. TypeOK'
    BY <1>4 DEF RunTool, TypeOK, Places, Ended, Models, history
  <2>2. (Numbered /\ Whole)'
    BY <1>4 DEF RunTool, Numbered, Whole, history
  <2>3. (Clean /\ Paid)'
    BY <1>4 DEF RunTool, Clean, Paid, history
  <2>4. (Quiet /\ Told)'
    BY <1>4 DEF RunTool, Quiet, Told, SelectorNeverTellsResults, history
  <2>5. QED
    BY <2>1, <2>2, <2>3, <2>4
<1>5. CASE Cut
  BY <1>5 DEF Cut, TypeOK, Places, Ended, Models, Numbered, Whole, Clean, Paid,
     Quiet, Told, SelectorNeverTellsResults, conversation, flags, history
<1>6. ASSUME NEW n \in 1 .. MaxBatch, Accept(n) PROVE Inv'
  <2> USE <1>6, NewCallsAreNew DEF Accept, Propose, flags
  <2>0. issued \in Nat
    BY DEF TypeOK
  <2>1. NewCalls(n) \subseteq Nat /\ NewCalls(n) \cap (1 .. issued) = {}
    BY <2>0
  <2>2. TypeOK'
    <3>1. issued' \in Nat /\ toolRounds' \in Nat
      BY <2>0 DEF TypeOK
    <3>2. called' \subseteq Nat /\ pending' \subseteq Nat
      BY <2>1 DEF TypeOK
    <3>3. pc' \in Places /\ tainted' = tainted
      BY DEF Places
    <3>4. QED
      BY <3>1, <3>2, <3>3 DEF TypeOK
  <2>3. Numbered'
    BY <2>0 DEF Numbered
  <2>4. Whole'
    BY DEF Whole
  <2>5. Clean'
    BY <2>1 DEF Clean, Numbered
  <2>6. (Paid /\ Quiet /\ Told)'
    BY DEF Paid, Quiet, Told, SelectorNeverTellsResults
  <2>7. QED
    BY <2>2, <2>3, <2>4, <2>5, <2>6
<1>7. ASSUME NEW n \in 1 .. MaxBatch, NEW denied \in SUBSET NewCalls(n), Retry(n, denied)
      PROVE  Inv'
  <2> USE <1>7, NewCallsAreNew DEF Retry, Propose, conversation
  <2>0. issued \in Nat
    BY DEF TypeOK
  <2>1. NewCalls(n) \subseteq Nat /\ NewCalls(n) \cap (1 .. issued) = {}
    BY <2>0
  <2>2. TypeOK'
    BY <2>0, <2>1 DEF TypeOK, Places, Ended, Models
  <2>3. Numbered'
    BY <2>0 DEF Numbered
  <2>4. Whole'
    BY DEF Whole
  <2>5. Clean'
    BY <2>1 DEF Clean, Numbered
  <2>6. (Paid /\ Quiet /\ Told)'
    BY DEF Paid, Quiet, Told, SelectorNeverTellsResults
  <2>7. QED
    BY <2>2, <2>3, <2>4, <2>5, <2>6
<1>8. ASSUME NEW n \in 1 .. MaxBatch, NEW denied \in SUBSET NewCalls(n), Refuse(n, denied)
      PROVE  Inv'
  <2> USE <1>8, NewCallsAreNew DEF Refuse, Propose
  <2>0. issued \in Nat
    BY DEF TypeOK
  <2>1. NewCalls(n) \subseteq Nat /\ NewCalls(n) \cap (1 .. issued) = {}
    BY <2>0
  <2>2. TypeOK'
    BY <2>0, <2>1 DEF TypeOK, Places, Ended, Models
  <2>3. Numbered'
    BY <2>0 DEF Numbered
  <2>4. Whole'
    BY DEF Whole
  <2>5. Clean'
    BY <2>1 DEF Clean, Numbered, Whole
  <2>6. (Paid /\ Quiet /\ Told)'
    BY DEF Paid, Quiet, Told, SelectorNeverTellsResults
  <2>7. QED
    BY <2>2, <2>3, <2>4, <2>5, <2>6
<1>9. CASE RequireTool
  <2> USE <1>9 DEF RequireTool, flags, history
  <2>0. issued \in Nat /\ issued' = issued + 1 /\ issued' \notin 1 .. issued
    BY DEF TypeOK
  <2>1. TypeOK'
    BY <2>0 DEF TypeOK, Places, Ended, Models
  <2>2. Numbered'
    BY <2>0 DEF Numbered
  <2>3. Whole'
    BY DEF Whole
  <2>4. Clean'
    BY <2>0 DEF Clean, Numbered
  <2>5. (Paid /\ Quiet /\ Told)'
    BY DEF Paid, Quiet, Told, SelectorNeverTellsResults
  <2>6. QED
    BY <2>1, <2>2, <2>3, <2>4, <2>5
<1>10. CASE Rewrite
  <2>1. TypeOK'
    <3>1. fallbackAsks' \in Nat
      BY <1>10 DEF Rewrite, Asked, TypeOK
    <3>2. model' \in Models /\ pc' \in Places /\ bound' \in BOOLEAN
      BY <1>10 DEF Rewrite, Places, Ended, Models
    <3>3. QED
      BY <1>10, <3>1, <3>2 DEF Rewrite, TypeOK, conversation, flags
  <2>2. (Numbered /\ Whole /\ Clean)'
    BY <1>10 DEF Rewrite, Numbered, Whole, Clean, conversation, flags
  <2>3. Paid'
    BY <1>10 DEF Rewrite, Asked, Paid, conversation, flags
  <2>4. (Quiet /\ Told)'
    BY <1>10 DEF Rewrite, Quiet, Told, SelectorNeverTellsResults, conversation, flags
  <2>5. QED
    BY <2>1, <2>2, <2>3, <2>4
<1>11. CASE UNCHANGED vars
  BY <1>11 DEF vars, TypeOK, Numbered, Whole, Clean, Paid,
     Quiet, Told, SelectorNeverTellsResults, conversation, flags, history
<1>12. CASE Bind
  BY <1>12 DEF Bind, TypeOK, Places, Ended, Models, Numbered, Whole, Clean, Paid,
     Quiet, Told, SelectorNeverTellsResults, conversation, flags, history
<1>13. QED
  BY <1>1, <1>2, <1>3, <1>4, <1>5, <1>6, <1>7, <1>8, <1>9, <1>10, <1>11, <1>12
     DEF Next, Loop

LEMMA AlwaysInv == Spec => []Inv
  BY InitInv, NextInv, PTL DEF Spec

-----------------------------------------------------------------------------
\* Every variable keeps its type and the loop its bound.
THEOREM TypeCorrect == Spec => []TypeOK
  BY AlwaysInv, PTL DEF Inv

\* No request of the loop carries a call without a result or a result without
\* its call.
THEOREM WholeRequests == Spec => []RequestsAreWhole
<1>1. Inv => RequestsAreWhole
  BY DEF Inv, Whole, RequestsAreWhole
<1>2. QED
  BY <1>1, AlwaysInv, PTL

\* No call of a batch the contract denied in part or whole ever runs.
THEOREM CleanBatches == Spec => []OnlyCleanBatchesRun
<1>1. Inv => OnlyCleanBatchesRun
  BY DEF Inv, Clean, OnlyCleanBatchesRun
<1>2. QED
  BY <1>1, AlwaysInv, PTL

\* Selection and rewriting share one request to the fallback model.
THEOREM FallbackOnce == Spec => []OneFallbackRequest
<1>1. Inv => OneFallbackRequest
  BY DEF Inv, Paid, OneFallbackRequest
<1>2. QED
  BY <1>1, AlwaysInv, PTL

\* The selector does not have the last word about what a tool found.
THEOREM ResultsToldByOthers == Spec => []SelectorNeverTellsResults
  BY AlwaysInv, PTL DEF Inv, Told

\* Once a batch was refused, no call a model chose runs.
THEOREM RefusalIsFinal == Spec => QuietAfterRefusal
<1>1. Inv /\ [Next]_vars => [blocked # {} => ran' \subseteq ran \cup required']_vars
  <2> SUFFICES ASSUME Inv, Next, blocked # {}
               PROVE  ran' \subseteq ran \cup required'
    BY DEF vars
  <2>1. forced /\ pc # "running" /\ (pc = "waiting" => ~bound)
    BY DEF Inv, Quiet
  <2>2. CASE RequireTool
    BY <2>2 DEF RequireTool
  <2>3. CASE Bind \/ Ask \/ AskForAnswer \/ Answer \/ Cut \/ Rewrite
    BY <2>3 DEF Bind, Ask, AskForAnswer, Answer, Cut, Rewrite, conversation
  <2>4. QED
    BY <2>1, <2>2, <2>3 DEF Next, Loop, RunTool, Accept, Retry, Refuse, Propose
<1>2. QED
  BY <1>1, AlwaysInv, PTL DEF Spec, QuietAfterRefusal

\* A round in which a model may still propose tools has run none of them yet.
Counted == toolRounds <= round /\ (pc = "waiting" /\ bound => toolRounds < round)

\* Tools run in at most MaxToolRounds + 1 rounds of a turn, one more than the
\* documentation says (see ToolRoundsBounded).
THEOREM RoundsBounded == Spec => []ToolRoundsBounded
<1> USE ToolLoopAssumption
<1>1. Init => Counted
  BY DEF Init, Counted
<1>2. TypeOK /\ Counted /\ [Next]_vars => Counted'
  <2> SUFFICES ASSUME TypeOK, Counted, [Next]_vars PROVE Counted'
    OBVIOUS
  <2> USE DEF Counted
  <2>0. round \in Nat /\ toolRounds \in Nat
    BY DEF TypeOK
  <2>1. CASE Ask
    BY <2>0, <2>1 DEF Ask
  <2>2. CASE Bind \/ AskForAnswer \/ Answer \/ RunTool \/ Cut \/ RequireTool
    BY <2>0, <2>2 DEF Bind, AskForAnswer, Answer, RunTool, Cut, RequireTool, history
  <2>3. CASE Rewrite
    BY <2>0, <2>3 DEF Rewrite
  <2>4. ASSUME NEW n \in 1 .. MaxBatch, Accept(n) PROVE Counted'
    BY <2>0, <2>4 DEF Accept, Propose
  <2>5. ASSUME NEW n \in 1 .. MaxBatch, NEW denied \in SUBSET NewCalls(n),
               Retry(n, denied) \/ Refuse(n, denied)
        PROVE  Counted'
    BY <2>0, <2>5 DEF Retry, Refuse, Propose
  <2>6. CASE UNCHANGED vars
    BY <2>6 DEF vars, history
  <2>7. QED
    BY <2>1, <2>2, <2>3, <2>4, <2>5, <2>6 DEF Next, Loop
<1>3. TypeOK /\ Counted => ToolRoundsBounded
  <2> SUFFICES ASSUME TypeOK, Counted PROVE ToolRoundsBounded
    OBVIOUS
  <2>1. round \in 0 .. MaxToolRounds + 1 /\ toolRounds \in Nat
    BY DEF TypeOK
  <2>2. QED
    BY <2>1 DEF Counted, ToolRoundsBounded
<1>4. QED
  BY <1>1, <1>2, <1>3, TypeCorrect, PTL DEF Spec

\* Whatever the router makes of a message, the turn is a turn of the loop or
\* none of its steps: the theorems above hold of routed turns.
THEOREM TurnsAreLoops == TurnSpec => Spec
<1>1. TurnInit => Init
  BY DEF TurnInit
<1>2. [TurnNext]_turnVars => [Next]_vars
  <2> SUFFICES ASSUME [TurnNext]_turnVars PROVE [Next]_vars
    OBVIOUS
  <2>1. CASE Decide \/ RouterFails
    BY <2>1 DEF Decide, RouterFails
  <2>2. CASE Enter
    BY <2>2 DEF Enter, Next
  <2>3. CASE Loop \/ RequireTool \/ Rewrite
    BY <2>3 DEF Next
  <2>4. CASE UNCHANGED turnVars
    BY <2>4 DEF turnVars
  <2>5. QED
    BY <2>1, <2>2, <2>3, <2>4 DEF TurnNext
<1>3. QED
  BY <1>1, <1>2, PTL DEF TurnSpec, Spec

-----------------------------------------------------------------------------
(* The answer of a routed turn.                                             *)

AnyIntent == Intent \cup {"other"}
Decision == [guard : Guard, domains : SUBSET Domain, intents : Seq(AnyIntent)]

\* The first of some places is one of them.
LEMMA FirstExists ==
  ASSUME NEW S \in SUBSET Nat, S # {}
  PROVE  Min(S) \in S /\ \A y \in S : Min(S) <= y
<1> DEFINE R == OpToRel(<, Nat)
<1>1. \A a, b \in Nat : a < b => <<a, b>> \in R
  BY DEF OpToRel
<1> HIDE DEF R
<1>2. PICK x \in S : \A y \in S : ~ (<<y, x>> \in R)
  BY NatLessThanWellFounded, WFMin DEF R
<1>3. ASSUME NEW y \in S PROVE x <= y
  <2>1. x \in Nat /\ y \in Nat
    OBVIOUS
  <2>2. ~ (y < x)
    BY <1>1, <1>2, <2>1
  <2>3. QED
    BY <2>1, <2>2
<1>4. QED
  BY <1>2, <1>3 DEF Min

\* The ways in which a decision is told: the text of its guard, its first FAQ,
\* or neither.
LEMMA AnswerCases ==
  ASSUME NEW d \in Decision
  PROVE  /\ HasText(d.guard) => AnswerOf(d) = d.guard
         /\ ~HasText(d.guard) /\ ToSet(d.intents) \cap StaticFaq # {} =>
               AnswerOf(d) \in ToSet(d.intents) \cap StaticFaq
         /\ ~HasText(d.guard) /\ ToSet(d.intents) \cap StaticFaq = {} =>
               AnswerOf(d) = "loop"
         /\ ~HasText(d.guard) /\ d.intents # <<>> /\ d.intents[1] \in StaticFaq =>
               AnswerOf(d) = d.intents[1]
<1> DEFINE faqs == {i \in DOMAIN d.intents : d.intents[i] \in StaticFaq}
<1>1. d.intents \in Seq(AnyIntent) /\ DOMAIN d.intents = 1..Len(d.intents)
      /\ Len(d.intents) \in Nat /\ faqs \in SUBSET Nat
  BY DEF Decision
<1>2. faqs = {} <=> ToSet(d.intents) \cap StaticFaq = {}
  BY DEF ToSet
<1>3. HasText(d.guard) => AnswerOf(d) = d.guard
  BY DEF AnswerOf
<1>4. ~HasText(d.guard) /\ faqs = {} => AnswerOf(d) = "loop"
  BY DEF AnswerOf
<1>5. ~HasText(d.guard) /\ faqs # {} => AnswerOf(d) = d.intents[Min(faqs)]
  BY DEF AnswerOf
<1>6. faqs # {} => /\ Min(faqs) \in faqs
                   /\ \A y \in faqs : Min(faqs) <= y
  BY <1>1, FirstExists
<1>7. faqs # {} => d.intents[Min(faqs)] \in ToSet(d.intents) \cap StaticFaq
  BY <1>6 DEF ToSet
<1>8. d.intents # <<>> /\ d.intents[1] \in StaticFaq => faqs # {} /\ Min(faqs) = 1
  <2> SUFFICES ASSUME d.intents # <<>>, d.intents[1] \in StaticFaq
               PROVE  faqs # {} /\ Min(faqs) = 1
    OBVIOUS
  <2>1. 1 \in faqs
    BY <1>1
  <2>2. Min(faqs) \in Nat /\ Min(faqs) >= 1 /\ Min(faqs) <= 1
    <3> HIDE DEF faqs
    <3>1. Min(faqs) \in faqs /\ Min(faqs) <= 1
      BY <1>6, <2>1
    <3>2. QED
      BY <1>1, <3>1 DEF faqs
  <2>3. QED
    BY <2>1, <2>2
<1> HIDE DEF faqs
<1>9. QED
  BY <1>2, <1>3, <1>4, <1>5, <1>7, <1>8

\* A rule that tells a FAQ puts it in front of the others or leaves it where
\* the decision had it.
LEMMA FaqFacts ==
  ASSUME NEW d \in Decision, NEW key \in StaticFaq
  PROVE  /\ Faq(d, key) \in Decision /\ Faq(d, key).guard = "none"
         /\ ToSet(Faq(d, key).intents) = ToSet(d.intents) \cup {key}
         /\ \/ key \in ToSet(d.intents) /\ Faq(d, key).intents = d.intents
            \/ Faq(d, key).intents # <<>> /\ Faq(d, key).intents[1] = key
<1>1. d.intents \in Seq(AnyIntent) /\ DOMAIN d.intents = 1..Len(d.intents)
      /\ Len(d.intents) \in Nat
  BY DEF Decision
<1>2. Contains(d.intents, key) <=> key \in ToSet(d.intents)
  BY <1>1 DEF Contains, ToSet
<1>3. CASE key \in ToSet(d.intents)
  BY <1>1, <1>2, <1>3 DEF Faq, Decision, Guard, Domain
<1>4. CASE key \notin ToSet(d.intents)
  <2> DEFINE s == <<key>> \o d.intents
  <2>1. key \in AnyIntent
    BY DEF AnyIntent, Intent
  <2>2. /\ s \in Seq(AnyIntent) /\ DOMAIN s = 1..(1 + Len(d.intents)) /\ s[1] = key
        /\ \A i \in 1..Len(d.intents) : s[i + 1] = d.intents[i]
        /\ \A i \in 2..(1 + Len(d.intents)) : s[i] = d.intents[i - 1]
    BY <1>1, <2>1
  <2>3. ToSet(s) \subseteq ToSet(d.intents) \cup {key}
    <3> SUFFICES ASSUME NEW i \in DOMAIN s PROVE s[i] \in ToSet(d.intents) \cup {key}
      BY DEF ToSet
    <3>1. CASE i = 1
      BY <2>2, <3>1
    <3>2. CASE i # 1
      <4>1. i - 1 \in DOMAIN d.intents /\ s[i] = d.intents[i - 1]
        BY <1>1, <2>2, <3>2
      <4>2. QED
        BY <4>1 DEF ToSet
    <3>3. QED
      BY <3>1, <3>2
  <2>4. ToSet(d.intents) \cup {key} \subseteq ToSet(s)
    <3>1. key \in ToSet(s)
      BY <1>1, <2>2 DEF ToSet
    <3>2. ASSUME NEW i \in DOMAIN d.intents PROVE d.intents[i] \in ToSet(s)
      <4>1. i + 1 \in DOMAIN s /\ s[i + 1] = d.intents[i]
        BY <1>1, <2>2
      <4>2. QED
        BY <4>1 DEF ToSet
    <3>3. QED
      BY <3>1, <3>2 DEF ToSet
  <2>5. Faq(d, key) = [guard |-> "none", domains |-> {"SUPPORT"}, intents |-> s]
    BY <1>2, <1>4 DEF Faq
  <2>6. s # <<>>
    BY <1>1, <2>2
  <2> HIDE DEF s
  <2>7. QED
    BY <2>2, <2>3, <2>4, <2>5, <2>6 DEF Decision, Guard, Domain
<1>5. QED
  BY <1>3, <1>4

-----------------------------------------------------------------------------
\* The rules up to the FAQs, for the message and the answer of the model.
Checked == BenefitChecked(BrandCleared(DayDecided(proposed, message), message), message)

LEMMA CheckedFacts ==
  ASSUME message \in Message, proposed \in Decision
  PROVE  /\ Checked \in Decision /\ Checked.intents = proposed.intents
         /\ Checked.guard \in {"unsupported_brand", "nonexistent_benefit"} => message.borneOut
         /\ Checked.guard = "reservation_date_range" => message.day = "outside"
         /\ message.day = "outside" =>
              \/ Checked.guard \in {"reservation_date_range", "past_event_page", "delivery", "pii"}
              \/ message.excludesOwned
              \/ proposed.guard \in {"unsupported_brand", "nonexistent_benefit", "pickup_info"}
<1> DEFINE d1 == DayDecided(proposed, message)
           d2 == BrandCleared(d1, message)
<1>0. /\ message.day \in {"none", "inside", "outside"} /\ message.borneOut \in BOOLEAN
      /\ message.excludesOwned \in BOOLEAN
  BY DEF Message
<1>1. /\ d1 \in Decision /\ d1.intents = proposed.intents
      /\ d1.guard = "reservation_date_range" => message.day = "outside"
      /\ d1.guard \in {proposed.guard, "none", "reservation_date_range"}
      /\ message.day = "outside" /\ proposed.guard = "none" => d1.guard = "reservation_date_range"
      /\ message.day = "outside" /\ proposed.guard # "none" => d1.guard = proposed.guard
  BY <1>0 DEF DayDecided, Decision, Guard
<1> HIDE DEF d1
<1>2. /\ d2 \in Decision /\ d2.intents = d1.intents
      /\ d2.guard \in {d1.guard, "none"}
      /\ d2.guard = "unsupported_brand" => message.borneOut
      /\ d1.guard # "unsupported_brand" => d2.guard = d1.guard
  BY <1>0, <1>1 DEF BrandCleared, Decision, Guard, Domain
<1> HIDE DEF d2
<1> DEFINE d3 == BenefitChecked(d2, message)
<1>3. /\ d3 \in Decision /\ d3.intents = d2.intents
      /\ d3.guard \in {d2.guard, "none"}
      /\ d3.guard = "nonexistent_benefit" => message.borneOut
      /\ ~message.excludesOwned /\ d2.guard # "nonexistent_benefit" => d3.guard = d2.guard
  BY <1>0, <1>2 DEF BenefitChecked, Decision, Guard, Domain
<1>4. Checked = d3
  BY DEF Checked, d1, d2
<1> HIDE DEF d3
<1>5. proposed.guard \in Guard
  BY DEF Decision
<1>6. QED
  BY <1>0, <1>1, <1>2, <1>3, <1>4, <1>5 DEF Guard

\* What the rules keep of the gates that fired: the first FAQ is that of one of
\* them, or the model had named all that the decision names.
Heard(d) ==
    \/ d.intents # <<>> /\ d.intents[1] \in Fired
    \/ ToSet(d.intents) \cap Fired \subseteq ToSet(proposed.intents)

LEMMA FaqHeard ==
  ASSUME NEW d \in Decision, NEW key \in Fired, Heard(d)
  PROVE  Heard(Faq(d, key))
<1>1. key \in StaticFaq
  BY DEF Fired
<1>2. QED
  BY <1>1, FaqFacts DEF Heard

LEMMA MovedFacts ==
  ASSUME message \in Message, proposed \in Decision
  PROVE  LET d == StaticMoved(Checked) IN
         /\ d \in Decision /\ Heard(d)
         /\ d.guard \in {"none", Checked.guard} \ {"past_event_page", "delivery"}
         /\ \/ d.guard = Checked.guard
            \/ ToSet(d.intents) \cap {"past_event_page", "delivery"} # {}
<1>1. Checked \in Decision /\ Checked.intents = proposed.intents
  BY CheckedFacts
<1>2. Heard(Checked)
  BY <1>1 DEF Heard
<1>3. CASE Checked.guard \in {"past_event_page", "delivery"}
  <2>1. Checked.guard \in StaticFaq /\ StaticMoved(Checked) = Faq(Checked, Checked.guard)
    BY <1>3 DEF StaticMoved, StaticFaq
  <2>2. Heard(Faq(Checked, Checked.guard))
    <3>1. CASE Checked.guard \in Fired
      BY <1>1, <1>2, <3>1, FaqHeard
    <3>2. CASE Checked.guard \notin Fired
      BY <1>1, <2>1, <3>2, FaqFacts DEF Heard
    <3>3. QED
      BY <3>1, <3>2
  <2> DEFINE e == Faq(Checked, Checked.guard)
  <2>3. e \in Decision /\ e.guard = "none" /\ Checked.guard \in ToSet(e.intents)
    BY <1>1, <2>1, FaqFacts
  <2>4. ToSet(e.intents) \cap {"past_event_page", "delivery"} # {}
    BY <1>3, <2>3
  <2> HIDE DEF e
  <2>5. QED
    BY <2>1, <2>2, <2>3, <2>4 DEF e
<1>4. CASE Checked.guard \notin {"past_event_page", "delivery"}
  BY <1>1, <1>2, <1>4 DEF StaticMoved
<1>5. QED
  BY <1>3, <1>4

\* The rule of a gate on the text.
Gated(d, key) == IF key \in Fired THEN Faq(d, key) ELSE d

LEMMA GatedFacts ==
  ASSUME NEW d \in Decision, Heard(d), NEW key \in StaticFaq
  PROVE  /\ Gated(d, key) \in Decision /\ Heard(Gated(d, key))
         /\ ToSet(d.intents) \subseteq ToSet(Gated(d, key).intents)
         /\ ToSet(Gated(d, key).intents) \subseteq ToSet(d.intents) \cup {key}
         /\ key \in Fired => /\ key \in ToSet(Gated(d, key).intents)
                             /\ Gated(d, key).guard = "none"
         /\ key \notin Fired => Gated(d, key) = d
<1>1. CASE key \in Fired
  <2>1. Gated(d, key) = Faq(d, key)
    BY <1>1 DEF Gated
  <2>2. Heard(Faq(d, key))
    BY <1>1, FaqHeard
  <2>3. /\ Faq(d, key) \in Decision /\ Faq(d, key).guard = "none"
        /\ ToSet(Faq(d, key).intents) = ToSet(d.intents) \cup {key}
    BY FaqFacts
  <2>4. QED
    BY <1>1, <2>1, <2>2, <2>3
<1>2. CASE key \notin Fired
  BY <1>2 DEF Gated
<1>3. QED
  BY <1>1, <1>2

LEMMA GatesAreRules ==
  ASSUME message \in Message
  PROVE  \A d : /\ RunflatApplied(d, message) = Gated(d, "runflat")
               /\ LateNightApplied(d, message) = Gated(d, "late_night")
               /\ DeliveryApplied(d, message) = Gated(d, "delivery")
<1>1. /\ message.runflat <=> "runflat" \in Fired
      /\ message.lateNight <=> "late_night" \in Fired
      /\ message.delivery <=> "delivery" \in Fired
  BY DEF Message, Fired, StaticFaq
<1>2. QED
  BY <1>1 DEF RunflatApplied, LateNightApplied, DeliveryApplied, Gated

\* The gate of the pickups also takes out what the model said of them.
LEMMA PickupFacts ==
  ASSUME message \in Message, NEW d \in Decision, Heard(d)
  PROVE  LET e == PickupApplied(d, message) IN
         /\ e \in Decision /\ Heard(e)
         /\ message.pickup # "no" =>
              /\ e.guard = "none" /\ message.pickup \in Fired
              /\ ToSet(e.intents) = ToSet(d.intents) \cup {message.pickup}
         /\ message.pickup = "no" =>
              /\ e.guard = IF d.guard \in PickupFaqs THEN "none" ELSE d.guard
              /\ ToSet(e.intents) \cap PickupFaqs = {}
              /\ ToSet(d.intents) \ PickupFaqs \subseteq ToSet(e.intents)
<1>1. message.pickup \in {"no", "pickup_status", "pickup_info"}
  BY DEF Message
<1>2. CASE message.pickup # "no"
  <2>1. message.pickup \in StaticFaq /\ message.pickup \in Fired
    BY <1>1, <1>2 DEF StaticFaq, Fired
  <2>2. PickupApplied(d, message) = Faq(d, message.pickup)
    BY <1>2 DEF PickupApplied
  <2>3. QED
    BY <1>2, <2>1, <2>2, FaqFacts, FaqHeard
<1>3. CASE message.pickup = "no"
  <2> DEFINE s == [i \in DOMAIN d.intents |->
                      IF d.intents[i] \in PickupFaqs THEN "other" ELSE d.intents[i]]
             g == IF d.guard \in PickupFaqs THEN "none" ELSE d.guard
             e == PickupApplied(d, message)
  <2>1. d.intents \in Seq(AnyIntent) /\ DOMAIN d.intents = 1..Len(d.intents)
        /\ Len(d.intents) \in Nat /\ d.guard \in Guard
    BY DEF Decision
  <2>2. s \in Seq(AnyIntent) /\ DOMAIN s = DOMAIN d.intents /\ g \in Guard
    <3>1. \A i \in 1..Len(d.intents) : s[i] \in AnyIntent
      BY <2>1 DEF AnyIntent
    <3>2. s \in [1..Len(d.intents) -> AnyIntent]
      BY <2>1, <3>1
    <3>3. g \in Guard
      BY <2>1 DEF Guard
    <3>4. QED
      BY <2>1, <3>2, <3>3
  <2>3. e = [[d EXCEPT !.intents = s] EXCEPT !.guard = g]
    BY <1>3 DEF PickupApplied, Decision
  <2>4. e \in Decision /\ e.intents = s /\ e.guard = g
    <3> HIDE DEF s, g
    <3>1. QED
      BY <2>2, <2>3 DEF Decision
  <2>5. "other" \notin PickupFaqs \cup Fired /\ PickupFaqs \cap Fired = {}
    BY <1>3 DEF PickupFaqs, Fired, StaticFaq
  <2>6. ToSet(s) \cap PickupFaqs = {} /\ ToSet(d.intents) \ PickupFaqs \subseteq ToSet(s)
        /\ ToSet(s) \subseteq ToSet(d.intents) \cup {"other"}
    BY <2>2, <2>5 DEF ToSet
  <2>7. d.intents # <<>> /\ d.intents[1] \in Fired => s # <<>> /\ s[1] \in Fired
    <3> SUFFICES ASSUME d.intents # <<>>, d.intents[1] \in Fired
                 PROVE  s # <<>> /\ s[1] \in Fired
      OBVIOUS
    <3>1. 1 \in DOMAIN d.intents /\ d.intents[1] \notin PickupFaqs
      BY <2>1, <2>5
    <3>2. s[1] = d.intents[1] /\ DOMAIN s # {}
      BY <3>1
    <3>3. QED
      BY <3>2
  <2> HIDE DEF s
  <2>8. Heard(e)
    BY <2>4, <2>5, <2>6, <2>7 DEF Heard
  <2>9. QED
    BY <1>3, <2>4, <2>6, <2>8
<1>4. QED
  BY <1>2, <1>3

-----------------------------------------------------------------------------
\* The decision of the turn, through all the rules.
LEMMA RoutedFacts ==
  ASSUME message \in Message, proposed \in Decision
  PROVE  LET d == Routed(proposed, message) IN
         /\ d \in Decision /\ Heard(d) /\ Fired \subseteq ToSet(d.intents)
         /\ d.guard \in {"none", Checked.guard} \ {"past_event_page", "delivery"}
         /\ Fired # {} => d.guard = "none"
         /\ message.pickup = "no" => ToSet(d.intents) \cap PickupFaqs = {}
         /\ \/ d.guard = Checked.guard \/ Fired # {} \/ Checked.guard \in PickupFaqs
            \/ ToSet(d.intents) \cap {"past_event_page", "delivery"} # {}
<1> DEFINE d4 == StaticMoved(Checked)
           d5 == Gated(d4, "runflat")
           d6 == Gated(d5, "late_night")
           d7 == PickupApplied(d6, message)
           d8 == Gated(d7, "delivery")
<1>0. /\ "runflat" \in StaticFaq /\ "late_night" \in StaticFaq /\ "delivery" \in StaticFaq
      /\ Fired \subseteq {"runflat", "late_night", "delivery", message.pickup}
      /\ Fired \cap {"no", "past_event_page"} = {}
      /\ PickupFaqs = {"pickup_status", "pickup_info"}
  BY DEF StaticFaq, Fired, PickupFaqs, Message
<1>1. Routed(proposed, message) = d8
  BY GatesAreRules DEF Routed, FaqsApplied, Checked
<1>4. /\ d4 \in Decision /\ Heard(d4)
      /\ d4.guard \in {"none", Checked.guard} \ {"past_event_page", "delivery"}
      /\ \/ d4.guard = Checked.guard
         \/ ToSet(d4.intents) \cap {"past_event_page", "delivery"} # {}
  BY MovedFacts
<1> HIDE DEF d4
<1>5. /\ d5 \in Decision /\ Heard(d5)
      /\ ToSet(d4.intents) \subseteq ToSet(d5.intents)
      /\ "runflat" \in Fired => "runflat" \in ToSet(d5.intents) /\ d5.guard = "none"
      /\ "runflat" \notin Fired => d5 = d4
  BY <1>0, <1>4, GatedFacts
<1> HIDE DEF d5
<1>6. /\ d6 \in Decision /\ Heard(d6)
      /\ ToSet(d5.intents) \subseteq ToSet(d6.intents)
      /\ "late_night" \in Fired => "late_night" \in ToSet(d6.intents) /\ d6.guard = "none"
      /\ "late_night" \notin Fired => d6 = d5
  BY <1>0, <1>5, GatedFacts
<1> HIDE DEF d6
<1>7. /\ d7 \in Decision /\ Heard(d7)
      /\ message.pickup # "no" =>
           /\ d7.guard = "none" /\ message.pickup \in Fired
           /\ ToSet(d7.intents) = ToSet(d6.intents) \cup {message.pickup}
      /\ message.pickup = "no" =>
           /\ d7.guard = IF d6.guard \in PickupFaqs THEN "none" ELSE d6.guard
           /\ ToSet(d7.intents) \cap PickupFaqs = {}
           /\ ToSet(d6.intents) \ PickupFaqs \subseteq ToSet(d7.intents)
  BY <1>6, PickupFacts
<1> HIDE DEF d7
<1>8. /\ d8 \in Decision /\ Heard(d8)
      /\ ToSet(d7.intents) \subseteq ToSet(d8.intents)
      /\ ToSet(d8.intents) \subseteq ToSet(d7.intents) \cup {"delivery"}
      /\ "delivery" \in Fired => "delivery" \in ToSet(d8.intents) /\ d8.guard = "none"
      /\ "delivery" \notin Fired => d8 = d7
  BY <1>0, <1>7, GatedFacts
<1> HIDE DEF d8
<1>9. Fired \subseteq ToSet(d8.intents)
  <2>1. ToSet(d6.intents) \ PickupFaqs \subseteq ToSet(d8.intents)
    BY <1>0, <1>7, <1>8
  <2>2. "runflat" \in Fired => "runflat" \in ToSet(d8.intents)
    BY <1>0, <1>5, <1>6, <2>1
  <2>3. "late_night" \in Fired => "late_night" \in ToSet(d8.intents)
    BY <1>0, <1>6, <2>1
  <2>4. message.pickup \in Fired => message.pickup \in ToSet(d8.intents)
    BY <1>0, <1>7, <1>8
  <2>5. QED
    BY <1>0, <1>8, <2>2, <2>3, <2>4
<1>10. message.pickup = "no" => ToSet(d8.intents) \cap PickupFaqs = {}
  BY <1>0, <1>7, <1>8
<1>11. /\ d8.guard \in {"none", d4.guard}
       /\ Fired # {} => d8.guard = "none"
       /\ d8.guard = d4.guard \/ Fired # {} \/ d4.guard \in PickupFaqs
  <2>1. /\ d5.guard \in {"none", d4.guard} /\ d6.guard \in {"none", d5.guard}
        /\ d7.guard \in {"none", d6.guard} /\ d8.guard \in {"none", d7.guard}
    BY <1>5, <1>6, <1>7, <1>8
  <2>2. Fired # {} => d8.guard = "none"
    BY <1>0, <1>5, <1>6, <1>7, <1>8, <2>1
  <2>3. Fired = {} => d8.guard = d4.guard \/ d4.guard \in PickupFaqs
    BY <1>5, <1>6, <1>7, <1>8
  <2>4. QED
    BY <2>1, <2>2, <2>3
<1>12. ToSet(d4.intents) \cap {"past_event_page", "delivery"} \subseteq ToSet(d8.intents)
  BY <1>0, <1>5, <1>6, <1>7, <1>8
<1>13. QED
  BY <1>1, <1>4, <1>8, <1>9, <1>10, <1>11, <1>12, <1>0

-----------------------------------------------------------------------------
\* A decision is what the rules make of an answer of the model.
Decided ==
    /\ message \in Message /\ proposed \in Decision
    /\ answer \in {"none", "chat"} \/ answer = AnswerOf(Routed(proposed, message))

LEMMA GroundOfDecision == Decided => AnswerHasGround
<1> SUFFICES ASSUME Decided, Classified PROVE DayIsTold /\ GatesAreHeard /\ ModelIsChecked
  BY DEF AnswerHasGround
<1> DEFINE d == Routed(proposed, message)
<1>1. message \in Message /\ proposed \in Decision /\ answer = AnswerOf(d)
  BY DEF Decided, Classified
<1>2. /\ d \in Decision /\ Heard(d) /\ Fired \subseteq ToSet(d.intents)
      /\ d.guard \in {"none", Checked.guard} \ {"past_event_page", "delivery"}
      /\ Fired # {} => d.guard = "none"
      /\ message.pickup = "no" => ToSet(d.intents) \cap PickupFaqs = {}
      /\ \/ d.guard = Checked.guard \/ Fired # {} \/ Checked.guard \in PickupFaqs
         \/ ToSet(d.intents) \cap {"past_event_page", "delivery"} # {}
  BY <1>1, RoutedFacts
<1>3. /\ Checked.guard \in {"unsupported_brand", "nonexistent_benefit"} => message.borneOut
      /\ Checked.guard = "reservation_date_range" => message.day = "outside"
      /\ message.day = "outside" =>
           \/ Checked.guard \in {"reservation_date_range", "past_event_page", "delivery", "pii"}
           \/ message.excludesOwned
           \/ proposed.guard \in {"unsupported_brand", "nonexistent_benefit", "pickup_info"}
  BY <1>1, CheckedFacts
<1>4. /\ HasText(d.guard) => answer = d.guard
      /\ ~HasText(d.guard) /\ ToSet(d.intents) \cap StaticFaq # {} =>
            answer \in ToSet(d.intents) \cap StaticFaq
      /\ ~HasText(d.guard) /\ ToSet(d.intents) \cap StaticFaq = {} => answer = "loop"
      /\ ~HasText(d.guard) /\ d.intents # <<>> /\ d.intents[1] \in StaticFaq =>
            answer = d.intents[1]
  BY <1>1, <1>2, AnswerCases
<1> HIDE DEF d
<1>5. d.guard \in Guard /\ Fired \subseteq StaticFaq
      /\ (HasText(d.guard) <=> d.guard \notin {"none", "pickup_status", "pickup_info"})
  BY <1>2 DEF Decision, Fired, HasText, PickupFaqs
<1>6. DayIsTold
  <2>1. ASSUME answer = "reservation_date_range" PROVE message.day = "outside"
    <3>1. HasText(d.guard) /\ d.guard = Checked.guard
      BY <1>2, <1>4, <1>5, <2>1 DEF StaticFaq
    <3>2. QED
      BY <1>3, <1>4, <2>1, <3>1
  <2>2. ASSUME message.day = "outside", answer = "loop", ~message.excludesOwned,
               proposed.guard \notin {"unsupported_brand", "nonexistent_benefit", "pickup_info"}
        PROVE  FALSE
    <3>1. Checked.guard \in {"reservation_date_range", "past_event_page", "delivery", "pii"}
      BY <1>3, <2>2
    <3>2. ToSet(d.intents) \cap StaticFaq = {} /\ ~HasText(d.guard)
      BY <1>4, <1>5, <2>2 DEF StaticFaq, Guard
    <3>3. Fired = {}
      BY <1>2, <1>5, <3>2
    <3>4. ToSet(d.intents) \cap {"past_event_page", "delivery"} = {}
      BY <3>2 DEF StaticFaq
    <3>5. d.guard = Checked.guard
      BY <1>2, <3>1, <3>3, <3>4 DEF PickupFaqs
    <3>6. QED
      BY <1>2, <1>5, <3>1, <3>2, <3>5
  <2>3. QED
    BY <2>1, <2>2 DEF DayIsTold
<1>7. GatesAreHeard
  <2> SUFFICES ASSUME Fired # {}
               PROVE  /\ answer \in StaticFaq
                      /\ answer \notin Fired => Fired \subseteq ToSet(proposed.intents)
    BY DEF GatesAreHeard
  <2>1. ~HasText(d.guard) /\ ToSet(d.intents) \cap StaticFaq # {}
    BY <1>2, <1>5
  <2>2. answer \in StaticFaq
    BY <1>4, <2>1
  <2>3. CASE d.intents # <<>> /\ d.intents[1] \in Fired
    BY <1>4, <1>5, <2>1, <2>2, <2>3
  <2>4. CASE ToSet(d.intents) \cap Fired \subseteq ToSet(proposed.intents)
    BY <1>2, <2>2, <2>4
  <2>5. QED
    BY <1>2, <2>3, <2>4 DEF Heard
<1>8. ModelIsChecked
  <2>1. ASSUME answer \in {"unsupported_brand", "nonexistent_benefit"} PROVE message.borneOut
    <3>1. HasText(d.guard)
      BY <1>4, <2>1 DEF StaticFaq
    <3>2. d.guard = Checked.guard
      BY <1>2, <1>5, <3>1
    <3>3. QED
      BY <1>3, <1>4, <2>1, <3>1, <3>2
  <2>2. ASSUME answer \in PickupFaqs PROVE message.pickup # "no"
    <3>1. ~HasText(d.guard)
      BY <1>4, <2>2 DEF HasText
    <3>2. answer \in ToSet(d.intents)
      BY <1>4, <2>2, <3>1 DEF PickupFaqs
    <3>3. QED
      BY <1>2, <2>2, <3>2
  <2>3. QED
    BY <2>1, <2>2 DEF ModelIsChecked
<1>9. QED
  BY <1>6, <1>7, <1>8

\* The rules of route_request overwrite each other, and still the answer of a
\* turn is one that its message calls for: for every set of domains, any number
\* of intents the model names, and everything it says of the message.
THEOREM GroundedAnswers == TurnSpec => []AnswerHasGround
<1>1. TurnInit => Decided
  <2>1. NoDecision \in Decision
    BY DEF NoDecision, Decision, Guard, Domain
  <2>2. QED
    BY <2>1 DEF TurnInit, Decided
<1>2. Decided /\ [TurnNext]_turnVars => Decided'
  <2> SUFFICES ASSUME Decided, [TurnNext]_turnVars PROVE Decided'
    OBVIOUS
  <2>1. CASE Decide
    <3>1. RouteDecision \subseteq Decision
      <4>1. DomainSets \subseteq SUBSET Domain
        BY RouterAssumption
      <4>2. ASSUME NEW s \in SeqOf(Intent, MaxIntents) PROVE s \in Seq(AnyIntent)
        <5>1. PICK n \in 0..MaxIntents : s \in [1..n -> Intent]
          BY <4>2 DEF SeqOf
        <5>2. n \in Nat
          BY RouterAssumption
        <5>3. s \in [1..n -> AnyIntent]
          BY <5>1 DEF AnyIntent
        <5>4. QED
          BY <5>2, <5>3
      <4>3. QED
        BY <4>1, <4>2 DEF RouteDecision, Decision
    <3>2. QED
      BY <2>1, <3>1 DEF Decided, Decide
  <2>2. CASE RouterFails
    BY <2>2 DEF Decided, RouterFails
  <2>3. CASE Enter
    <3>1. NoDecision \in Decision
      BY DEF NoDecision, Decision, Guard, Domain
    <3>2. NoMessage \in Message
      BY DEF NoMessage, Message
    <3>3. QED
      BY <2>3, <3>1, <3>2 DEF Decided, Enter
  <2>4. CASE UNCHANGED route
    BY <2>4 DEF Decided, route
  <2>5. QED
    BY <2>1, <2>2, <2>3, <2>4 DEF TurnNext, turnVars
<1>3. QED
  BY <1>1, <1>2, GroundOfDecision, PTL DEF TurnSpec
=============================================================================
