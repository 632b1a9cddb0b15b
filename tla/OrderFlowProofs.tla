-------------------------- MODULE OrderFlowProofs --------------------------
(***************************************************************************)
(* Two promises of OrderFlow, for all products, shops, days and answers,   *)
(* any number of turns and any number of calls in a turn: the amount is of *)
(* the product, and a card for the settled shop and day was verified.      *)
(***************************************************************************)
EXTENDS OrderFlow, WellFoundedInduction, TLAPS

\* What a field may hold.
Values == [goods |-> Opt(Goods), qty |-> Opt(Qty), shop |-> Opt(Shop), day |-> Opt(Day),
           hour |-> Opt(Hour), amount |-> Opt([goods : Goods, qty : Qty])]

\* An amount comes with its product.
Priced(s) ==
    /\ s \in Slots
    /\ s.amount # None => s.amount.goods = s.goods

\* A price is asked of a product, a preview also of a quantity.
Asked(c) ==
    ~c.failed => /\ c.tool \in {"price", "preview"} => c.goods # None
                 /\ c.tool = "preview" => c.qty # None

Card ==
    [goods : Goods, qty : Qty, shop : Opt(Shop), day : Opt(Day), hour : Opt(Hour)]

Inv ==
    /\ TypeOK
    /\ Priced(slots) /\ Priced(base) /\ Priced(work)
    /\ \A i \in DOMAIN calls : Asked(calls[i])

-----------------------------------------------------------------------------

\* Slots, field by field.
LEMMA SlotsByField ==
  ASSUME NEW s
  PROVE  s \in Slots <=> s = [f \in Field |-> s[f]] /\ \A f \in Field : s[f] \in Values[f]
<1>1. ASSUME s \in Slots
      PROVE  s = [f \in Field |-> s[f]] /\ \A f \in Field : s[f] \in Values[f]
  BY <1>1 DEF Slots, Field, Args, Values
<1>2. ASSUME s = [f \in Field |-> s[f]], \A f \in Field : s[f] \in Values[f]
      PROVE  s \in Slots
  <2>1. /\ s.goods \in Opt(Goods) /\ s.qty \in Opt(Qty) /\ s.shop \in Opt(Shop)
        /\ s.day \in Opt(Day) /\ s.hour \in Opt(Hour)
        /\ s.amount \in Opt([goods : Goods, qty : Qty])
    BY <1>2 DEF Field, Args, Values
  <2>2. QED
    BY <1>2, <2>1 DEF Slots, Field, Args
<1>3. QED
  BY <1>1, <1>2

LEMMA EmptyPriced == Priced(Empty)
<1>1. Empty = [f \in Field |-> Empty[f]] /\ \A f \in Field : Empty[f] = None
  BY DEF Empty
<1>2. \A f \in Field : None \in Values[f]
  BY DEF Values, Field, Args, Opt
<1>3. Empty.amount = None
  BY <1>1 DEF Field
<1>4. QED
  BY <1>1, <1>2, <1>3, SlotsByField DEF Priced

\* Who has an amount has a product.
LEMMA PricedGoods ==
  ASSUME NEW s, Priced(s), s.amount # None
  PROVE  s.goods # None /\ s.amount.goods = s.goods
<1>1. s.amount \in [goods : Goods, qty : Qty] /\ s.amount.goods = s.goods
  BY DEF Priced, Slots, Opt
<1>2. QED
  BY <1>1, OrderAssumption

\* Fields that are emptied, the amount with the product.
LEMMA WithoutPriced ==
  ASSUME NEW s, Priced(s), NEW fields,
         "goods" \in fields => "amount" \in fields
  PROVE  Priced(Without(s, fields))
<1> DEFINE r == Without(s, fields)
<1>1. r = [f \in Field |-> IF f \in fields THEN None ELSE s[f]]
  BY DEF Without
<1> HIDE DEF r
<1>2. /\ r.amount = IF "amount" \in fields THEN None ELSE s.amount
      /\ r.goods = IF "goods" \in fields THEN None ELSE s.goods
  BY <1>1 DEF Field, Args
<1>3. \A f \in Field : None \in Values[f]
  BY DEF Values, Field, Args, Opt
<1>4. r \in Slots
  <2>1. \A f \in Field : s[f] \in Values[f]
    BY SlotsByField DEF Priced
  <2>2. r = [f \in Field |-> r[f]] /\ \A f \in Field : r[f] \in Values[f]
    BY <1>1, <1>3, <2>1
  <2>3. QED
    BY <2>2, SlotsByField
<1>5. QED
  BY <1>2, <1>4 DEF Priced, r

\* Values that come in replace the product only together with the amount.
LEMMA ApplyRuntimePriced ==
  ASSUME NEW s, Priced(s), NEW values, NEW also,
         DOMAIN values \subseteq Args, \A f \in DOMAIN values : values[f] \in Values[f],
         also \subseteq {"shop", "day", "hour", "amount"}
  PROVE  Priced(ApplyRuntime(s, values, also))
<1> DEFINE incoming == {f \in DOMAIN values : values[f] # None}
           changed == {f \in incoming : s[f] \notin {None, values[f]}}
           reset == also \cup UNION {RuntimeResets[f] : f \in changed}
           r == ApplyRuntime(s, values, also)
<1>1. r = [f \in Field |-> IF f \in incoming THEN values[f]
                           ELSE IF f \in reset THEN None ELSE s[f]]
  BY DEF ApplyRuntime
<1> HIDE DEF r
<1>2. r \in Slots
  <2>1. \A f \in Field : None \in Values[f] /\ s[f] \in Values[f]
    BY SlotsByField DEF Priced, Values, Field, Args, Opt
  <2>2. r = [f \in Field |-> r[f]] /\ \A f \in Field : r[f] \in Values[f]
    BY <1>1, <2>1
  <2>3. QED
    BY <2>2, SlotsByField
<1>3. r.amount = IF "amount" \in reset THEN None ELSE s.amount
  <2>1. "amount" \notin incoming
    BY DEF Args
  <2>2. QED
    BY <1>1, <2>1 DEF Field
<1>4. "goods" \notin reset
  <2>1. changed \subseteq Args
    OBVIOUS
  <2>2. \A f \in Args : "goods" \notin RuntimeResets[f]
    BY DEF RuntimeResets, Args
  <2>3. QED
    BY <2>1, <2>2
<1>5. r.goods = IF "goods" \in incoming THEN values["goods"] ELSE s.goods
  BY <1>1, <1>4 DEF Field, Args
<1>6. ASSUME r.amount # None PROVE r.amount.goods = r.goods
  <2>1. /\ "amount" \notin reset /\ r.amount = s.amount
        /\ s.goods # None /\ s.amount.goods = s.goods
    BY <1>3, <1>6, PricedGoods
  <2>2. CASE "goods" \in incoming
    <3>1. "amount" \in RuntimeResets["goods"]
      BY DEF RuntimeResets
    <3>2. "goods" \notin changed
      BY <2>1, <3>1
    <3>3. s["goods"] = values["goods"]
      BY <2>1, <2>2, <3>2
    <3>4. QED
      BY <1>5, <2>1, <2>2, <3>3
  <2>3. CASE "goods" \notin incoming
    BY <1>5, <2>1, <2>3
  <2>4. QED
    BY <2>2, <2>3
<1>7. QED
  BY <1>2, <1>6 DEF Priced, r

\* The last of some numbers is one of them.
LEMMA LastExists ==
  ASSUME NEW n \in Nat, NEW S \in SUBSET (1 .. n), S # {}
  PROVE  (CHOOSE i \in S : \A j \in S : j <= i) \in S
<1> DEFINE T == {k \in Nat : n - k \in S}
           R == OpToRel(<, Nat)
<1>1. \A j \in S : n - j \in Nat /\ n - (n - j) = j
  OBVIOUS
<1>2. \A j \in S : n - j \in T
  BY <1>1
<1>3. \A a, b \in Nat : a < b => <<a, b>> \in R
  BY DEF OpToRel
<1> HIDE DEF R
<1>4. PICK x \in T : \A y \in T : ~ (<<y, x>> \in R)
  <2>1. T \subseteq Nat /\ T # {}
    BY <1>2
  <2> HIDE DEF T
  <2>2. QED
    BY <2>1, NatLessThanWellFounded, WFMin DEF R
<1>5. ASSUME NEW y \in T PROVE x <= y
  <2>1. x \in Nat /\ y \in Nat
    OBVIOUS
  <2>2. ~ (y < x)
    BY <1>3, <1>4, <2>1
  <2>3. QED
    BY <2>1, <2>2
<1>6. n - x \in S /\ \A j \in S : j <= n - x
  BY <1>1, <1>2, <1>5
<1>7. QED
  BY <1>6

\* What derive_slots_from_tool_calls finds fits its field.
LEMMA LastTyped ==
  ASSUME NEW cs \in Seq(Call), NEW f \in Args
  PROVE  Last(cs, f) \in Values[f]
<1>1. \A c \in Call : Gives(c, f) \in Values[f]
  BY DEF Gives, Call, Values, Args, Opt
<1>2. None \in Values[f]
  BY DEF Values, Args, Opt
<1> DEFINE giving == {i \in DOMAIN cs : Gives(cs[i], f) # None}
           last == CHOOSE i \in giving : \A j \in giving : j <= i
<1>3. CASE giving = {}
  BY <1>2, <1>3 DEF Last
<1>4. CASE giving # {}
  <2>1. giving \in SUBSET (1 .. Len(cs)) /\ Len(cs) \in Nat
    OBVIOUS
  <2> HIDE DEF giving
  <2>3. last \in giving
    BY <1>4, <2>1, LastExists
  <2> USE DEF giving
  <2>4. Last(cs, f) = Gives(cs[last], f)
    BY <1>4 DEF Last
  <2>5. QED
    BY <1>1, <2>1, <2>3, <2>4
<1>5. QED
  BY <1>3, <1>4

LEMMA DerivedPriced ==
  ASSUME NEW s, Priced(s), NEW cs \in Seq(Call), NEW relabel
  PROVE  Priced(Derived(s, cs, relabel))
<1> DEFINE values == [f \in {"goods", "qty", "shop", "day"} |-> Last(cs, f)]
           also == IF relabel THEN RuntimeResets.goods ELSE {}
<1>1. DOMAIN values \subseteq Args /\ \A f \in DOMAIN values : values[f] \in Values[f]
  BY LastTyped DEF Args
<1>2. also \subseteq {"shop", "day", "hour", "amount"}
  BY DEF RuntimeResets
<1>3. Derived(s, cs, relabel) = ApplyRuntime(s, values, also)
  BY DEF Derived
<1> HIDE DEF values, also
<1>4. QED
  BY <1>1, <1>2, <1>3, ApplyRuntimePriced

LEMMA MergePriced ==
  ASSUME NEW s, Priced(s), NEW other \in SUBSET {"product", "shop", "region", "car"},
         NEW same \in BOOLEAN,
         NEW qty \in Opt(Qty), NEW day \in Opt(Day), NEW hour \in Opt(Hour)
  PROVE  Priced(Merge(s, other, same, qty, day, hour))
<1> DEFINE changed == other \cup (IF qty # None /\ s.qty \notin {None, qty}
                                    THEN {"qty"} ELSE {})
           reset == UNION {UserResets[x] : x \in changed}
           cleared == Without(s, IF same THEN reset \ {"goods"} ELSE reset)
           r == Merge(s, other, same, qty, day, hour)
<1>1. "goods" \in reset => "amount" \in reset
  BY DEF UserResets
<1>2. Priced(cleared)
  BY <1>1, WithoutPriced
<1>3. r = [cleared EXCEPT !.qty = IF qty # None THEN qty ELSE @,
                          !.day = IF day # None THEN day ELSE @,
                          !.hour = IF hour # None THEN hour ELSE @]
  BY DEF Merge
<1> HIDE DEF cleared, r
<1>4. r \in Slots /\ r.amount = cleared.amount /\ r.goods = cleared.goods
  BY <1>2, <1>3 DEF Priced, Slots
<1>5. QED
  BY <1>2, <1>4 DEF Priced, r

\* One round of the harvest.
LEMMA HarvestPriced ==
  ASSUME NEW s, Priced(s), NEW c \in Call, Asked(c)
  PROVE  Priced(Harvest(s, c))
<1> DEFINE product == SetProduct(s, c.goods)
           set(f) == IF c[f] # None /\ ~(f = "shop" /\ c.tool = "availability")
                       THEN c[f] ELSE s[f]
           raw == [product EXCEPT !.qty = set("qty"), !.shop = set("shop"),
                                  !.day = set("day"), !.hour = set("hour")]
<1>1. Priced(product) /\ (c.goods # None => product.goods # None)
  <2>1. /\ c.goods \in Opt(Goods) /\ s \in Slots /\ None \in Opt([goods : Goods, qty : Qty])
        /\ s.amount # None => s.goods # None /\ s.amount.goods = s.goods
    BY PricedGoods DEF Call, Priced, Opt
  <2>2. CASE c.goods = None
    BY <2>2 DEF SetProduct
  <2>3. CASE c.goods # None
    <3>1. product = [s EXCEPT !.goods = c.goods,
                              !.amount = IF s.goods \in {None, c.goods} THEN s.amount ELSE None]
      BY <2>3 DEF SetProduct
    <3> HIDE DEF product
    <3>2. /\ product \in Slots /\ product.goods = c.goods
          /\ product.amount = IF s.goods \in {None, c.goods} THEN s.amount ELSE None
      BY <2>1, <3>1 DEF Slots
    <3>3. QED
      BY <2>1, <2>3, <3>2 DEF Priced
  <2>4. QED
    BY <2>2, <2>3
<1> HIDE DEF product
<1>2. /\ set("qty") \in Opt(Qty) /\ set("shop") \in Opt(Shop)
      /\ set("day") \in Opt(Day) /\ set("hour") \in Opt(Hour)
  BY DEF Call, Priced, Slots
<1> HIDE DEF set
<1>3. raw \in Slots /\ raw.amount = product.amount /\ raw.goods = product.goods
  BY <1>1, <1>2 DEF Priced, Slots
<1>4. Priced(raw) /\ (c.goods # None => raw.goods # None)
  BY <1>1, <1>3 DEF Priced
<1>5. Harvest(s, c) =
         IF c.failed THEN s
         ELSE IF c.tool = "price" /\ raw.qty # None
                THEN [raw EXCEPT !.amount = [goods |-> raw.goods, qty |-> raw.qty]]
                ELSE raw
  BY DEF Harvest, product, set
<1> HIDE DEF raw
<1>6. CASE ~c.failed /\ c.tool = "price" /\ raw.qty # None
  <2> DEFINE r == [raw EXCEPT !.amount = [goods |-> raw.goods, qty |-> raw.qty]]
  <2>1. raw.goods \in Goods /\ raw.qty \in Qty
    BY <1>3, <1>4, <1>6 DEF Asked, Slots, Opt
  <2>2. /\ r \in Slots /\ r.goods = raw.goods
        /\ r.amount = [goods |-> raw.goods, qty |-> raw.qty]
    BY <1>3, <2>1 DEF Slots, Opt
  <2>3. Priced(r)
    BY <2>2 DEF Priced
  <2>4. QED
    BY <1>5, <1>6, <2>3
<1>7. CASE c.failed \/ ~(c.tool = "price" /\ raw.qty # None)
  BY <1>4, <1>5, <1>7
<1>8. QED
  BY <1>6, <1>7

-----------------------------------------------------------------------------

\* Every call the model may make names the product of a price.
LEMMA CallsAsked ==
  ASSUME NEW c \in ModelCalls
  PROVE  /\ c \in Call /\ [c EXCEPT !.failed = TRUE] \in Call
         /\ Asked(c) /\ Asked([c EXCEPT !.failed = TRUE])
<1>1. c \in Call
  BY DEF ModelCalls
<1>2. [c EXCEPT !.failed = TRUE] \in Call /\ [c EXCEPT !.failed = TRUE].failed
  BY <1>1 DEF Call
<1>3. ~c.failed => /\ c.tool \in {"price", "preview"} => c.goods # None
                   /\ c.tool = "preview" => c.qty # None
  BY DEF ModelCalls, Has
<1>4. QED
  BY <1>1, <1>2, <1>3 DEF Asked

-----------------------------------------------------------------------------

LEMMA PreviewCardTyped ==
  ASSUME work \in Slots, NEW c \in Call, Asked(c), c.tool = "preview", ~c.failed
  PROVE  PreviewCard(c) \in Card
<1> DEFINE s == [f \in Field |-> IF f # "amount" /\ c[f] # None THEN c[f] ELSE work[f]]
<1>1. c.goods \in Goods /\ c.qty \in Qty
  BY DEF Asked, Call, Opt
<1>2. s.goods = c.goods /\ s.qty = c.qty
  BY <1>1, OrderAssumption DEF Field, Args
<1>3. /\ s.shop = (IF c.shop # None THEN c.shop ELSE work.shop)
      /\ s.day = (IF c.day # None THEN c.day ELSE work.day)
      /\ s.hour = (IF c.hour # None THEN c.hour ELSE work.hour)
  BY DEF Field, Args
<1>4. s.shop \in Opt(Shop) /\ s.day \in Opt(Day) /\ s.hour \in Opt(Hour)
  BY <1>3 DEF Call, Slots
<1>5. PreviewCard(c) = CardOf(s)
  BY DEF PreviewCard
<1> HIDE DEF s
<1>6. QED
  BY <1>1, <1>2, <1>4, <1>5 DEF CardOf, Card

LEMMA SlotsCardTyped ==
  ASSUME work \in Slots, Ready
  PROVE  CardOf(work) \in Card
<1>1. work.goods # None /\ work.qty # None
  BY DEF Ready, Complete, Args
<1>2. QED
  BY <1>1 DEF CardOf, Card, Slots, Opt

\* Each card is one of a preview or of complete slots.
LEMMA CardsTyped ==
  ASSUME work \in Slots, calls \in Seq(Call), \A i \in DOMAIN calls : Asked(calls[i])
  PROVE  /\ FirstCard \in Card \cup {None}
         /\ \A sized, skip \in BOOLEAN : RichCard(sized, skip) \in Card \cup {None}
<1>1. FirstCard \in Card \cup {None}
  <2>1. CASE Shown("preview") # {}
    <3>1. Shown("preview") \in SUBSET (1 .. Len(calls)) /\ Len(calls) \in Nat
      BY DEF Shown
    <3>2. Latest(Shown("preview")) \in Shown("preview")
      BY <2>1, <3>1, LastExists DEF Latest
    <3>3. PreviewCard(calls[Latest(Shown("preview"))]) \in Card
      BY <3>1, <3>2, PreviewCardTyped DEF Shown
    <3>4. QED
      BY <3>3, SlotsCardTyped DEF FirstCard
  <2>2. CASE Shown("preview") = {}
    BY <2>2, SlotsCardTyped DEF FirstCard
  <2>3. QED
    BY <2>1, <2>2
<1>2. ASSUME NEW sized \in BOOLEAN, NEW skip \in BOOLEAN
      PROVE  RichCard(sized, skip) \in Card \cup {None}
  <2> DEFINE sources == {i \in DOMAIN calls : ~calls[i].failed /\ ~(skip /\ calls[i].tool = "search")}
             c == calls[Latest(sources)]
  <2>1. CASE sources = {}
    BY <2>1 DEF RichCard
  <2>2. CASE sources # {}
    <3>1. sources \in SUBSET (1 .. Len(calls)) /\ Len(calls) \in Nat
      OBVIOUS
    <3>2. Latest(sources) \in sources
      <4> HIDE DEF sources
      <4>1. QED
        BY <2>2, <3>1, LastExists DEF Latest
    <3>3. c \in Call /\ Asked(c) /\ ~c.failed
      BY <3>1, <3>2
    <3>4. c.tool = "preview" => PreviewCard(c) \in Card
      <4> HIDE DEF c
      <4>1. QED
        BY <3>3, PreviewCardTyped
    <3>5. \/ RichCard(sized, skip) = None
          \/ c.tool = "preview" /\ RichCard(sized, skip) = PreviewCard(c)
          \/ Ready /\ RichCard(sized, skip) = CardOf(work)
      BY DEF RichCard
    <3>6. QED
      BY <3>4, <3>5, SlotsCardTyped
  <2>3. QED
    BY <2>1, <2>2
<1>3. QED
  BY <1>1, <1>2

-----------------------------------------------------------------------------

LEMMA EvidenceTyped ==
  ASSUME NEW free PROVE Evidence(free) \in {"free", "refused"}
BY DEF Evidence

LEMMA InitInv == Init => Inv
<1> SUFFICES ASSUME Init PROVE Inv
  OBVIOUS
<1>1. Priced(Empty) /\ Empty \in Slots
  BY EmptyPriced DEF Priced
<1>2. calls \in Seq(Call) /\ DOMAIN calls = {}
  BY DEF Init
<1>3. QED
  BY <1>1, <1>2 DEF Init, Inv, TypeOK

LEMMA ForgetInv ==
  ASSUME Forget, Priced(slots'), ctx' \in Answers \cup {{}, None}
  PROVE  Inv'
<1>1. Priced(Empty) /\ Empty \in Slots /\ slots' \in Slots
  BY EmptyPriced DEF Priced
<1>2. calls' \in Seq(Call) /\ DOMAIN calls' = {}
  BY DEF Forget
<1>3. QED
  BY <1>1, <1>2 DEF Forget, Inv, TypeOK, Priced

LEMMA NextInv == Inv /\ [Next]_vars => Inv'
<1> SUFFICES ASSUME Inv, [Next]_vars PROVE Inv'
  OBVIOUS
<1> USE DEF Inv
<1>1. CASE Begin
  <2>1. Priced(work')
    <3>1. CASE work' = slots
      BY <3>1 DEF Priced
    <3>2. ASSUME NEW values \in Clicks, work' = ApplyRuntime(slots, values, {})
          PROVE  Priced(work')
      <4>1. DOMAIN values \subseteq Args /\ \A f \in DOMAIN values : values[f] \in Values[f]
        BY DEF Clicks, Values, Args, Opt
      <4>2. QED
        BY <3>2, <4>1, ApplyRuntimePriced
    <3>3. QED
      BY <1>1, <3>1, <3>2 DEF Begin
  <2>2. schedule' \in {"no", "click", "text"}
    BY <1>1 DEF Begin
  <2>3. QED
    BY <1>1, <2>1, <2>2 DEF Begin, check, TypeOK, Priced
<1>2. CASE Route
  <2>1. Priced(base')
    <3>1. PICK other \in SUBSET {"product", "shop", "region", "car"}, qty \in Opt(Qty),
               day \in Opt(Day), hour \in Opt(Hour), same \in BOOLEAN, change \in BOOLEAN :
             base' = IF change
                       THEN Without(Merge(work, other, same, qty, day, hour),
                                    {"day", "hour", "amount"})
                       ELSE Merge(work, other, same, qty, day, hour)
      BY <1>2 DEF Route
    <3>2. Priced(Merge(work, other, same, qty, day, hour))
      BY <3>1, MergePriced
    <3>3. QED
      BY <3>1, <3>2, WithoutPriced
  <2>2. /\ schedule' \in {"no", "click", "text"}
        /\ confirms' \in BOOLEAN /\ ordering' \in BOOLEAN
    BY <1>2 DEF Route, TypeOK
  <2>3. QED
    BY <1>2, <2>1, <2>2 DEF Route, check, TypeOK, Priced
<1>3. CASE AnswerShort
  <2>1. Priced(Without(work, UserResets.product))
    <3>1. "amount" \in UserResets.product
      BY DEF UserResets
    <3>2. QED
      BY <3>1, WithoutPriced
  <2>2. Priced(work') /\ calls' = <<>>
    BY <1>3, <2>1 DEF AnswerShort
  <2>3. QED
    BY <1>3, <2>2 DEF AnswerShort, turn, check, TypeOK, Priced
<1>4. CASE CallTool
  <2>1. PICK c \in ModelCalls :
           calls' = Append(calls, IF Denied(c) THEN [c EXCEPT !.failed = TRUE] ELSE c)
    BY <1>4 DEF CallTool
  <2> DEFINE d == IF Denied(c) THEN [c EXCEPT !.failed = TRUE] ELSE c
  <2>2. d \in Call /\ Asked(d)
    BY CallsAsked
  <2> HIDE DEF d
  <2>3. calls' = Append(calls, d)
    BY <2>1 DEF d
  <2>4. calls' \in Seq(Call) /\ \A i \in DOMAIN calls' : Asked(calls'[i])
    BY <2>2, <2>3 DEF TypeOK
  <2>5. Priced(work')
    BY <1>4, <2>4, DerivedPriced DEF CallTool
  <2>6. UNCHANGED <<slots, ctx, pc, turn, harvested, check, card>>
    BY <1>4 DEF CallTool
  <2>7. QED
    BY <2>4, <2>5, <2>6 DEF turn, check, TypeOK, Priced
<1>5. CASE CheckSchedule
  <2>1. ASSUME NEW free PROVE Evidence(free) \in {"free", "refused"}
    BY EvidenceTyped
  <2>2. /\ evidence' \in {"none", "free", "refused"} /\ listed' \in Answers \cup {{}}
        /\ calls' \in Seq(Call) /\ \A i \in DOMAIN calls' : Asked(calls'[i])
    <3>1. CASE FromCalls
      <4>1. Checks(calls) \in SUBSET (1 .. Len(calls)) /\ Len(calls) \in Nat /\ Checks(calls) # {}
        BY <3>1 DEF FromCalls, Checks, TypeOK
      <4>2. LastCheck(calls) \in Call
        <5>1. (CHOOSE i \in Checks(calls) : \A j \in Checks(calls) : j <= i) \in Checks(calls)
          BY <4>1, LastExists
        <5>2. QED
          BY <4>1, <5>1 DEF LastCheck, TypeOK
      <4>3. LastCheck(calls).free \in Answers \cup {{}}
        BY <4>2 DEF Call
      <4>4. QED
        BY <2>1, <3>1, <4>3 DEF FromCalls, TypeOK
    <3>2. CASE FromContext
      BY <2>1, <3>2 DEF FromContext, TypeOK
    <3>3. CASE FromRequired
      <4>1. PICK a \in Answers, s \in Opt(Shop), failed \in BOOLEAN :
               /\ calls' = Append(calls,
                    [tool |-> "availability", failed |-> failed, goods |-> base.goods,
                     qty |-> base.qty, shop |-> s, day |-> base.day, hour |-> None,
                     free |-> IF failed THEN {} ELSE a])
               /\ evidence' = IF failed THEN "refused" ELSE Evidence(a)
               /\ listed' = IF failed THEN {} ELSE a
        BY <3>3 DEF FromRequired
      <4> DEFINE d == [tool |-> "availability", failed |-> failed, goods |-> base.goods,
                       qty |-> base.qty, shop |-> s, day |-> base.day, hour |-> None,
                       free |-> IF failed THEN {} ELSE a]
      <4>2. d \in Call /\ Asked(d)
        BY DEF Call, Tool, Asked, TypeOK, Slots, Opt
      <4> HIDE DEF d
      <4>3. calls' = Append(calls, d)
        BY <4>1 DEF d
      <4>4. calls' \in Seq(Call) /\ \A i \in DOMAIN calls' : Asked(calls'[i])
        BY <4>2, <4>3 DEF TypeOK
      <4>5. QED
        BY <2>1, <4>1, <4>4
    <3>4. CASE Unchecked
      BY <3>4 DEF Unchecked, TypeOK
    <3>5. QED
      BY <1>5, <3>1, <3>2, <3>3, <3>4 DEF CheckSchedule
  <2>3. required' \in BOOLEAN
    BY <1>5 DEF CheckSchedule, Needs, Complete, TypeOK
  <2>4. QED
    BY <1>5, <2>2, <2>3 DEF CheckSchedule, turn, TypeOK, Priced
<1>6. CASE HarvestCall
  <2>1. harvested' \in DOMAIN calls
    BY <1>6 DEF HarvestCall, TypeOK
  <2>2. calls[harvested'] \in Call /\ Asked(calls[harvested'])
    BY <2>1 DEF TypeOK
  <2>3. Priced(work')
    BY <1>6, <2>2, HarvestPriced DEF HarvestCall
  <2>4. QED
    BY <1>6, <2>3 DEF HarvestCall, turn, check, TypeOK, Priced
<1>7. CASE Show
  <2>1. Priced(work')
    BY <1>7, DerivedPriced DEF Show, TypeOK
  <2>2. card' \in Card \cup {None}
    BY <1>7, CardsTyped DEF Show, TypeOK
  <2>3. QED
    BY <1>7, <2>1, <2>2 DEF Show, turn, check, TypeOK, Priced, Card
<1>8. CASE Save
  <2>1. ctx' \in Answers \cup {{}, None}
    <3>1. CASE Shown("availability") = {}
      BY <1>8, <3>1 DEF Save, TypeOK
    <3>2. CASE Shown("availability") # {}
      <4>1. Shown("availability") \in SUBSET (1 .. Len(calls)) /\ Len(calls) \in Nat
        BY DEF Shown, TypeOK
      <4>2. Latest(Shown("availability")) \in Shown("availability")
        BY <3>2, <4>1, LastExists DEF Latest
      <4> DEFINE last == Latest(Shown("availability"))
      <4> HIDE DEF last
      <4>3. calls[last] \in Call
        BY <4>1, <4>2 DEF TypeOK, last
      <4>4. calls[last].free \in Answers \cup {{}}
        BY <4>3 DEF Call
      <4>5. QED
        BY <1>8, <3>2, <4>4 DEF Save, last
    <3>3. QED
      BY <3>1, <3>2
  <2>2. QED
    BY <1>8, <2>1, ForgetInv DEF Save
<1>9. CASE Drop
  BY <1>9, ForgetInv DEF Drop, TypeOK
<1>10. CASE ContextGone
  BY <1>10 DEF ContextGone, turn, check, TypeOK, Priced
<1>11. CASE AnswerStopped
  <2>1. Priced(Without(work, UserResets.product))
    <3>1. "amount" \in UserResets.product
      BY DEF UserResets
    <3>2. QED
      BY <3>1, WithoutPriced
  <2>2. Priced(work') /\ calls' = calls
    BY <1>11, <2>1 DEF AnswerStopped
  <2>3. QED
    BY <1>11, <2>2 DEF AnswerStopped, turn, check, TypeOK, Priced
<1>12. CASE UNCHANGED vars
  BY <1>12 DEF vars, turn, check, TypeOK, Priced
<1>13. QED
  BY <1>1, <1>2, <1>3, <1>4, <1>5, <1>6, <1>7, <1>8, <1>9, <1>10, <1>11, <1>12
     DEF Next

THEOREM TypeCorrect == Spec => []TypeOK
<1>1. Inv => TypeOK
  BY DEF Inv
<1>2. QED
  BY InitInv, NextInv, <1>1, PTL DEF Spec

\* The amount the models quote as it is belongs to the product of the slots.
THEOREM AmountOfTheGoods == Spec => []AmountIsOfTheGoods
<1>1. Inv => AmountIsOfTheGoods
  BY DEF Inv, AmountIsOfTheGoods, Priced
<1>2. QED
  BY InitInv, NextInv, <1>1, PTL DEF Spec

-----------------------------------------------------------------------------
(* The check of the schedule.                                               *)

\* Nothing is shown or checked before its time; "free" is what was listed; and
\* when there was no check of a complete order, nothing asked for its card.
CheckedInv ==
    /\ pc # "saving" => card = None
    /\ pc \in {"idle", "routing", "loop"} => evidence = "none" /\ ~required
    /\ evidence = "free" => <<base.shop, base.day>> \in listed
    /\ pc = "harvest" /\ evidence = "none" /\ Complete(base) /\ ordering =>
          ~required /\ Shown("preview") = {} /\ Shown("price") = {}
    /\ CardIsVerified

LEMMA InitChecked == Init => CheckedInv
BY DEF Init, CheckedInv, CardIsVerified

LEMMA ForgetChecked == ASSUME Forget PROVE CheckedInv'
BY DEF Forget, CheckedInv, CardIsVerified

\* Without a check a card needs a preview or a price.
LEMMA NoCheckNoCard ==
  ASSUME calls \in Seq(Call), evidence = "none",
         Shown("preview") = {}, Shown("price") = {}
  PROVE  FirstCard = None /\ \A sized, skip \in BOOLEAN : RichCard(sized, skip) = None
<1>1. FirstCard = None
  BY DEF FirstCard
<1>2. ASSUME NEW sized \in BOOLEAN, NEW skip \in BOOLEAN
      PROVE  RichCard(sized, skip) = None
  <2> DEFINE sources == {i \in DOMAIN calls : ~calls[i].failed /\ ~(skip /\ calls[i].tool = "search")}
             c == calls[Latest(sources)]
  <2>1. CASE sources = {}
    BY <2>1 DEF RichCard
  <2>2. CASE sources # {}
    <3>1. sources \in SUBSET (1 .. Len(calls)) /\ Len(calls) \in Nat
      OBVIOUS
    <3>2. Latest(sources) \in sources
      <4> HIDE DEF sources
      <4>1. QED
        BY <2>2, <3>1, LastExists DEF Latest
    <3>3. c.tool # "preview" /\ c.tool # "price"
      BY <3>2 DEF Shown
    <3>4. QED
      BY <3>3 DEF RichCard
  <2>3. QED
    BY <2>1, <2>2
<1>3. QED
  BY <1>1, <1>2

LEMMA NextChecked == Inv /\ CheckedInv /\ [Next]_vars => CheckedInv'
<1> SUFFICES ASSUME Inv, CheckedInv, [Next]_vars PROVE CheckedInv'
  OBVIOUS
<1>0. calls \in Seq(Call)
  BY DEF Inv, TypeOK
<1>1. CASE Begin
  BY <1>1 DEF Begin, check, CheckedInv, CardIsVerified
<1>2. CASE Route
  BY <1>2 DEF Route, check, CheckedInv, CardIsVerified
<1>3. CASE AnswerShort
  BY <1>3 DEF AnswerShort, turn, check, CheckedInv, CardIsVerified, Complete
<1>4. CASE CallTool
  BY <1>4 DEF CallTool, turn, check, CheckedInv, CardIsVerified
<1>5. CASE CheckSchedule
  <2>1. /\ card' = None /\ pc' = "harvest" /\ base' = base /\ ordering' = ordering
        /\ required' = Needs
    BY <1>5 DEF CheckSchedule, CheckedInv, turn
  <2>2. evidence' = "free" => <<base.shop, base.day>> \in listed'
    <3>1. ASSUME NEW free, Evidence(free) = "free"
          PROVE  <<base.shop, base.day>> \in free
      BY <3>1 DEF Evidence
    <3>2. CASE FromCalls
      BY <3>1, <3>2 DEF FromCalls
    <3>3. CASE FromContext
      BY <3>1, <3>3 DEF FromContext
    <3>4. CASE FromRequired
      BY <3>1, <3>4 DEF FromRequired
    <3>5. CASE Unchecked
      BY <1>5, <3>5 DEF Unchecked, CheckSchedule, CheckedInv
    <3>6. QED
      BY <1>5, <3>2, <3>3, <3>4, <3>5 DEF CheckSchedule
  <2>3. evidence' = "none" => Unchecked
    <3>1. ASSUME NEW free PROVE Evidence(free) # "none"
      BY DEF Evidence
    <3>2. QED
      BY <1>5, <3>1 DEF CheckSchedule, FromCalls, FromContext, FromRequired
  <2>4. Unchecked /\ Complete(base) /\ ordering =>
           ~Needs /\ calls' = calls /\ Shown("preview") = {} /\ Shown("price") = {}
    BY DEF Unchecked, Needs, Shown
  <2>5. Complete(base)' = Complete(base)
    BY <2>1 DEF Complete
  <2>6. calls' = calls => Shown("preview")' = Shown("preview") /\ Shown("price")' = Shown("price")
    BY DEF Shown
  <2>7. QED
    BY <2>1, <2>2, <2>3, <2>4, <2>5, <2>6 DEF CheckedInv, CardIsVerified
<1>6. CASE HarvestCall
  BY <1>6 DEF HarvestCall, turn, check, CheckedInv, CardIsVerified, Complete, Shown
<1>7. CASE Show
  <2>1. /\ pc = "harvest" /\ pc' = "saving" /\ base' = base /\ ordering' = ordering
        /\ evidence' = evidence /\ listed' = listed /\ required' = required
    BY <1>7 DEF Show, turn, check
  <2>2. Complete(base)' = Complete(base)
    BY <2>1 DEF Complete
  <2>3. CASE evidence = "none" /\ Complete(base) /\ ordering
    <3>1. Shown("preview") = {} /\ Shown("price") = {}
      BY <2>1, <2>3 DEF CheckedInv
    <3>2. card' = None
      BY <1>0, <1>7, <2>3, <3>1, NoCheckNoCard DEF Show
    <3>3. QED
      BY <2>1, <2>3, <3>2 DEF CheckedInv, CardIsVerified
  <2>4. CASE ~(evidence = "none" /\ Complete(base) /\ ordering)
    <3>1. evidence \in {"none", "free", "refused"}
      BY DEF Inv, TypeOK
    <3>2. CardIsVerified'
      BY <2>1, <2>2, <2>4, <3>1 DEF CheckedInv, CardIsVerified
    <3>3. QED
      BY <2>1, <3>2 DEF CheckedInv
  <2>5. QED
    BY <2>3, <2>4
<1>8. CASE Save
  BY <1>8, ForgetChecked DEF Save
<1>9. CASE Drop
  BY <1>9, ForgetChecked DEF Drop
<1>10. CASE ContextGone
  BY <1>10 DEF ContextGone, turn, check, CheckedInv, CardIsVerified, Complete, Shown
<1>11. CASE AnswerStopped
  BY <1>11 DEF AnswerStopped, turn, check, CheckedInv, CardIsVerified, Complete
<1>12. CASE UNCHANGED vars
  BY <1>12 DEF vars, turn, check, CheckedInv, CardIsVerified, Complete, Shown
<1>13. QED
  BY <1>1, <1>2, <1>3, <1>4, <1>5, <1>6, <1>7, <1>8, <1>9, <1>10, <1>11, <1>12
     DEF Next

\* A card for the settled shop and day was verified, or its check said no.
THEOREM CardsAreVerified == Spec => []CardIsVerified
<1>1. CheckedInv => CardIsVerified
  BY DEF CheckedInv
<1>2. QED
  BY InitInv, NextInv, InitChecked, NextChecked, <1>1, PTL DEF Spec

=============================================================================
