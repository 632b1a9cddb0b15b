------------------------ MODULE RollingSummaryProofs ------------------------
(***************************************************************************)
(* Proofs about RollingSummary, for any number of tasks and any limits:    *)
(* types, one task at a time, the summary as a prefix of the history, its  *)
(* progress, and the completeness of the prompts read from it.             *)
(***************************************************************************)
EXTENDS RollingSummary, SequenceTheorems, TLAPS

USE DEF vars, shared, task, bounds

Busy == {"fetching", "thinking", "saving"}
Fetched == {"thinking", "saving"}

\* A task past Decide found enough to cover, beyond what its summary covers.
Ahead ==
    \A w \in Task : at[w] \in Busy =>
        /\ base[w].covered < Target(w)
        /\ Exists(base[w]) => Target(w) - base[w].covered >= Interval

\* The lock, while no live task outlives it, is that of the working task.
LockHeld == TasksFitTTL => \A w \in Task : Working(w) => lock = w

\* A summary anyone holds was made from exactly the prefix it names.
Prefixed(s) ==
    /\ s.of = Span(1, s.covered)
    /\ s.covered = 0 \/ s.covered + Keep <= Len(history)

\* A task counted no message that is not there, and fetched what it targets.
Counted(w) == count[w] <= Len(history)
FetchedSpan(w) ==
    at[w] \in Fetched => batch[w] = Span(base[w].covered + 1, Target(w))

AllPrefixed ==
    deletes = 0 =>
        /\ Prefixed(summary) /\ Prefixed(prompt.summary)
        /\ \A w \in Task : Prefixed(base[w]) /\ Counted(w) /\ FetchedSpan(w)

\* Under the lock nobody replaces the summary a task started from.
BaseIsCurrent ==
    TasksFitTTL /\ deletes = 0 =>
        \A w \in Task : at[w] \in Busy /\ Exists(summary) => base[w] = summary

\* What a prompt must hold was in the history when it began and still is.
Promised ==
    deletes = 0 =>
        /\ Len(history) <= stored
        /\ prompt.phase = "started" => prompt.due \subseteq Span(1, Len(history))

-----------------------------------------------------------------------------
(* The history.                                                             *)

\* t is s with e at the place p: it keeps what stands before the place and
\* shifts what stands after.
Inserted(s, p, e, t) ==
    /\ t \in Seq(Nat) /\ Len(t) = Len(s) + 1
    /\ \A j \in 1 .. p - 1 : t[j] = s[j]
    /\ t[p] = e
    /\ \A j \in p .. Len(s) : t[j + 1] = s[j]

LEMMA InsertAtFacts ==
    ASSUME NEW s \in Seq(Nat), NEW p \in 1 .. Len(s) + 1, NEW e \in Nat
    PROVE  Inserted(s, p, e, InsertAt(s, p, e))
<1> DEFINE a == SubSeq(s, 1, p - 1)
           b == <<e>>
           c == SubSeq(s, p, Len(s))
           ab == a \o b
           abc == ab \o c
<1>0. Len(s) \in Nat /\ p \in Nat /\ p >= 1 /\ p <= Len(s) + 1
  BY LenProperties
<1>1. /\ a \in Seq(Nat) /\ Len(a) = p - 1
      /\ \A j \in 1 .. p - 1 : a[j] = s[j]
  <2>1. \A i \in 1 .. p - 1 : s[i] \in Nat
    BY ElementOfSeq
  <2>2. QED
    BY <2>1, SubSeqProperties, LenProperties
<1>2. b \in Seq(Nat) /\ Len(b) = 1 /\ b[1] = e
  OBVIOUS
<1>3. /\ c \in Seq(Nat) /\ Len(c) = Len(s) - p + 1
      /\ \A j \in 1 .. Len(s) - p + 1 : c[j] = s[p + j - 1]
  <2>1. \A i \in p .. Len(s) : s[i] \in Nat
    BY ElementOfSeq
  <2>2. QED
    BY <2>1, SubSeqProperties, LenProperties
<1>6. InsertAt(s, p, e) = abc
  BY DEF InsertAt
<1> HIDE DEF a, b, c
<1>4. /\ ab \in Seq(Nat) /\ Len(ab) = p
      /\ \A j \in 1 .. p - 1 : ab[j] = s[j]
      /\ ab[p] = e
  <2>1. /\ ab \in Seq(Nat) /\ Len(ab) = Len(a) + Len(b)
        /\ \A i \in 1 .. Len(a) + Len(b) :
              ab[i] = IF i <= Len(a) THEN a[i] ELSE b[i - Len(a)]
    BY <1>1, <1>2, ConcatProperties
  <2> HIDE DEF ab
  <2>2. ASSUME NEW j \in 1 .. p - 1 PROVE ab[j] = s[j]
    <3>1. j \in 1 .. Len(a) + Len(b) /\ j <= Len(a)
      BY <1>0, <1>1, <1>2
    <3>2. ab[j] = a[j]
      BY <2>1, <3>1
    <3>3. QED
      BY <1>1, <3>2
  <2>3. ab[p] = e
    <3>1. p \in 1 .. Len(a) + Len(b) /\ ~(p <= Len(a)) /\ p - Len(a) = 1
      BY <1>0, <1>1, <1>2
    <3>2. ab[p] = b[p - Len(a)]
      BY <2>1, <3>1
    <3>3. QED
      BY <1>2, <3>1, <3>2
  <2>4. QED
    BY <1>0, <1>1, <1>2, <2>1, <2>2, <2>3
<1> HIDE DEF ab
<1>5. /\ abc \in Seq(Nat) /\ Len(abc) = Len(s) + 1
      /\ \A j \in 1 .. Len(s) + 1 : abc[j] = IF j <= p THEN ab[j] ELSE c[j - p]
  <2>1. /\ abc \in Seq(Nat) /\ Len(abc) = Len(ab) + Len(c)
        /\ \A i \in 1 .. Len(ab) + Len(c) :
              abc[i] = IF i <= Len(ab) THEN ab[i] ELSE c[i - Len(ab)]
    BY <1>3, <1>4, ConcatProperties
  <2> HIDE DEF abc
  <2>2. Len(ab) + Len(c) = Len(s) + 1 /\ Len(ab) = p
    BY <1>0, <1>3, <1>4
  <2>3. QED
    BY <2>1, <2>2
<1> HIDE DEF abc
<1>7. ASSUME NEW j \in p .. Len(s) PROVE abc[j + 1] = s[j]
  <2>1. j + 1 \in 1 .. Len(s) + 1 /\ ~(j + 1 <= p) /\ j + 1 - p \in 1 .. Len(s) - p + 1
    BY <1>0
  <2>2. \A k \in 1 .. Len(s) + 1 : ~(k <= p) => abc[k] = c[k - p]
    BY <1>5
  <2>3. p + (j + 1 - p) - 1 = j
    BY <1>0
  <2>4. QED
    <3>1. abc[j + 1] = c[j + 1 - p]
      BY <2>1, <2>2
    <3>2. c[j + 1 - p] = s[p + (j + 1 - p) - 1]
      BY <1>3, <2>1
    <3>3. QED
      BY <2>3, <3>1, <3>2
<1>8. ASSUME NEW j \in 1 .. p - 1 PROVE abc[j] = s[j]
  <2>1. j \in 1 .. Len(s) + 1 /\ j <= p
    BY <1>0
  <2>2. QED
    BY <1>4, <1>5, <2>1
<1>9. abc[p] = e
  <2>1. p \in 1 .. Len(s) + 1 /\ p <= p
    BY <1>0
  <2>2. QED
    BY <1>4, <1>5, <2>1
<1>10. Inserted(s, p, e, abc)
  BY <1>5, <1>7, <1>8, <1>9 DEF Inserted
<1>11. QED
  BY <1>6, <1>10

\* A stored message lands after every place that can be covered.
LEMMA StoreFacts ==
    ASSUME TypeOK, StoreMessage
    PROVE  /\ history' \in Seq(Nat) /\ Len(history') = Len(history) + 1
           /\ \A j \in 1 .. Len(history) - Keep : history'[j] = history[j]
           /\ \A j \in 1 .. Len(history) : \E i \in 1 .. Len(history) + 1 :
                 history'[i] = history[j]
<1>1. PICK late \in 0 .. Lesser(MaxLate, Len(history)) :
          history' = InsertAt(history, Len(history) + 1 - late, stored + 1)
  BY DEF StoreMessage
<1>2. Len(history) \in Nat /\ history \in Seq(Nat) /\ stored + 1 \in Nat
  BY LenProperties DEF TypeOK
<1>3. /\ Len(history) + 1 - late \in 1 .. Len(history) + 1
      /\ late <= Keep
  BY <1>2, LimitsAssumption DEF Lesser
<1>4. /\ history' \in Seq(Nat) /\ Len(history') = Len(history) + 1
      /\ \A j \in 1 .. Len(history) - late : history'[j] = history[j]
      /\ \A j \in Len(history) + 1 - late .. Len(history) : history'[j + 1] = history[j]
  <2> DEFINE p == Len(history) + 1 - late
  <2>1. p \in 1 .. Len(history) + 1
    BY <1>3
  <2>2. p - 1 = Len(history) - late
    BY <1>2
  <2> HIDE DEF p
  <2>3. Inserted(history, p, stored + 1, InsertAt(history, p, stored + 1))
    BY ONLY <1>2, <2>1, InsertAtFacts
  <2>4. history' = InsertAt(history, p, stored + 1)
    BY <1>1 DEF p
  <2>5. Inserted(history, p, stored + 1, history')
    BY ONLY <2>3, <2>4
  <2>6. QED
    BY ONLY <2>2, <2>5 DEF p, Inserted
<1>5. \A j \in 1 .. Len(history) - Keep : history'[j] = history[j]
  <2>1. Keep \in Nat /\ late <= Keep
    BY <1>3, LimitsAssumption
  <2>2. \A j \in 1 .. Len(history) - Keep : j \in 1 .. Len(history) - late
    BY <1>2, <1>3, <2>1
  <2>3. QED
    BY <1>4, <2>2
<1>6. ASSUME NEW j \in 1 .. Len(history)
      PROVE  \E i \in 1 .. Len(history) + 1 : history'[i] = history[j]
  <2>1. CASE j <= Len(history) - late
    <3>1. j \in 1 .. Len(history) - late /\ j \in 1 .. Len(history) + 1
      BY <1>2, <1>3, <2>1
    <3>2. QED
      BY <1>4, <3>1
  <2>2. CASE j > Len(history) - late
    <3>1. j \in Len(history) + 1 - late .. Len(history) /\ j + 1 \in 1 .. Len(history) + 1
      BY <1>2, <1>3, <2>2
    <3>2. QED
      BY <1>4, <3>1
  <2>3. QED
    BY <1>2, <1>3, <2>1, <2>2
<1>7. QED
  BY <1>4, <1>5, <1>6

\* What the history holds after it is what it held and the message itself.
LEMMA StoredMembers ==
    ASSUME TypeOK, StoreMessage, NEW i \in 1 .. Len(history')
    PROVE  history'[i] = stored + 1 \/ \E j \in 1 .. Len(history) : history'[i] = history[j]
<1>1. PICK late \in 0 .. Lesser(MaxLate, Len(history)) :
          history' = InsertAt(history, Len(history) + 1 - late, stored + 1)
  BY DEF StoreMessage
<1>2. Len(history) \in Nat /\ history \in Seq(Nat) /\ stored + 1 \in Nat
  BY LenProperties DEF TypeOK
<1> DEFINE p == Len(history) + 1 - late
<1>3. p \in 1 .. Len(history) + 1
  BY <1>2, LimitsAssumption DEF Lesser
<1>4. history' = InsertAt(history, p, stored + 1)
  BY <1>1
<1> HIDE DEF p
<1>5. /\ Len(history') = Len(history) + 1 /\ history'[p] = stored + 1
      /\ \A j \in 1 .. p - 1 : history'[j] = history[j]
      /\ \A j \in p .. Len(history) : history'[j + 1] = history[j]
  <2>1. Inserted(history, p, stored + 1, InsertAt(history, p, stored + 1))
    BY ONLY <1>2, <1>3, InsertAtFacts
  <2>2. Inserted(history, p, stored + 1, history')
    BY ONLY <1>4, <2>1
  <2>3. QED
    BY ONLY <2>2 DEF Inserted
<1>6. CASE i < p
  <2>1. i \in 1 .. p - 1 /\ i \in 1 .. Len(history)
    BY <1>2, <1>3, <1>5, <1>6
  <2>2. QED
    BY <1>5, <2>1
<1>7. CASE i > p
  <2> DEFINE j == i - 1
  <2>1. j \in p .. Len(history) /\ j \in 1 .. Len(history) /\ j + 1 = i
    BY <1>2, <1>3, <1>5, <1>7
  <2> HIDE DEF j
  <2>2. QED
    BY <1>5, <2>1
<1>8. CASE i = p
  BY <1>5, <1>8
<1>9. QED
  BY <1>2, <1>3, <1>5, <1>6, <1>7, <1>8

\* A span within the history is a set of messages.
LEMMA SpanType ==
    ASSUME history \in Seq(Nat), NEW m \in Nat \ {0}, NEW n \in Int, n <= Len(history)
    PROVE  Span(m, n) \in SUBSET Nat
<1>1. \A i \in m .. n : history[i] \in Nat
  BY LenProperties, ElementOfSeq
<1>2. QED
  BY <1>1 DEF Span

-----------------------------------------------------------------------------
(* Types.                                                                   *)

LEMMA LimitsAreNumbers ==
    /\ MinMessages \in Nat /\ Interval \in Nat /\ Keep \in Nat /\ Window \in Nat
    /\ MaxMessages \in Nat /\ MaxLate \in Nat
BY LimitsAssumption

\* A task that ends leaves well-typed locals.
LEMMA EndType ==
    ASSUME TypeOK, NEW w \in Task, End(w)
    PROVE  /\ at' \in [Task -> Place] /\ count' \in [Task -> Nat]
           /\ base' \in [Task -> SummaryType] /\ batch' \in [Task -> SUBSET Nat]
<1>1. at' \in [Task -> Place]
  BY DEF TypeOK, End, Goto, Place
<1>2. count' \in [Task -> Nat] /\ batch' \in [Task -> SUBSET Nat]
  BY DEF TypeOK, End
<1>3. base' \in [Task -> SummaryType]
  BY DEF TypeOK, End, SummaryType, NoSummary
<1>4. QED
  BY <1>1, <1>2, <1>3

\* Every variable keeps its type; a busy task covers more than it found.
THEOREM TypeCorrect == Spec => [](TypeOK /\ Ahead)
<1> USE TaskAssumption, LimitsAreNumbers DEF SummaryType, NoSummary
<1>1. Init => TypeOK /\ Ahead
  BY EmptySeq DEF Init, TypeOK, Ahead, Place, NoPrompt, Busy
<1>2. (TypeOK /\ Ahead) /\ [Next]_vars => TypeOK'
  <2> SUFFICES ASSUME TypeOK, Ahead, [Next]_vars PROVE TypeOK'
    OBVIOUS
  <2>0. /\ Len(history) \in Int /\ Len(history) \in Nat
        /\ Len(history) <= Len(history) /\ 1 \in Nat \ {0}
        /\ \A m \in Nat \ {0}, n \in Int : n <= Len(history) => Span(m, n) \in SUBSET Nat
    <3>1. history \in Seq(Nat)
      BY DEF TypeOK
    <3>2. QED
      BY <3>1, SpanType, LenProperties
  <2>100. \A m \in Nat \ {0} : Span(m, Len(history)) \in SUBSET Nat
    BY ONLY <2>0, Zenon
  <2> USE DEF TypeOK, Place
  <2>1. ASSUME NEW w \in Task, Start(w) PROVE TypeOK'
    BY <2>1 DEF Start, Goto
  <2>2. ASSUME NEW w \in Task, CountMessages(w) PROVE TypeOK'
    BY <2>2, LenProperties DEF CountMessages, Goto
  <2>3. ASSUME NEW w \in Task, Decide(w) PROVE TypeOK'
    BY <2>3 DEF Decide, Goto
  <2>4. ASSUME NEW w \in Task, Fetch(w) PROVE TypeOK'
    <3>1. Lesser(Target(w), Len(history)) \in Int
          /\ Lesser(Target(w), Len(history)) <= Len(history)
      BY <2>0 DEF Lesser, Target
    <3>2. Span(base[w].covered + 1, Lesser(Target(w), Len(history))) \in SUBSET Nat
      <4>1. base[w].covered + 1 \in Nat \ {0}
        OBVIOUS
      <4>2. QED
        BY <2>0, <3>1, <4>1
    <3>3. QED
      BY <2>4, <3>2 DEF Fetch, Goto
  <2>5. ASSUME NEW w \in Task, Summarize(w) PROVE TypeOK'
    BY <2>5 DEF Summarize, Goto
  <2>6. ASSUME NEW w \in Task, Save(w) PROVE TypeOK'
    <3>1. Target(w) \in Nat
      BY <2>6 DEF Save, Ahead, Busy, Target
    <3>2. base[w].of \cup batch[w] \subseteq Nat
      OBVIOUS
    <3>3. QED
      BY <2>6, <3>1, <3>2 DEF Save, Goto
  <2>7. ASSUME NEW w \in Task, Release(w) PROVE TypeOK'
    BY <2>7, EndType DEF Release
  <2>8. ASSUME NEW w \in Task, WorkerDies(w) PROVE TypeOK'
    <3>1. crashes' \in Nat
      BY <2>8 DEF WorkerDies
    <3>2. QED
      BY <2>8, <3>1, EndType DEF WorkerDies
  <2>9. ASSUME Skip PROVE TypeOK'
    BY <2>9 DEF Skip
  <2>10. ASSUME StoreMessage PROVE TypeOK'
    <3>1. history' \in Seq(Nat)
      BY <2>10, StoreFacts
    <3>2. stored' = stored + 1 /\ wanted' \in {wanted, wanted + 1}
      BY <2>10 DEF StoreMessage
    <3>22. stored' \in Nat /\ wanted' \in Nat
      BY <3>2
    <3>3. QED
      BY <2>10, <3>1, <3>22 DEF StoreMessage
  <2>11. ASSUME DeleteSession PROVE TypeOK'
    <3>1. Span(1, Len(history)) \in SUBSET Nat
      BY ONLY <2>0, <2>100, Zenon
    <3>2. QED
      <4>1. history' \in Seq(Nat) /\ deleted' \subseteq Nat
        <5>1. history' = <<>> /\ deleted' \subseteq deleted \cup Span(1, Len(history))
          BY <2>11 DEF DeleteSession, Removed
        <5>2. <<>> \in Seq(Nat)
          BY EmptySeq
        <5>3. QED
          BY <3>1, <5>1, <5>2
      <4>2. QED
        BY <2>11, <4>1 DEF DeleteSession
  <2>12. ASSUME StartPrompt PROVE TypeOK'
    <3>1. Span(1, Len(history)) \in SUBSET Nat
      BY ONLY <2>0, <2>100, Zenon
    <3>2. QED
      BY <2>12, <3>1 DEF StartPrompt
  <2>13. ASSUME FinishPrompt PROVE TypeOK'
    <3>1. FirstRecent(prompt.summary) \in Nat \ {0}
      BY <2>0 DEF FirstRecent
    <3>2. Span(FirstRecent(prompt.summary), Len(history)) \in SUBSET Nat
      BY ONLY <2>100, <3>1, Zenon
    <3>3. prompt' = [prompt EXCEPT !.phase = "read",
                     !.recent = Span(FirstRecent(prompt.summary), Len(history))]
      BY <2>13 DEF FinishPrompt
    <3>4. prompt' \in [phase : {"none", "started", "read"}, summary : SummaryType,
                        recent : SUBSET Nat, due : SUBSET Nat]
      BY <3>2, <3>3
    <3>5. QED
      BY <2>13, <3>4 DEF FinishPrompt
  <2>14. ASSUME SummaryExpires PROVE TypeOK'
    <3>1. summary' \in SummaryType /\ lapses' \in Nat
      BY <2>14 DEF SummaryExpires
    <3>2. QED
      BY <2>14, <3>1 DEF SummaryExpires
  <2>15. ASSUME LockExpires PROVE TypeOK'
    BY <2>15 DEF LockExpires
  <2>16. CASE UNCHANGED vars
    BY <2>16 DEF vars
  <2>17. QED
    BY <2>1, <2>2, <2>3, <2>4, <2>5, <2>6, <2>7, <2>8, <2>9, <2>10, <2>11, <2>12, <2>13, <2>14, <2>15, <2>16 DEF Next, Run
<1>3. (TypeOK /\ Ahead) /\ [Next]_vars => Ahead'
  <2> SUFFICES ASSUME TypeOK, Ahead, [Next]_vars PROVE Ahead'
    OBVIOUS
  <2> USE DEF TypeOK, Place, Ahead, Busy, Target
  <2>1. ASSUME NEW w \in Task, Start(w) PROVE Ahead'
    BY <2>1 DEF Start, Goto
  <2>2. ASSUME NEW w \in Task, CountMessages(w) PROVE Ahead'
    BY <2>2 DEF CountMessages, Goto
  <2>3. ASSUME NEW w \in Task, Decide(w) PROVE Ahead'
    <3>1. count' = count /\ Target(w)' = Target(w)
      BY <2>3 DEF Decide
    <3>2. base' = [base EXCEPT ![w] = summary]
      BY <2>3 DEF Decide
    <3>3. at' = [at EXCEPT ![w] = IF TooEarly(w, summary) THEN "releasing" ELSE "fetching"]
      BY <2>3 DEF Decide, Goto
    <3>4. Target(w) \in Int /\ summary.covered \in Nat
      BY DEF SummaryType
    <3>5. ~TooEarly(w, summary) => /\ summary.covered < Target(w)
                                   /\ Exists(summary) => Target(w) - summary.covered >= Interval
      <4> HIDE DEF Target
      <4>1. QED
        BY <3>4, LimitsAreNumbers DEF TooEarly
    <3>6. base'[w] = summary /\ (at'[w] \in Busy => ~TooEarly(w, summary))
      BY <3>2, <3>3
    <3>7. \A v \in Task : v # w => at'[v] = at[v] /\ base'[v] = base[v]
      BY <3>2, <3>3
    <3>8. QED
      <4> SUFFICES ASSUME NEW v \in Task, at'[v] \in Busy
                   PROVE  /\ base'[v].covered < Target(v)'
                          /\ Exists(base'[v]) => Target(v)' - base'[v].covered >= Interval
        BY DEF Ahead
      <4>1. CASE v = w
        <5>1. base'[v] = summary /\ ~TooEarly(w, summary)
          BY <3>6, <4>1
        <5>2. /\ summary.covered < Target(w)
              /\ Exists(summary) => Target(w) - summary.covered >= Interval
          BY ONLY <3>5, <5>1
        <5>3. Target(v)' = Target(w)
          BY <3>1, <4>1
        <5>4. QED
          BY ONLY <5>1, <5>2, <5>3
      <4>2. CASE v # w
        <5>1. at[v] \in Busy /\ base'[v] = base[v]
          BY <3>7, <4>2
        <5>2. /\ base[v].covered < Target(v)
              /\ Exists(base[v]) => Target(v) - base[v].covered >= Interval
          BY ONLY <5>1, Ahead, v \in Task DEF Ahead
        <5>3. Target(v)' = Target(v)
          BY <3>1
        <5>4. QED
          BY ONLY <5>1, <5>2, <5>3
      <4>3. QED
        BY <4>1, <4>2
  <2>4. ASSUME NEW w \in Task, Fetch(w) PROVE Ahead'
    BY <2>4 DEF Fetch, Goto
  <2>5. ASSUME NEW w \in Task, Summarize(w) PROVE Ahead'
    BY <2>5 DEF Summarize, Goto
  <2>6. ASSUME NEW w \in Task, Save(w) PROVE Ahead'
    BY <2>6 DEF Save, Goto
  <2>7. ASSUME NEW w \in Task, Release(w) PROVE Ahead'
    BY <2>7 DEF Release, Goto, End
  <2>8. ASSUME NEW w \in Task, WorkerDies(w) PROVE Ahead'
    BY <2>8 DEF WorkerDies, Goto, End
  <2>9. ASSUME Skip PROVE Ahead'
    BY <2>9 DEF Skip
  <2>10. ASSUME StoreMessage PROVE Ahead'
    BY <2>10 DEF StoreMessage
  <2>11. ASSUME DeleteSession PROVE Ahead'
    BY <2>11 DEF DeleteSession
  <2>12. ASSUME StartPrompt PROVE Ahead'
    BY <2>12 DEF StartPrompt
  <2>13. ASSUME FinishPrompt PROVE Ahead'
    BY <2>13 DEF FinishPrompt
  <2>14. ASSUME SummaryExpires PROVE Ahead'
    BY <2>14 DEF SummaryExpires
  <2>15. ASSUME LockExpires PROVE Ahead'
    BY <2>15 DEF LockExpires
  <2>16. CASE UNCHANGED vars
    BY <2>16 DEF vars
  <2>17. QED
    BY <2>1, <2>2, <2>3, <2>4, <2>5, <2>6, <2>7, <2>8, <2>9, <2>10, <2>11, <2>12, <2>13, <2>14, <2>15, <2>16 DEF Next, Run
<1>4. QED
  BY <1>1, <1>2, <1>3, PTL DEF Spec

-----------------------------------------------------------------------------
(* One task at a time.                                                      *)

\* Only the task that holds the lock works.
LEMMA LockStep ==
    ASSUME TypeOK, LockHeld, [Next]_vars
    PROVE  LockHeld'
<1> USE TaskAssumption DEF TypeOK, LockHeld, Working
<1>1. ASSUME NEW w \in Task, Start(w) PROVE LockHeld'
  BY <1>1 DEF Start, Goto
<1>2. ASSUME NEW w \in Task, CountMessages(w) PROVE LockHeld'
  BY <1>2 DEF CountMessages, Goto
<1>3. ASSUME NEW w \in Task, Decide(w) PROVE LockHeld'
  BY <1>3 DEF Decide, Goto
<1>4. ASSUME NEW w \in Task, Fetch(w) PROVE LockHeld'
  BY <1>4 DEF Fetch, Goto
<1>5. ASSUME NEW w \in Task, Summarize(w) PROVE LockHeld'
  BY <1>5 DEF Summarize, Goto
<1>6. ASSUME NEW w \in Task, Save(w) PROVE LockHeld'
  BY <1>6 DEF Save, Goto
<1>7. ASSUME NEW w \in Task, Release(w) PROVE LockHeld'
  BY <1>7 DEF Release, Goto, End
<1>8. ASSUME NEW w \in Task, WorkerDies(w) PROVE LockHeld'
  BY <1>8 DEF WorkerDies, Goto, End
<1>9. ASSUME Skip PROVE LockHeld'
  BY <1>9 DEF Skip
<1>10. ASSUME StoreMessage PROVE LockHeld'
  BY <1>10 DEF StoreMessage
<1>11. ASSUME DeleteSession PROVE LockHeld'
  BY <1>11 DEF DeleteSession
<1>12. ASSUME StartPrompt PROVE LockHeld'
  BY <1>12 DEF StartPrompt
<1>13. ASSUME FinishPrompt PROVE LockHeld'
  BY <1>13 DEF FinishPrompt
<1>14. ASSUME SummaryExpires PROVE LockHeld'
  BY <1>14 DEF SummaryExpires
<1>15. ASSUME LockExpires PROVE LockHeld'
  BY <1>15 DEF LockExpires
<1>16. CASE UNCHANGED vars
  BY <1>16 DEF vars
<1>17. QED
  BY <1>1, <1>2, <1>3, <1>4, <1>5, <1>6, <1>7, <1>8, <1>9, <1>10, <1>11, <1>12, <1>13, <1>14, <1>15, <1>16 DEF Next, Run

\* If no live task outlives the lock, at most one task works in the session,
\* for any number of tasks, crashes and deletions.
THEOREM Exclusion == Spec => []OneSummarizer
<1>1. Init => LockHeld
  BY DEF Init, LockHeld, Working
<1>2. TypeOK /\ LockHeld /\ [Next]_vars => LockHeld'
  BY LockStep
<1>3. LockHeld => OneSummarizer
  BY DEF LockHeld, OneSummarizer
<1>4. QED
  BY <1>1, <1>2, <1>3, TypeCorrect, PTL DEF Spec

-----------------------------------------------------------------------------
(* The summary and the history.                                             *)

\* A step that leaves the history alone leaves every prefix alone.
LEMMA SameHistory ==
    ASSUME history' = history, NEW m, NEW n
    PROVE  Span(m, n)' = Span(m, n)
BY DEF Span

\* A stored message changes no prefix a summary can name.
LEMMA StoreKeepsSpans ==
    ASSUME TypeOK, StoreMessage, NEW m \in Nat \ {0}, NEW n \in Int,
           n + Keep <= Len(history)
    PROVE  {history'[i] : i \in m .. n} = Span(m, n)
<1>1. Len(history) \in Nat
  BY LenProperties DEF TypeOK
<1>2. \A j \in 1 .. Len(history) - Keep : history'[j] = history[j]
  BY StoreFacts
<1>3. \A j \in m .. n : j \in 1 .. Len(history) - Keep
  BY <1>1, LimitsAreNumbers
<1>4. QED
  BY <1>2, <1>3 DEF Span

\* No step but a save makes a summary that was not there, and a save makes one
\* of the prefix up to what its task targets.
LEMMA AllPrefixedHolds == Spec => []AllPrefixed
<1> USE LimitsAreNumbers DEF NoSummary
<1>1. Init => AllPrefixed
  <2> SUFFICES ASSUME Init PROVE AllPrefixed
    OBVIOUS
  <2>1. Len(history) = 0 /\ Span(1, 0) = {}
    BY EmptySeq DEF Init, Span
  <2>2. QED
    <3>1. Prefixed(summary) /\ Prefixed(prompt.summary)
      BY <2>1 DEF Init, Prefixed, NoPrompt
    <3>2. ASSUME NEW w \in Task
          PROVE  Prefixed(base[w]) /\ Counted(w) /\ FetchedSpan(w)
      <4>1. base[w] = NoSummary /\ count[w] = 0 /\ at[w] = "idle"
        BY DEF Init
      <4>2. QED
        BY <2>1, <4>1 DEF Prefixed, Counted, FetchedSpan, Fetched
    <3>3. QED
      BY <3>1, <3>2 DEF AllPrefixed
<1>2. TypeOK /\ Ahead /\ AllPrefixed /\ [Next]_vars => AllPrefixed'
  <2> SUFFICES ASSUME TypeOK, Ahead, AllPrefixed, [Next]_vars PROVE AllPrefixed'
    OBVIOUS
  <2>100. Len(history) \in Nat
    BY LenProperties DEF TypeOK
  <2>101. ASSUME history' = history PROVE \A m, n : Span(m, n)' = Span(m, n)
    BY <2>101, SameHistory
  <2>102. Span(1, 0) = {}
    BY DEF Span
  <2> USE <2>100 DEF TypeOK, AllPrefixed, Prefixed, Counted, FetchedSpan, Fetched
  <2>1. ASSUME NEW w \in Task, Start(w) PROVE AllPrefixed'
    BY <2>1, <2>101 DEF Start, Goto, Target
  <2>2. ASSUME NEW w \in Task, CountMessages(w) PROVE AllPrefixed'
    BY <2>2, <2>101 DEF CountMessages, Goto, Target
  <2>3. ASSUME NEW w \in Task, Decide(w) PROVE AllPrefixed'
    BY <2>3, <2>101 DEF Decide, Goto, Target
  <2>4. ASSUME NEW w \in Task, Fetch(w) PROVE AllPrefixed'
    <3>1. history' = history /\ deletes' = deletes /\ summary' = summary /\ prompt' = prompt
          /\ base' = base /\ count' = count
      BY <2>4 DEF Fetch
    <3>2. SUFFICES ASSUME deletes = 0, NEW v \in Task PROVE FetchedSpan(v)'
      BY <3>1, <3>2, <2>101
    <3>3. Target(w) <= Len(history) /\ Target(v)' = Target(v)
      BY <3>1, <3>2 DEF Target
    <3>4. Lesser(Target(w), Len(history)) = Target(w)
      <4>1. Target(w) \in Int
        BY DEF Target
      <4>2. QED
        BY <3>3, <4>1 DEF Lesser
    <3>5. CASE v = w
      BY <2>4, <3>1, <3>3, <3>4, <3>5, <2>101 DEF Fetch, Goto
    <3>6. CASE v # w
      BY <2>4, <3>1, <3>2, <3>3, <3>6, <2>101 DEF Fetch, Goto
    <3>7. QED
      BY <3>5, <3>6
  <2>5. ASSUME NEW w \in Task, Summarize(w) PROVE AllPrefixed'
    BY <2>5, <2>101 DEF Summarize, Goto, Target
  <2>6. ASSUME NEW w \in Task, Save(w) PROVE AllPrefixed'
    <3>1. deletes' = deletes /\ history' = history
      BY <2>6 DEF Save
    <3>2. SUFFICES ASSUME deletes = 0 PROVE Prefixed(summary)'
      BY <2>6, <3>1, <3>2, <2>101 DEF Save, Goto, Target
    <3>3. /\ base[w].of = Span(1, base[w].covered)
          /\ batch[w] = Span(base[w].covered + 1, Target(w))
          /\ base[w].covered < Target(w) /\ base[w].covered \in Nat
          /\ Target(w) + Keep <= Len(history) /\ Target(w) \in Int
      <4>1. at[w] = "saving"
        BY <2>6 DEF Save
      <4>2. Prefixed(base[w]) /\ FetchedSpan(w) /\ Counted(w)
        BY <3>2
      <4>3. base[w].covered \in Nat /\ Target(w) \in Int
        BY DEF SummaryType, Target
      <4>4. base[w].covered < Target(w)
        BY <4>1 DEF Ahead, Busy
      <4>5. QED
        BY <4>1, <4>2, <4>3, <4>4 DEF Target, Busy
    <3>5. base[w].of \cup batch[w] = Span(1, Target(w))
      <4>1. {history[i] : i \in 1 .. base[w].covered}
              \cup {history[i] : i \in base[w].covered + 1 .. Target(w)}
            = {history[i] : i \in 1 .. Target(w)}
        <5> DEFINE c == base[w].covered
                   t == Target(w)
        <5>1. c \in Nat /\ t \in Int /\ c < t
          BY <3>3
        <5> HIDE DEF c, t
        <5>2. 1 .. t = (1 .. c) \cup (c + 1 .. t)
          BY ONLY <5>1, SMTT(30)
        <5>3. {history[i] : i \in 1 .. c} \cup {history[i] : i \in c + 1 .. t}
              = {history[i] : i \in 1 .. t}
          BY ONLY <5>2, SMTT(30)
        <5>4. QED
          BY ONLY <5>3 DEF c, t
      <4>2. QED
        BY <3>3, <4>1 DEF Span
    <3>6. QED
      BY <2>6, <3>1, <3>3, <3>5, <2>101 DEF Save
  <2>7. ASSUME NEW w \in Task, Release(w) PROVE AllPrefixed'
    <3>1. /\ history' = history /\ summary' = summary /\ prompt' = prompt
          /\ deletes' = deletes
      BY <2>7 DEF Release
    <3>2. SUFFICES ASSUME deletes = 0 PROVE AllPrefixed'
      BY <3>1
    <3>3. Prefixed(summary)' /\ Prefixed(prompt.summary)'
      BY <3>1, <3>2, <2>101
    <3>4. ASSUME NEW v \in Task
          PROVE  Prefixed(base[v])' /\ Counted(v)' /\ FetchedSpan(v)'
      <4>1. CASE v = w
        <5>1. base'[v] = NoSummary /\ count'[v] = 0 /\ at'[v] = "idle"
          BY <2>7, <4>1 DEF Release, End, Goto
        <5>2. Span(1, 0)' = {}
          BY DEF Span
        <5>3. QED
          BY <3>1, <5>1, <5>2
      <4>2. CASE v # w
        <5>1. base'[v] = base[v] /\ count'[v] = count[v] /\ at'[v] = at[v]
              /\ batch'[v] = batch[v] /\ Target(v)' = Target(v)
          BY <2>7, <4>2 DEF Release, End, Goto, Target
        <5>2. QED
          BY <3>1, <3>2, <5>1, <2>101
      <4>3. QED
        BY <4>1, <4>2
    <3>5. QED
      BY <3>3, <3>4
  <2>8. ASSUME NEW w \in Task, WorkerDies(w) PROVE AllPrefixed'
    <3>1. /\ history' = history /\ summary' = summary /\ prompt' = prompt
          /\ deletes' = deletes
      BY <2>8 DEF WorkerDies
    <3>2. SUFFICES ASSUME deletes = 0 PROVE AllPrefixed'
      BY <3>1
    <3>3. Prefixed(summary)' /\ Prefixed(prompt.summary)'
      BY <3>1, <3>2, <2>101
    <3>4. ASSUME NEW v \in Task
          PROVE  Prefixed(base[v])' /\ Counted(v)' /\ FetchedSpan(v)'
      <4>1. CASE v = w
        <5>1. base'[v] = NoSummary /\ count'[v] = 0 /\ at'[v] = "idle"
          BY <2>8, <4>1 DEF WorkerDies, End, Goto
        <5>2. Span(1, 0)' = {}
          BY DEF Span
        <5>3. QED
          BY <3>1, <5>1, <5>2
      <4>2. CASE v # w
        <5>1. base'[v] = base[v] /\ count'[v] = count[v] /\ at'[v] = at[v]
              /\ batch'[v] = batch[v] /\ Target(v)' = Target(v)
          BY <2>8, <4>2 DEF WorkerDies, End, Goto, Target
        <5>2. QED
          BY <3>1, <3>2, <5>1, <2>101
      <4>3. QED
        BY <4>1, <4>2
    <3>5. QED
      BY <3>3, <3>4
  <2>9. ASSUME Skip PROVE AllPrefixed'
    BY <2>9, <2>101 DEF Skip, Target
  <2>10. ASSUME StoreMessage PROVE AllPrefixed'
    <3>1. SUFFICES ASSUME deletes = 0 PROVE AllPrefixed'
      BY <2>10 DEF StoreMessage
    <3>2. Len(history') = Len(history) + 1
      BY <2>10, StoreFacts
    <3>3. \A m \in Nat \ {0}, n \in Int :
             n + Keep <= Len(history) => Span(m, n)' = Span(m, n)
      BY <2>10, StoreKeepsSpans DEF Span
    <3>4. Span(1, 0)' = {}
      BY DEF Span
    <3>5. ASSUME NEW s \in SummaryType, Prefixed(s)
          PROVE  s.of = Span(1, s.covered)' /\ (s.covered = 0 \/ s.covered + Keep <= Len(history'))
      <4>1. s.covered \in Nat /\ s.of = Span(1, s.covered)
            /\ (s.covered = 0 \/ s.covered + Keep <= Len(history))
        BY <3>5 DEF SummaryType
      <4>2. CASE s.covered = 0
        BY <3>4, <4>1, <4>2, <2>102
      <4>3. CASE s.covered + Keep <= Len(history)
        <5>1. Span(1, s.covered)' = Span(1, s.covered)
          BY <3>3, <4>1, <4>3
        <5>2. QED
          BY <3>2, <4>1, <4>3, <5>1
      <4>4. QED
        BY <4>1, <4>2, <4>3
    <3>6. Prefixed(summary)' /\ Prefixed(prompt.summary)'
      BY <2>10, <3>1, <3>5 DEF StoreMessage
    <3>7. ASSUME NEW w \in Task
          PROVE  Prefixed(base[w])' /\ Counted(w)' /\ FetchedSpan(w)'
      <4>1. Prefixed(base[w])'
        BY <2>10, <3>1, <3>5 DEF StoreMessage
      <4>2. Counted(w)'
        BY <2>10, <3>1, <3>2 DEF StoreMessage
      <4>3. Target(w) + Keep <= Len(history) /\ Target(w) \in Int
            /\ base[w].covered + 1 \in Nat \ {0}
        BY <3>1 DEF Target, SummaryType
      <4>4. FetchedSpan(w)'
        <5>1. at' = at /\ batch' = batch /\ base' = base /\ Target(w)' = Target(w)
          BY <2>10 DEF StoreMessage, Target
        <5>2. Span(base[w].covered + 1, Target(w))' = {history'[i] : i \in base[w].covered + 1 .. Target(w)}
          BY <5>1 DEF Span
        <5>3. {history'[i] : i \in base[w].covered + 1 .. Target(w)} = Span(base[w].covered + 1, Target(w))
          BY <2>10, <4>3, StoreKeepsSpans
        <5>4. QED
          BY <3>1, <5>1, <5>2, <5>3
      <4>5. QED
        BY <4>1, <4>2, <4>4
    <3>8. QED
      BY <3>6, <3>7
  <2>11. ASSUME DeleteSession PROVE AllPrefixed'
    BY <2>11 DEF DeleteSession
  <2>12. ASSUME StartPrompt PROVE AllPrefixed'
    BY <2>12, <2>101 DEF StartPrompt, Target
  <2>13. ASSUME FinishPrompt PROVE AllPrefixed'
    BY <2>13, <2>101 DEF FinishPrompt, Target
  <2>14. ASSUME SummaryExpires PROVE AllPrefixed'
    BY <2>14, <2>101, <2>102 DEF SummaryExpires, Target
  <2>15. ASSUME LockExpires PROVE AllPrefixed'
    BY <2>15, <2>101 DEF LockExpires, Target
  <2>16. CASE UNCHANGED vars
    BY <2>16, <2>101 DEF vars, Target
  <2>17. QED
    BY <2>1, <2>2, <2>3, <2>4, <2>5, <2>6, <2>7, <2>8, <2>9, <2>10, <2>11, <2>12, <2>13, <2>14, <2>15, <2>16 DEF Next, Run
<1>3. QED
  BY <1>1, <1>2, TypeCorrect, PTL DEF Spec

\* The summary stands for exactly the messages its covered_count names and
\* never for one of the last Keep: even when the lock is lost and two tasks
\* summarize at once, for any order in which messages land at most Keep late.
THEOREM PrefixSafe == Spec => []SummaryIsThePrefix
<1>1. AllPrefixed /\ TypeOK => SummaryIsThePrefix
  <2> SUFFICES ASSUME AllPrefixed, TypeOK, deletes = 0 PROVE SummaryIsThePrefix
    BY DEF SummaryIsThePrefix
  <2>1. Span(1, 0) = {}
    BY DEF Span
  <2>2. CASE summary.covered = 0
    <3>1. summary.of = {}
      BY <2>1, <2>2 DEF AllPrefixed, Prefixed
    <3>2. summary = NoSummary
      BY <2>2, <3>1 DEF TypeOK, SummaryType, NoSummary
    <3>3. QED
      BY <2>1, <2>2, <3>1, <3>2 DEF SummaryIsThePrefix, Exists
  <2>3. CASE summary.covered # 0
    BY <2>3 DEF AllPrefixed, Prefixed, SummaryIsThePrefix
  <2>4. QED
    BY <2>2, <2>3
<1>2. QED
  BY <1>1, TypeCorrect, AllPrefixedHolds, PTL

-----------------------------------------------------------------------------
(* Progress of the summary.                                                 *)

\* Under the lock a busy task holds the summary that is stored, if one is.
LEMMA BaseStaysCurrent == Spec => []BaseIsCurrent
<1>1. Init => BaseIsCurrent
  BY DEF Init, BaseIsCurrent, Busy
<1>2. TypeOK /\ LockHeld /\ BaseIsCurrent /\ [Next]_vars => BaseIsCurrent'
  <2> SUFFICES ASSUME TypeOK, LockHeld, BaseIsCurrent, [Next]_vars PROVE BaseIsCurrent'
    OBVIOUS
  <2> USE DEF TypeOK, BaseIsCurrent, Busy, Exists
  <2>1. ASSUME NEW w \in Task, Start(w) PROVE BaseIsCurrent'
    BY <2>1 DEF Start, Goto
  <2>2. ASSUME NEW w \in Task, CountMessages(w) PROVE BaseIsCurrent'
    BY <2>2 DEF CountMessages, Goto
  <2>3. ASSUME NEW w \in Task, Decide(w) PROVE BaseIsCurrent'
    BY <2>3 DEF Decide, Goto
  <2>4. ASSUME NEW w \in Task, Fetch(w) PROVE BaseIsCurrent'
    BY <2>4 DEF Fetch, Goto
  <2>5. ASSUME NEW w \in Task, Summarize(w) PROVE BaseIsCurrent'
    BY <2>5 DEF Summarize, Goto
  <2>6. ASSUME NEW w \in Task, Save(w) PROVE BaseIsCurrent'
    <3>1. SUFFICES ASSUME TasksFitTTL, NEW v \in Task, at'[v] \in Busy PROVE FALSE
      BY <2>6 DEF Save
    <3>2. v # w /\ Working(v) /\ Working(w)
      BY <2>6, <3>1 DEF Save, Goto, Working
    <3>3. QED
      BY <3>1, <3>2 DEF LockHeld
  <2>7. ASSUME NEW w \in Task, Release(w) PROVE BaseIsCurrent'
    BY <2>7 DEF Release, Goto, End
  <2>8. ASSUME NEW w \in Task, WorkerDies(w) PROVE BaseIsCurrent'
    BY <2>8 DEF WorkerDies, Goto, End
  <2>9. ASSUME Skip PROVE BaseIsCurrent'
    BY <2>9 DEF Skip
  <2>10. ASSUME StoreMessage PROVE BaseIsCurrent'
    BY <2>10 DEF StoreMessage
  <2>11. ASSUME DeleteSession PROVE BaseIsCurrent'
    BY <2>11 DEF DeleteSession
  <2>12. ASSUME StartPrompt PROVE BaseIsCurrent'
    BY <2>12 DEF StartPrompt
  <2>13. ASSUME FinishPrompt PROVE BaseIsCurrent'
    BY <2>13 DEF FinishPrompt
  <2>14. ASSUME SummaryExpires PROVE BaseIsCurrent'
    BY <2>14 DEF SummaryExpires
  <2>15. ASSUME LockExpires PROVE BaseIsCurrent'
    BY <2>15 DEF LockExpires
  <2>16. CASE UNCHANGED vars
    BY <2>16 DEF vars
  <2>17. QED
    BY <2>1, <2>2, <2>3, <2>4, <2>5, <2>6, <2>7, <2>8, <2>9, <2>10, <2>11, <2>12, <2>13, <2>14, <2>15, <2>16 DEF Next, Run
<1>3. Spec => []LockHeld
  <2>1. Init => LockHeld
    BY DEF Init, LockHeld, Working
  <2>2. TypeOK /\ LockHeld /\ [Next]_vars => LockHeld'
    BY LockStep
  <2>3. QED
    BY <2>1, <2>2, TypeCorrect, PTL DEF Spec
<1>4. QED
  BY <1>1, <1>2, <1>3, TypeCorrect, PTL DEF Spec

\* A summary that replaces another covers at least Interval messages more.
THEOREM Advances == Spec => SummaryAdvances
<1>1. TypeOK /\ Ahead /\ BaseIsCurrent /\ [Next]_vars
      => [(TasksFitTTL /\ deletes = 0 /\ Exists(summary) /\ Exists(summary')
           /\ summary' # summary)
          => summary'.covered >= summary.covered + Interval]_vars
  <2> SUFFICES ASSUME TypeOK, Ahead, BaseIsCurrent, Next, TasksFitTTL, deletes = 0,
                      Exists(summary), Exists(summary'), summary' # summary
               PROVE  summary'.covered >= summary.covered + Interval
    OBVIOUS
  <2>1. PICK w \in Task : Save(w)
    BY DEF Next, Run, Start, CountMessages, Decide, Fetch, Summarize, Release,
           WorkerDies, Skip, StoreMessage, DeleteSession, StartPrompt,
           FinishPrompt, SummaryExpires, LockExpires, Exists
  <2>2. at[w] \in Busy /\ base[w] = summary /\ summary'.covered = Target(w)
    BY <2>1 DEF Save, Busy, BaseIsCurrent
  <2>3. Target(w) - summary.covered >= Interval
    BY <2>2 DEF Ahead
  <2>4. Target(w) \in Int /\ summary.covered \in Nat
    BY LimitsAreNumbers DEF Target, TypeOK, SummaryType
  <2>5. QED
    BY <2>2, <2>3, <2>4, LimitsAreNumbers
<1>2. QED
  BY <1>1, TypeCorrect, BaseStaysCurrent, PTL DEF Spec, SummaryAdvances

-----------------------------------------------------------------------------
(* Prompts.                                                                 *)

\* What a prompt is due stays in the history until it is read.
LEMMA PromisedHolds == Spec => []Promised
<1>1. Init => Promised
  BY EmptySeq DEF Init, Promised, NoPrompt
<1>2. TypeOK /\ Promised /\ [Next]_vars => Promised'
  <2> SUFFICES ASSUME TypeOK, Promised, [Next]_vars PROVE Promised'
    OBVIOUS
  <2>100. Len(history) \in Nat
    BY LenProperties DEF TypeOK
  <2>101. ASSUME history' = history PROVE \A m, n : Span(m, n)' = Span(m, n)
    BY <2>101, SameHistory
  <2> USE <2>100 DEF TypeOK, Promised
  <2>1. ASSUME NEW w \in Task, Start(w) PROVE Promised'
    BY <2>1, <2>101 DEF Start, Goto
  <2>2. ASSUME NEW w \in Task, CountMessages(w) PROVE Promised'
    BY <2>2, <2>101 DEF CountMessages, Goto
  <2>3. ASSUME NEW w \in Task, Decide(w) PROVE Promised'
    BY <2>3, <2>101 DEF Decide, Goto
  <2>4. ASSUME NEW w \in Task, Fetch(w) PROVE Promised'
    BY <2>4, <2>101 DEF Fetch, Goto
  <2>5. ASSUME NEW w \in Task, Summarize(w) PROVE Promised'
    BY <2>5, <2>101 DEF Summarize, Goto
  <2>6. ASSUME NEW w \in Task, Save(w) PROVE Promised'
    BY <2>6, <2>101 DEF Save, Goto
  <2>7. ASSUME NEW w \in Task, Release(w) PROVE Promised'
    BY <2>7, <2>101 DEF Release, Goto, End
  <2>8. ASSUME NEW w \in Task, WorkerDies(w) PROVE Promised'
    BY <2>8, <2>101 DEF WorkerDies, Goto, End
  <2>9. ASSUME Skip PROVE Promised'
    BY <2>9, <2>101 DEF Skip
  <2>10. ASSUME StoreMessage PROVE Promised'
    <3>1. Len(history') = Len(history) + 1 /\ stored' = stored + 1
          /\ deletes' = deletes /\ prompt' = prompt
      BY <2>10, StoreFacts DEF StoreMessage
    <3>2. Span(1, Len(history)) \subseteq {history'[i] : i \in 1 .. Len(history) + 1}
      <4>1. \A j \in 1 .. Len(history) : \E i \in 1 .. Len(history) + 1 : history'[i] = history[j]
        BY <2>10, StoreFacts
      <4> HIDE <2>100 DEF TypeOK, Promised
      <4>2. QED
        BY <4>1 DEF Span
    <3>3. {history'[i] : i \in 1 .. Len(history) + 1} = Span(1, Len(history))'
      BY <3>1 DEF Span
    <3>4. QED
      BY <3>1, <3>2, <3>3
  <2>11. ASSUME DeleteSession PROVE Promised'
    BY <2>11 DEF DeleteSession
  <2>12. ASSUME StartPrompt PROVE Promised'
    BY <2>12, <2>101 DEF StartPrompt
  <2>13. ASSUME FinishPrompt PROVE Promised'
    BY <2>13, <2>101 DEF FinishPrompt
  <2>14. ASSUME SummaryExpires PROVE Promised'
    BY <2>14, <2>101 DEF SummaryExpires
  <2>15. ASSUME LockExpires PROVE Promised'
    BY <2>15, <2>101 DEF LockExpires
  <2>16. CASE UNCHANGED vars
    BY <2>16, <2>101 DEF vars
  <2>17. QED
    BY <2>1, <2>2, <2>3, <2>4, <2>5, <2>6, <2>7, <2>8, <2>9, <2>10, <2>11, <2>12, <2>13, <2>14, <2>15, <2>16 DEF Next, Run
<1>3. QED
  BY <1>1, <1>2, TypeCorrect, PTL DEF Spec

\* A prompt read from a summary and the messages after it holds every message
\* that was there when the read began, whatever saves and stores come between
\* the two commands; one read without a summary does unless the window is full.
THEOREM PromptsComplete == Spec => []PromptHasEveryMessage
<1>1. Init => PromptHasEveryMessage
  BY DEF Init, PromptHasEveryMessage, NoPrompt
<1>2. TypeOK /\ AllPrefixed /\ Promised /\ PromptHasEveryMessage /\ [Next]_vars
      => PromptHasEveryMessage'
  <2> SUFFICES ASSUME TypeOK, AllPrefixed, Promised, PromptHasEveryMessage, [Next]_vars
               PROVE  PromptHasEveryMessage'
    OBVIOUS
  <2> USE LimitsAreNumbers DEF TypeOK, PromptHasEveryMessage
  <2>1. ASSUME NEW w \in Task, Start(w) PROVE PromptHasEveryMessage'
    BY <2>1 DEF Start, Goto
  <2>2. ASSUME NEW w \in Task, CountMessages(w) PROVE PromptHasEveryMessage'
    BY <2>2 DEF CountMessages, Goto
  <2>3. ASSUME NEW w \in Task, Decide(w) PROVE PromptHasEveryMessage'
    BY <2>3 DEF Decide, Goto
  <2>4. ASSUME NEW w \in Task, Fetch(w) PROVE PromptHasEveryMessage'
    BY <2>4 DEF Fetch, Goto
  <2>5. ASSUME NEW w \in Task, Summarize(w) PROVE PromptHasEveryMessage'
    BY <2>5 DEF Summarize, Goto
  <2>6. ASSUME NEW w \in Task, Save(w) PROVE PromptHasEveryMessage'
    BY <2>6 DEF Save, Goto
  <2>7. ASSUME NEW w \in Task, Release(w) PROVE PromptHasEveryMessage'
    BY <2>7 DEF Release, Goto, End
  <2>8. ASSUME NEW w \in Task, WorkerDies(w) PROVE PromptHasEveryMessage'
    BY <2>8 DEF WorkerDies, Goto, End
  <2>9. ASSUME Skip PROVE PromptHasEveryMessage'
    BY <2>9 DEF Skip
  <2>10. ASSUME StoreMessage PROVE PromptHasEveryMessage'
    BY <2>10 DEF StoreMessage
  <2>11. ASSUME DeleteSession PROVE PromptHasEveryMessage'
    BY <2>11 DEF DeleteSession
  <2>12. ASSUME StartPrompt PROVE PromptHasEveryMessage'
    BY <2>12 DEF StartPrompt
  <2>13. ASSUME FinishPrompt PROVE PromptHasEveryMessage'
    <3>1. SUFFICES ASSUME deletes = 0, Exists(prompt.summary) \/ stored <= Window
                   PROVE  prompt'.due \subseteq prompt'.summary.of \cup prompt'.recent
      BY <2>13 DEF FinishPrompt
    <3>2. /\ prompt'.due = prompt.due /\ prompt'.summary = prompt.summary
          /\ prompt'.recent = Span(FirstRecent(prompt.summary), Len(history))
          /\ prompt.due \subseteq Span(1, Len(history)) /\ Len(history) <= stored
      BY <2>13, <3>1 DEF FinishPrompt, Promised
    <3>3. Len(history) \in Nat
      BY LenProperties
    <3>4. CASE Exists(prompt.summary)
      <4> DEFINE c == prompt.summary.covered
      <4>1. /\ prompt.summary.of = Span(1, c) /\ c \in Nat
            /\ prompt'.recent = Span(c + 1, Len(history))
        BY <3>1, <3>2, <3>4 DEF AllPrefixed, Prefixed, SummaryType, FirstRecent
      <4>2. Span(1, Len(history)) \subseteq Span(1, c) \cup Span(c + 1, Len(history))
        <5> HIDE DEF c
        <5>1. \A i \in 1 .. Len(history) : i \in 1 .. c \/ i \in c + 1 .. Len(history)
          BY <3>3, <4>1
        <5>2. QED
          BY <5>1 DEF Span
      <4>3. QED
        BY <3>2, <4>1, <4>2
    <3>5. CASE ~Exists(prompt.summary)
      <4>1. FirstRecent(prompt.summary) = 1
        BY <3>1, <3>2, <3>3, <3>5 DEF FirstRecent
      <4>2. QED
        BY <3>2, <4>1
    <3>6. QED
      BY <3>4, <3>5
  <2>14. ASSUME SummaryExpires PROVE PromptHasEveryMessage'
    BY <2>14 DEF SummaryExpires
  <2>15. ASSUME LockExpires PROVE PromptHasEveryMessage'
    BY <2>15 DEF LockExpires
  <2>16. CASE UNCHANGED vars
    BY <2>16 DEF vars
  <2>17. QED
    BY <2>1, <2>2, <2>3, <2>4, <2>5, <2>6, <2>7, <2>8, <2>9, <2>10, <2>11, <2>12, <2>13, <2>14, <2>15, <2>16 DEF Next, Run
<1>3. QED
  BY <1>1, <1>2, TypeCorrect, AllPrefixedHolds, PromisedHolds, PTL DEF Spec

-----------------------------------------------------------------------------
(* Deleted messages.                                                        *)

\* A deleted message is nowhere a task, or the store, could take it from; a
\* task that is not at work holds nothing.
Forgotten ==
    /\ deleted \subseteq 1 .. stored
    /\ \A i \in 1 .. Len(history) : history[i] \in 1 .. stored /\ history[i] \notin deleted
    /\ summary.of \cap deleted = {}
    /\ \A w \in Task : /\ base[w].of \cap deleted = {} /\ batch[w] \cap deleted = {}
                       /\ ~Working(w) => base[w] = NoSummary /\ batch[w] = {}

\* No step that deletes nothing, moves no message and leaves tasks and summary
\* with what was there already can bring one back.
LEMMA StillForgotten ==
    ASSUME TypeOK, Forgotten, UNCHANGED <<history, stored, deleted>>,
           summary'.of \cap deleted = {},
           \A w \in Task : /\ base'[w].of \cap deleted = {} /\ batch'[w] \cap deleted = {}
                           /\ at'[w] = "idle" => base'[w] = NoSummary /\ batch'[w] = {}
    PROVE  Forgotten'
BY DEF Forgotten, Working

LEMMA ForgottenHolds == Spec => []Forgotten
<1>1. Init => Forgotten
  <2> SUFFICES ASSUME Init PROVE Forgotten
    OBVIOUS
  <2>1. Len(history) = 0 /\ stored = 0 /\ deleted = {}
    BY EmptySeq DEF Init
  <2>2. QED
    BY <2>1 DEF Init, Forgotten, NoSummary
<1>2. TypeOK /\ Forgotten /\ [Next]_vars => Forgotten'
  <2> SUFFICES ASSUME TypeOK, Forgotten, [Next]_vars PROVE Forgotten'
    OBVIOUS
  <2>100. Len(history) \in Nat /\ stored \in Nat /\ NoSummary.of = {}
    BY LenProperties DEF TypeOK, NoSummary
  <2>101. /\ summary.of \cap deleted = {}
          /\ \A w \in Task : /\ base[w].of \cap deleted = {} /\ batch[w] \cap deleted = {}
                             /\ at[w] = "idle" => base[w] = NoSummary /\ batch[w] = {}
    BY DEF Forgotten, Working
  <2>102. /\ at \in [Task -> Place] /\ base \in [Task -> SummaryType]
          /\ batch \in [Task -> SUBSET Nat] /\ count \in [Task -> Nat]
    BY DEF TypeOK
  <2>103. /\ \A i \in 1 .. Len(history) : history[i] \in 1 .. stored /\ history[i] \notin deleted
          /\ deleted \subseteq 1 .. stored
    BY DEF Forgotten
  <2>1. ASSUME NEW w \in Task, Start(w) PROVE Forgotten'
    <3>1. /\ UNCHANGED <<history, stored, deleted, summary, base, batch>>
          /\ at[w] = "idle" /\ at' = [at EXCEPT ![w] = "counting"]
      BY <2>1 DEF Start, Goto, bounds
    <3>2. QED
      BY <2>101, <2>102, <3>1, StillForgotten
  <2>2. ASSUME NEW w \in Task, CountMessages(w) \/ Decide(w) \/ Summarize(w) \/ Fetch(w)
        PROVE Forgotten'
    <3>1. /\ UNCHANGED <<history, stored, deleted, summary>>
          /\ at[w] # "idle" /\ \E p \in Place \ {"idle"} : at' = [at EXCEPT ![w] = p]
      BY <2>2 DEF CountMessages, Decide, Summarize, Fetch, Goto, bounds, shared, Place
    <3>2. \A v \in Task : /\ base'[v] \in {base[v], summary}
                          /\ at'[v] = "idle" => base'[v] = base[v] /\ batch'[v] = batch[v]
                          /\ at'[v] = "idle" => at[v] = "idle"
      BY <2>2, <2>102, <3>1 DEF CountMessages, Decide, Summarize, Fetch
    <3>3. \A v \in Task : batch'[v] \cap deleted = {}
      <4>1. CASE Fetch(w)
        <5> DEFINE range == Span(base[w].covered + 1, Lesser(Target(w), Len(history)))
        <5>1. batch' = [batch EXCEPT ![w] = range]
          BY <4>1 DEF Fetch
        <5>2. range \cap deleted = {}
          <6>1. base[w].covered + 1 \in Nat \ {0}
            BY <2>102 DEF SummaryType
          <6>2. Lesser(Target(w), Len(history)) \in Int
                /\ Lesser(Target(w), Len(history)) <= Len(history)
            BY <2>100, <2>102, LimitsAreNumbers DEF Lesser, Target
          <6>3. \A i \in base[w].covered + 1 .. Lesser(Target(w), Len(history)) :
                   i \in 1 .. Len(history)
            BY <2>100, <6>1, <6>2
          <6>4. QED
            BY <2>103, <6>3 DEF Span
        <5> HIDE DEF range
        <5>3. QED
          BY <2>101, <2>102, <5>1, <5>2
      <4>2. CASE ~Fetch(w)
        BY <2>2, <2>101, <4>2 DEF CountMessages, Decide, Summarize
      <4>3. QED
        BY <4>1, <4>2
    <3>4. QED
      BY <2>101, <3>1, <3>2, <3>3, StillForgotten
  <2>3. ASSUME NEW w \in Task, Save(w) PROVE Forgotten'
    <3>1. /\ UNCHANGED <<history, stored, deleted, base, batch>>
          /\ at[w] # "idle" /\ at' = [at EXCEPT ![w] = "releasing"]
          /\ summary' = [covered |-> Target(w), of |-> base[w].of \cup batch[w]]
      BY <2>3 DEF Save, Goto, bounds
    <3>2. summary'.of \cap deleted = {}
      BY <2>101, <3>1
    <3>3. \A v \in Task : at'[v] = "idle" => at[v] = "idle"
      BY <2>102, <3>1
    <3>4. QED
      BY <2>101, <3>1, <3>2, <3>3, StillForgotten
  <2>4. ASSUME NEW w \in Task, Release(w) \/ WorkerDies(w) PROVE Forgotten'
    <3>1. UNCHANGED <<history, stored, deleted, summary>> /\ End(w)
      BY <2>4 DEF Release, WorkerDies, bounds, shared
    <3>2. /\ at' = [at EXCEPT ![w] = "idle"] /\ base' = [base EXCEPT ![w] = NoSummary]
          /\ batch' = [batch EXCEPT ![w] = {}]
      BY <3>1 DEF End, Goto
    <3>3. \A v \in Task : /\ base'[v].of \cap deleted = {} /\ batch'[v] \cap deleted = {}
                          /\ at'[v] = "idle" => base'[v] = NoSummary /\ batch'[v] = {}
      <4>1. ASSUME NEW v \in Task, v # w
            PROVE  base'[v] = base[v] /\ batch'[v] = batch[v] /\ at'[v] = at[v]
        BY <2>102, <3>2, <4>1
      <4>2. base'[w] = NoSummary /\ batch'[w] = {}
        BY <2>102, <3>2
      <4>3. QED
        BY <2>100, <2>101, <4>1, <4>2
    <3>4. QED
      BY <2>101, <3>1, <3>3, StillForgotten
  <2>5. ASSUME Skip \/ StartPrompt \/ FinishPrompt \/ LockExpires \/ SummaryExpires
               \/ UNCHANGED vars
        PROVE Forgotten'
    <3>1. UNCHANGED <<history, stored, deleted, at, base, batch>>
      BY <2>5 DEF Skip, StartPrompt, FinishPrompt, LockExpires, SummaryExpires, vars,
                  shared, task, bounds
    <3>2. summary' \in {summary, NoSummary}
      BY <2>5 DEF Skip, StartPrompt, FinishPrompt, LockExpires, SummaryExpires, vars, shared
    <3>3. QED
      BY <2>100, <2>101, <3>1, <3>2, StillForgotten
  <2>6. ASSUME StoreMessage PROVE Forgotten'
    <3>1. /\ UNCHANGED <<summary, at, base, batch, deleted>> /\ stored' = stored + 1
      BY <2>6 DEF StoreMessage, task
    <3>2. ASSUME NEW i \in 1 .. Len(history')
          PROVE  history'[i] \in 1 .. stored' /\ history'[i] \notin deleted'
      <4>1. history'[i] = stored + 1 \/ \E j \in 1 .. Len(history) : history'[i] = history[j]
        BY <2>6, <3>2, StoredMembers
      <4>2. CASE history'[i] = stored + 1
        BY <2>100, <2>103, <3>1, <4>2
      <4>3. CASE \E j \in 1 .. Len(history) : history'[i] = history[j]
        BY <2>100, <2>103, <3>1, <4>3
      <4>4. QED
        BY <4>1, <4>2, <4>3
    <3>3. deleted' \subseteq 1 .. stored'
      BY <2>100, <2>103, <3>1
    <3>4. QED
      BY <2>101, <3>1, <3>2, <3>3 DEF Forgotten, Working
  <2>7. ASSUME DeleteSession PROVE Forgotten'
    <3>1. /\ UNCHANGED <<stored, at, base, batch>> /\ history' = <<>>
          /\ summary' = NoSummary /\ deleted' = deleted \cup Removed
      BY <2>7 DEF DeleteSession, task
    <3>2. Len(history') = 0
      BY <3>1, EmptySeq
    <3>3. Removed \subseteq 1 .. stored
      BY <2>103 DEF Removed, Span
    <3>4. CASE \E v \in Task : Working(v)
      <4>1. deleted' = deleted
        BY <3>1, <3>4 DEF Removed
      <4>2. summary'.of \cap deleted' = {} /\ deleted' \subseteq 1 .. stored'
        BY <2>100, <2>103, <3>1, <4>1
      <4>3. \A v \in Task : /\ base'[v].of \cap deleted' = {} /\ batch'[v] \cap deleted' = {}
                            /\ at'[v] = "idle" => base'[v] = NoSummary /\ batch'[v] = {}
        BY <2>101, <3>1, <4>1
      <4>4. \A i \in 1 .. Len(history') : FALSE
        BY <3>2
      <4>5. QED
        BY <4>2, <4>3, <4>4 DEF Forgotten, Working
    <3>5. CASE \A v \in Task : ~Working(v)
      <4>1. \A v \in Task : base'[v] = NoSummary /\ batch'[v] = {}
        BY <2>101, <3>1, <3>5 DEF Working
      <4>2. deleted' \subseteq 1 .. stored'
        BY <2>103, <3>1, <3>3
      <4>3. QED
        BY <2>100, <3>1, <3>2, <4>1, <4>2 DEF Forgotten
    <3>6. QED
      BY <3>4, <3>5
  <2>8. QED
    BY <2>1, <2>2, <2>3, <2>4, <2>5, <2>6, <2>7 DEF Next, Run
<1>3. QED
  BY <1>1, <1>2, TypeCorrect, PTL DEF Spec

\* delete_session: what is deleted while no refresh_summary is at work never
\* comes back in a summary, whatever tasks find, skip or crash afterwards.
THEOREM DeletionForgets == Spec => []DeletedAreForgotten
<1>1. Forgotten => DeletedAreForgotten
  BY DEF Forgotten, DeletedAreForgotten
<1>2. QED
  BY <1>1, ForgottenHolds, PTL
=============================================================================
