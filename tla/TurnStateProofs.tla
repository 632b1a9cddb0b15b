-------------------------- MODULE TurnStateProofs --------------------------
(***************************************************************************)
(* The types, the choices, the deletion and the results of TurnState, for  *)
(* every number of requests and calls, every size of the tool context and  *)
(* every number of faults and deletions.  The choices do not depend on the *)
(* tool context; for the results, the middle part says what a merge keeps. *)
(***************************************************************************)
EXTENDS TurnState, TLAPS, FiniteSetTheorems

-----------------------------------------------------------------------------
(* The invariant.                                                           *)

\* The types of what the choices depend on.
Typed ==
    /\ slots \subseteq Fact /\ begun \in 0..MaxTurns
    /\ kind \in [Turn -> {"stream", "sync", "quick"}]
    /\ pc \in [Turn -> Working \cup {"new", "over"}]
    /\ branch \in [Turn -> {"none", "guarded", "short", "staggered", "tools",
                            "ungrounded", "full", "order", "refused"}]
    /\ mine \in [Turn -> SUBSET Fact]
    /\ told \in [Turn -> {"nothing", "done", "error", "cut"}]
    /\ overlapped \in BOOLEAN /\ misread \in BOOLEAN
    /\ unsaved \subseteq Turn /\ before \subseteq Turn

\* Requests begin in their order, and only one that is over was told anything.
Begun ==
    \A t \in Turn : /\ pc[t] # "new" => t <= begun
                    /\ told[t] = "done" => pc[t] = "over"

\* While no request outlives the lock, one is at work.
Alone ==
    ~overlapped => \A t, u \in Turn : pc[t] \in Working /\ pc[u] \in Working => t = u

\* The places between the read of the slots and their write.
Holding == {"routing", "loop", "answering", "early", "saving"}

\* What is stored is in the slots of the request that will overwrite it.
NothingDropped ==
    Apart => \A t \in Turn : pc[t] \in Holding => slots \subseteq mine[t]

\* Which requests and branches are where.
BranchAt(t) ==
    /\ pc[t] = "ordering" => kind[t] = "quick"
    /\ pc[t] = "early" => branch[t] = "staggered"
    /\ pc[t] = "noting" => branch[t] = "order"
    /\ pc[t] \in {"reading", "merging"} /\ kind[t] = "quick" => branch[t] = "order"

\* Past the route a request has what it promises, as far as it knows it.
Ready(t) ==
    /\ pc[t] \in {"loop", "answering", "early"} => {Clicked(t), Said(t)} \subseteq mine[t]
    /\ pc[t] = "saving" => Promised(t) \subseteq mine[t]

\* Past the save it is stored, if the write was answered and no deletion came.
Past(t) == \/ pc[t] = "telling"
           \/ pc[t] \in {"reading", "merging"} /\ kind[t] # "quick"
Stored(t) ==
    Past(t) /\ t \notin unsaved \cup before => Promised(t) \subseteq slots

\* The flow of control of the requests.
Flow == Begun /\ Alone /\ \A t \in Turn : BranchAt(t)

\* What becomes of the choices on their way.
Kept ==
    /\ NothingDropped /\ \A t \in Turn : Ready(t)
    /\ Apart => \A t \in Turn : Stored(t)
    /\ ChoicesKept

-----------------------------------------------------------------------------
(* Steps.                                                                   *)

\* Requests are numbered, and `begun` is the number of the last one.
LEMMA TurnsAreNumbers ==
  /\ \A t \in Turn : t \in Nat /\ t \in 0..MaxTurns
  /\ 0 \in 0..MaxTurns
  /\ \A n \in 0..MaxTurns : n \in Nat /\ 1..n \subseteq Turn
                            /\ (\A t \in Turn : t <= n => t \in 1..n)
<1>1. MaxTurns \in Nat
  BY TurnsAssumption
<1>2. QED
  BY ONLY <1>1 DEF Turn

\* What a request can add to the slots is a fact of it.
LEMMA FactsOfTurns ==
  \A t \in Turn : /\ {Clicked(t), Said(t), Found(t)} \subseteq Fact
                  /\ \A b : Known(t, b) \subseteq Fact
  BY DEF Fact, Clicked, Said, Found, Known

\* Every step keeps the types.
LEMMA TypedHolds == Spec => []Typed
<1> USE TurnsAreNumbers, FactsOfTurns DEF Typed, Working
<1>1. Init => Typed
  BY 0 \in 0..MaxTurns DEF Init
<1>2. Typed /\ [Next]_vars => Typed'
  <2> SUFFICES ASSUME Typed, [Next]_vars PROVE Typed'
    OBVIOUS
  <2>1. ASSUME NEW t \in Turn, Begin(t) PROVE Typed'
    <3>1. begun' = t /\ t \in 0..MaxTurns
      BY <2>1 DEF Begin
    <3>2. PICK k \in {"stream", "sync", "quick"} :
              /\ kind' = [kind EXCEPT ![t] = k]
              /\ pc' = [pc EXCEPT ![t] = IF k = "quick" THEN "ordering" ELSE "loading"]
      BY <2>1 DEF Begin, Goto
    <3>3. overlapped' \in BOOLEAN
      BY <2>1 DEF Begin
    <3>4. QED
      BY <2>1, <3>1, <3>2, <3>3 DEF Begin, store
  <2>2. ASSUME NEW t \in Turn, Load(t) PROVE Typed'
    BY <2>2 DEF Load, NoFault, Fault, budget, Goto, store, ghosts, local
  <2>3. ASSUME NEW t \in Turn, Route(t) PROVE Typed'
    <3>1. PICK b \in {"guarded", "short", "staggered", "tools"} :
              /\ branch' = [branch EXCEPT ![t] = b]
              /\ pc' = [pc EXCEPT ![t] = IF b = "tools" THEN "loop" ELSE Ends(b)]
              /\ mine' = [mine EXCEPT ![t] = @ \cup Known(t, b)]
      BY <2>3 DEF Route, Goto
    <3>2. mine[t] \cup Known(t, b) \subseteq Fact
      OBVIOUS
    <3>3. QED
      BY <2>3, <3>1, <3>2 DEF Route, Ends, store, ghosts
  <2>4. ASSUME NEW t \in Turn, RunTools(t) PROVE Typed'
    BY <2>4 DEF RunTools, Goto, store, ghosts, local
  <2>5. ASSUME NEW t \in Turn, Answer(t) PROVE Typed'
    BY <2>5 DEF Answer, Found, Goto, store, ghosts, local
  <2>6. ASSUME NEW t \in Turn, Order(t) PROVE Typed'
    BY <2>6 DEF Order, Goto, store, ghosts, local
  <2>7. ASSUME NEW t \in Turn, SaveSlots(t) PROVE Typed'
    BY <2>7 DEF SaveSlots, AfterSave, Revives, local, Goto, store, ghosts
  <2>8. ASSUME NEW t \in Turn, ReadContext(t) PROVE Typed'
    BY <2>8 DEF ReadContext, GiveUp, Goto, store, ghosts, local
  <2>9. ASSUME NEW t \in Turn, WriteContext(t) PROVE Typed'
    BY <2>9 DEF WriteContext, GiveUp, local, Goto, store, ghosts
  <2>10. ASSUME NEW t \in Turn, NoteAttempt(t) PROVE Typed'
    BY <2>10 DEF NoteAttempt, GiveUp, Said, Goto, store, ghosts, local
  <2>11. ASSUME NEW t \in Turn, SendDone(t) PROVE Typed'
    BY <2>11 DEF SendDone, Finish, Goto, store, ghosts, local
  <2>12. ASSUME NEW t \in Turn, SendDoneEarly(t) PROVE Typed'
    BY <2>12 DEF SendDoneEarly, Finish, local, Goto, store, ghosts
  <2>13. ASSUME NEW t \in Turn, Raise(t) PROVE Typed'
    BY <2>13 DEF Raise, Finish, Goto, store, ghosts, local
  <2>14. ASSUME NEW t \in Turn, Cut(t) PROVE Typed'
    BY <2>14 DEF Cut, Finish, Goto, store, ghosts, local
  <2>15. ASSUME Delete PROVE Typed'
    <3>1. 1..begun \subseteq Turn
      OBVIOUS
    <3>2. QED
      BY <2>15, <3>1 DEF Delete, local
  <2>16. ASSUME ContextExpires PROVE Typed'
    BY <2>16 DEF ContextExpires, local
  <2>17. CASE UNCHANGED vars
    BY <2>17 DEF vars, store, local, ghosts
  <2>18. QED
    BY <2>1, <2>2, <2>3, <2>4, <2>5, <2>6, <2>7, <2>8, <2>9, <2>10, <2>11, <2>12, <2>13, <2>14, <2>15, <2>16, <2>17 DEF Next
<1>3. QED
  BY <1>1, <1>2, PTL DEF Spec

\* A step of a request that has begun moves that request alone, from a place
\* where it works, and tells its client something only at the end.
Works(t) ==
    /\ pc[t] \in Working /\ pc'[t] \in Working \cup {"over"}
    /\ begun' = begun /\ overlapped' = overlapped /\ before' = before /\ kind' = kind
    /\ told'[t] = told[t] \/ pc'[t] = "over"
    /\ \A u \in Turn \ {t} : /\ pc'[u] = pc[u] /\ told'[u] = told[u]
                             /\ branch'[u] = branch[u] /\ mine'[u] = mine[u]
                             /\ u \in unsaved' <=> u \in unsaved

Acts(t) ==
    \/ Load(t) \/ Route(t) \/ RunTools(t) \/ Answer(t) \/ Order(t)
    \/ SaveSlots(t) \/ ReadContext(t) \/ WriteContext(t) \/ NoteAttempt(t)
    \/ SendDone(t) \/ SendDoneEarly(t) \/ Raise(t) \/ Cut(t)

\* Every action of a request that has begun is one.
LEMMA ActsWorks ==
  ASSUME Typed, NEW t \in Turn, Acts(t)
  PROVE  Works(t)
<1> USE DEF Typed, Works, Working
<1>1. ASSUME Load(t) PROVE Works(t)
  BY <1>1 DEF Load, NoFault, Fault, budget, Goto, store, ghosts, local
<1>2. ASSUME Route(t) PROVE Works(t)
  BY <1>2 DEF Route, Ends, Said, Goto, store, ghosts, local
<1>3. ASSUME RunTools(t) PROVE Works(t)
  BY <1>3 DEF RunTools, Goto, store, ghosts, local
<1>4. ASSUME Answer(t) PROVE Works(t)
  BY <1>4 DEF Answer, Found, Goto, store, ghosts, local
<1>5. ASSUME Order(t) PROVE Works(t)
  BY <1>5 DEF Order, Goto, store, ghosts, local
<1>6. ASSUME SaveSlots(t) PROVE Works(t)
  BY <1>6 DEF SaveSlots, AfterSave, Revives, local, Goto, store, ghosts
<1>7. ASSUME ReadContext(t) PROVE Works(t)
  BY <1>7 DEF ReadContext, GiveUp, Goto, store, ghosts, local
<1>8. ASSUME WriteContext(t) PROVE Works(t)
  BY <1>8 DEF WriteContext, GiveUp, local, Goto, store, ghosts
<1>9. ASSUME NoteAttempt(t) PROVE Works(t)
  BY <1>9 DEF NoteAttempt, GiveUp, Said, Goto, store, ghosts, local
<1>10. ASSUME SendDone(t) PROVE Works(t)
  BY <1>10 DEF SendDone, Finish, Goto, store, ghosts, local
<1>11. ASSUME SendDoneEarly(t) PROVE Works(t)
  BY <1>11 DEF SendDoneEarly, Finish, local, Goto, store, ghosts
<1>12. ASSUME Raise(t) PROVE Works(t)
  BY <1>12 DEF Raise, Finish, Goto, store, ghosts, local
<1>13. ASSUME Cut(t) PROVE Works(t)
  BY <1>13 DEF Cut, Finish, Goto, store, ghosts, local
<1>14. QED
  BY <1>1, <1>2, <1>3, <1>4, <1>5, <1>6, <1>7, <1>8, <1>9, <1>10, <1>11, <1>12, <1>13 DEF Acts

-----------------------------------------------------------------------------
(* Control.                                                                 *)

\* Requests begin one after the other and, while none outlives the lock, work
\* one after the other, each in the places of its branch.
LEMMA FlowHolds == Spec => []Flow
<1> USE DEF Flow
<1>1. Init => Flow
  BY DEF Init, Begun, Alone, BranchAt, Working
<1>2. Typed /\ Flow /\ [Next]_vars => Flow'
  <2> SUFFICES ASSUME Typed, Flow, [Next]_vars PROVE Flow'
    OBVIOUS
  <2>1. ASSUME NEW t \in Turn, Begin(t) PROVE Flow'
    <3>1. PICK k \in {"stream", "sync", "quick"} :
              /\ kind' = [kind EXCEPT ![t] = k]
              /\ pc' = [pc EXCEPT ![t] = IF k = "quick" THEN "ordering" ELSE "loading"]
      BY <2>1 DEF Begin, Goto
    <3>2. /\ t = begun + 1 /\ begun' = t /\ told' = told /\ branch' = branch
          /\ overlapped \/ (\E u \in Turn : pc[u] \in Working) => overlapped'
      BY <2>1 DEF Begin
    <3>3. pc[t] = "new" /\ told[t] # "done"
      BY <3>2, TurnsAreNumbers DEF Begun, Typed
    <3>4. Begun'
      BY <3>1, <3>2, <3>3, TurnsAreNumbers DEF Begun, Typed
    <3>5. Alone'
      BY <3>1, <3>2 DEF Alone, Typed, Working
    <3>6. \A u \in Turn : BranchAt(u)'
      BY <3>1, <3>2 DEF BranchAt, Typed
    <3>7. QED
      BY <3>4, <3>5, <3>6
  <2>2. ASSUME NEW t \in Turn, Acts(t) PROVE Flow'
    <3>1. Works(t)
      BY <2>2, ActsWorks
    <3>2. Begun'
      BY <3>1 DEF Begun, Works, Working
    <3>3. Alone'
      BY <3>1 DEF Alone, Works, Working
    <3>4. \A u \in Turn \ {t} : BranchAt(u)'
      BY <3>1 DEF BranchAt, Works
    <3>5. BranchAt(t)'
      <4> USE DEF BranchAt, Typed
      <4>1. ASSUME Load(t) PROVE BranchAt(t)'
        BY <4>1 DEF Load, Goto
      <4>2. ASSUME Route(t) PROVE BranchAt(t)'
        BY <4>2 DEF Route, Ends, Goto
      <4>3. ASSUME RunTools(t) PROVE BranchAt(t)'
        BY <4>3 DEF RunTools, Goto
      <4>4. ASSUME Answer(t) PROVE BranchAt(t)'
        BY <4>4 DEF Answer, Goto
      <4>5. ASSUME Order(t) PROVE BranchAt(t)'
        BY <4>5 DEF Order, Goto
      <4>6. ASSUME SaveSlots(t) PROVE BranchAt(t)'
        BY <4>6 DEF SaveSlots, AfterSave, local, Goto
      <4>7. ASSUME ReadContext(t) PROVE BranchAt(t)'
        BY <4>7 DEF ReadContext, GiveUp, Goto
      <4>8. ASSUME WriteContext(t) PROVE BranchAt(t)'
        BY <4>8 DEF WriteContext, GiveUp, local, Goto
      <4>9. ASSUME NoteAttempt(t) PROVE BranchAt(t)'
        BY <4>9 DEF NoteAttempt, GiveUp, Goto
      <4>10. ASSUME SendDone(t) PROVE BranchAt(t)'
        BY <4>10 DEF SendDone, Finish, Goto
      <4>11. ASSUME SendDoneEarly(t) PROVE BranchAt(t)'
        BY <4>11 DEF SendDoneEarly, Finish, local, Goto
      <4>12. ASSUME Raise(t) PROVE BranchAt(t)'
        BY <4>12 DEF Raise, Finish, Goto
      <4>13. ASSUME Cut(t) PROVE BranchAt(t)'
        BY <4>13 DEF Cut, Finish, Goto
      <4>14. QED
        BY <2>2, <4>1, <4>2, <4>3, <4>4, <4>5, <4>6, <4>7, <4>8, <4>9, <4>10, <4>11, <4>12, <4>13 DEF Acts
    <3>6. QED
      BY <3>2, <3>3, <3>4, <3>5
  <2>3. CASE UNCHANGED <<begun, pc, kind, branch, told, overlapped>>
    BY <2>3 DEF Begun, Alone, BranchAt
  <2>4. Delete \/ ContextExpires \/ UNCHANGED vars
            => UNCHANGED <<begun, pc, kind, branch, told, overlapped>>
    BY DEF Delete, ContextExpires, vars, local, ghosts
  <2>5. QED
    BY <2>1, <2>2, <2>3, <2>4 DEF Next, Acts
<1>3. QED
  BY <1>1, <1>2, TypedHolds, PTL DEF Spec

-----------------------------------------------------------------------------
(* The choices.                                                             *)

\* A request grows the slots, unless it did not know what was stored: what it
\* writes holds what it found, and while it is alone nothing else was added.
LEMMA SlotsGrow ==
  ASSUME Typed, NothingDropped, NEW t \in Turn, Acts(t), Apart'
  PROVE  Apart /\ slots \subseteq slots'
<1> USE DEF Apart, Typed, store, ghosts
<1>1. ASSUME SaveSlots(t) PROVE Apart /\ slots \subseteq slots'
  <2>1. Apart /\ pc[t] = "saving" /\ (slots' = mine[t] \/ slots' = slots)
    BY <1>1 DEF SaveSlots
  <2>2. QED
    BY <2>1 DEF NothingDropped, Holding
<1>2. ASSUME ~SaveSlots(t) PROVE Apart /\ slots' = slots
  <2>1. ASSUME Load(t) PROVE Apart /\ slots' = slots
    BY <2>1 DEF Load
  <2>2. ASSUME Route(t) PROVE Apart /\ slots' = slots
    BY <2>2 DEF Route
  <2>3. ASSUME RunTools(t) PROVE Apart /\ slots' = slots
    BY <2>3 DEF RunTools
  <2>4. ASSUME Answer(t) PROVE Apart /\ slots' = slots
    BY <2>4 DEF Answer
  <2>5. ASSUME Order(t) PROVE Apart /\ slots' = slots
    BY <2>5 DEF Order
  <2>6. ASSUME ReadContext(t) PROVE Apart /\ slots' = slots
    BY <2>6 DEF ReadContext
  <2>7. ASSUME WriteContext(t) PROVE Apart /\ slots' = slots
    BY <2>7 DEF WriteContext
  <2>8. ASSUME NoteAttempt(t) PROVE Apart /\ slots' = slots
    BY <2>8 DEF NoteAttempt
  <2>9. ASSUME SendDone(t) PROVE Apart /\ slots' = slots
    BY <2>9 DEF SendDone
  <2>10. ASSUME SendDoneEarly(t) PROVE Apart /\ slots' = slots
    BY <2>10 DEF SendDoneEarly
  <2>11. ASSUME Raise(t) PROVE Apart /\ slots' = slots
    BY <2>11 DEF Raise
  <2>12. ASSUME Cut(t) PROVE Apart /\ slots' = slots
    BY <2>12 DEF Cut
  <2>13. QED
    BY <1>2, <2>1, <2>2, <2>3, <2>4, <2>5, <2>6, <2>7, <2>8, <2>9, <2>10, <2>11, <2>12 DEF Acts
<1>3. QED
  BY <1>1, <1>2

\* A request that overwrites the slots knows them: its own read and notes hold
\* what is stored, and no other request stores while it works.
LEMMA NothingDroppedStep ==
  ASSUME Typed, Flow, NothingDropped, NEW t \in Turn, Acts(t)
  PROVE  NothingDropped'
<1> SUFFICES ASSUME Apart', NEW u \in Turn, pc'[u] \in Holding
             PROVE  slots' \subseteq mine'[u]
  BY DEF NothingDropped
<1>1. Works(t) /\ Apart
  BY ActsWorks, SlotsGrow
<1>2. CASE u # t
  <2>1. pc'[u] = pc[u] /\ mine'[u] = mine[u] /\ slots \subseteq mine[u]
    BY <1>1, <1>2 DEF Works, NothingDropped
  <2>2. ~SaveSlots(t)
    <3>1. pc[u] \in Working /\ pc[t] \in Working
      BY <1>1, <2>1 DEF Works, Holding, Working
    <3>2. FALSE
      BY <1>1, <1>2, <3>1 DEF Apart, Flow, Alone
    <3>3. QED
      BY <3>2
  <2>3. slots' = slots
    <3>1. ASSUME Load(t) PROVE slots' = slots
      BY <3>1 DEF Load, store
    <3>2. ASSUME Route(t) PROVE slots' = slots
      BY <3>2 DEF Route, store
    <3>3. ASSUME RunTools(t) PROVE slots' = slots
      BY <3>3 DEF RunTools, store
    <3>4. ASSUME Answer(t) PROVE slots' = slots
      BY <3>4 DEF Answer, store
    <3>5. ASSUME Order(t) PROVE slots' = slots
      BY <3>5 DEF Order, store
    <3>6. ASSUME ReadContext(t) PROVE slots' = slots
      BY <3>6 DEF ReadContext, store
    <3>7. ASSUME WriteContext(t) PROVE slots' = slots
      BY <3>7 DEF WriteContext, store
    <3>8. ASSUME NoteAttempt(t) PROVE slots' = slots
      BY <3>8 DEF NoteAttempt, store
    <3>9. ASSUME SendDone(t) PROVE slots' = slots
      BY <3>9 DEF SendDone, store
    <3>10. ASSUME SendDoneEarly(t) PROVE slots' = slots
      BY <3>10 DEF SendDoneEarly, store
    <3>11. ASSUME Raise(t) PROVE slots' = slots
      BY <3>11 DEF Raise, store
    <3>12. ASSUME Cut(t) PROVE slots' = slots
      BY <3>12 DEF Cut, store
    <3>13. QED
      BY <2>2, <3>1, <3>2, <3>3, <3>4, <3>5, <3>6, <3>7, <3>8, <3>9, <3>10, <3>11, <3>12 DEF Acts
  <2>4. QED
    BY <2>1, <2>3
<1>3. CASE u = t
  <2> USE DEF Typed, Holding
  <2> DEFINE Goal == slots' \subseteq mine'[t]
  <2>0. pc'[t] \in Holding
    BY <1>3
  <2>a. pc[t] \in Holding => slots \subseteq mine[t]
    BY <1>1 DEF NothingDropped
  <2>1. ASSUME Load(t) PROVE Goal
    BY <2>1, <1>3, Apart' DEF Load, Apart, Goto, store, ghosts
  <2>2. ASSUME Route(t) PROVE Goal
    BY <2>0, <2>a, <2>2 DEF Route, Ends, Goto, store, ghosts
  <2>3. ASSUME RunTools(t) PROVE Goal
    BY <2>0, <2>a, <2>3 DEF RunTools, Goto, store, ghosts
  <2>4. ASSUME Answer(t) PROVE Goal
    BY <2>0, <2>a, <2>4 DEF Answer, Goto, store, ghosts
  <2>5. ASSUME Order(t) PROVE Goal
    BY <2>0, <2>a, <2>5 DEF Order, Goto, store, ghosts
  <2>6. ASSUME SaveSlots(t) PROVE Goal
    BY <2>0, <2>a, <2>6 DEF SaveSlots, AfterSave, local, Goto, store, ghosts
  <2>7. ASSUME ReadContext(t) PROVE Goal
    BY <2>0, <2>a, <2>7 DEF ReadContext, GiveUp, Goto, store, ghosts
  <2>8. ASSUME WriteContext(t) PROVE Goal
    BY <2>0, <2>a, <2>8 DEF WriteContext, GiveUp, local, Goto, store, ghosts
  <2>9. ASSUME NoteAttempt(t) PROVE Goal
    BY <2>0, <2>a, <2>9 DEF NoteAttempt, GiveUp, Goto, store, ghosts
  <2>10. ASSUME SendDone(t) PROVE Goal
    BY <2>0, <2>a, <2>10 DEF SendDone, Finish, Goto, store, ghosts
  <2>11. ASSUME SendDoneEarly(t) PROVE Goal
    BY <2>0, <2>a, <2>11 DEF SendDoneEarly, Finish, local, Goto, store, ghosts
  <2>12. ASSUME Raise(t) PROVE Goal
    BY <2>0, <2>a, <2>12 DEF Raise, Finish, Goto, store, ghosts
  <2>13. ASSUME Cut(t) PROVE Goal
    BY <2>0, <2>a, <2>13 DEF Cut, Finish, Goto, store, ghosts
  <2>14. QED
    BY <1>3, <2>1, <2>2, <2>3, <2>4, <2>5, <2>6, <2>7, <2>8, <2>9, <2>10, <2>11, <2>12, <2>13 DEF Acts
<1>4. QED
  BY <1>2, <1>3

\* What a request promises is with it until it is stored.
LEMMA ReadyStep ==
  ASSUME Typed, Flow, \A u \in Turn : Ready(u), NEW t \in Turn, Acts(t)
  PROVE  \A u \in Turn : Ready(u)'
<1>1. \A u \in Turn \ {t} : Ready(u)'
  BY ActsWorks DEF Works, Ready, Promised
<1>2. Ready(t)'
  <2> USE DEF Typed, Ready, Flow, BranchAt, Promised, Known
  <2>1. ASSUME Load(t) PROVE Ready(t)'
    BY <2>1 DEF Load, Goto, store, ghosts
  <2>2. ASSUME Route(t) PROVE Ready(t)'
    BY <2>2 DEF Route, Ends, Goto, store, ghosts
  <2>3. ASSUME RunTools(t) PROVE Ready(t)'
    BY <2>3 DEF RunTools, Goto, store, ghosts
  <2>4. ASSUME Answer(t) PROVE Ready(t)'
    BY <2>4 DEF Answer, Goto, store, ghosts
  <2>5. ASSUME Order(t) PROVE Ready(t)'
    BY <2>5 DEF Order, Goto, store, ghosts
  <2>6. ASSUME SaveSlots(t) PROVE Ready(t)'
    BY <2>6 DEF SaveSlots, AfterSave, local, Goto, store, ghosts
  <2>7. ASSUME ReadContext(t) PROVE Ready(t)'
    BY <2>7 DEF ReadContext, GiveUp, Goto, store, ghosts
  <2>8. ASSUME WriteContext(t) PROVE Ready(t)'
    BY <2>8 DEF WriteContext, GiveUp, local, Goto, store, ghosts
  <2>9. ASSUME NoteAttempt(t) PROVE Ready(t)'
    BY <2>9 DEF NoteAttempt, GiveUp, Goto, store, ghosts
  <2>10. ASSUME SendDone(t) PROVE Ready(t)'
    BY <2>10 DEF SendDone, Finish, Goto, store, ghosts
  <2>11. ASSUME SendDoneEarly(t) PROVE Ready(t)'
    BY <2>11 DEF SendDoneEarly, Finish, local, Goto, store, ghosts
  <2>12. ASSUME Raise(t) PROVE Ready(t)'
    BY <2>12 DEF Raise, Finish, Goto, store, ghosts
  <2>13. ASSUME Cut(t) PROVE Ready(t)'
    BY <2>13 DEF Cut, Finish, Goto, store, ghosts
  <2>14. QED
    BY <2>1, <2>2, <2>3, <2>4, <2>5, <2>6, <2>7, <2>8, <2>9, <2>10, <2>11, <2>12, <2>13 DEF Acts
<1>3. QED
  BY <1>1, <1>2

\* Past the save it is stored.
LEMMA StoredStep ==
  ASSUME Typed, Flow, NothingDropped, \A u \in Turn : Ready(u), NEW t \in Turn, Acts(t),
         Apart => \A u \in Turn : Stored(u), Apart'
  PROVE  \A u \in Turn : Stored(u)'
<1>1. Works(t) /\ Apart /\ slots \subseteq slots'
  BY ActsWorks, SlotsGrow
<1>2. \A u \in Turn \ {t} : Stored(u)'
  BY <1>1 DEF Works, Stored, Past, Promised
<1>3. Stored(t)'
  <2>0. Stored(t) /\ before' = before
    BY <1>1 DEF Works
  <2> USE DEF Typed, Stored, Past, Flow, BranchAt, Promised, Known
  <2>1. ASSUME Load(t) PROVE Stored(t)'
    BY <1>1, <2>0, <2>1 DEF Load, Goto, store, ghosts
  <2>2. ASSUME Route(t) PROVE Stored(t)'
    BY <1>1, <2>0, <2>2 DEF Route, Ends, Goto, store, ghosts
  <2>3. ASSUME RunTools(t) PROVE Stored(t)'
    BY <1>1, <2>0, <2>3 DEF RunTools, Goto, store, ghosts
  <2>4. ASSUME Answer(t) PROVE Stored(t)'
    BY <1>1, <2>0, <2>4 DEF Answer, Goto, store, ghosts
  <2>5. ASSUME Order(t) PROVE Stored(t)'
    BY <1>1, <2>0, <2>5 DEF Order, Goto, store, ghosts
  <2>6. ASSUME SaveSlots(t) PROVE Stored(t)'
    <3>1. pc[t] = "saving" /\ Promised(t) \subseteq mine[t] /\ UNCHANGED <<mine, branch>>
      BY <2>6 DEF SaveSlots, local, Ready
    <3>2. slots' = mine[t] \/ t \in unsaved'
      BY <2>6 DEF SaveSlots
    <3>3. Promised(t)' = Promised(t)
      BY ONLY <3>1 DEF Promised, Known, Clicked, Said, Found
    <3>4. QED
      BY ONLY <3>1, <3>2, <3>3 DEF Stored
  <2>7. ASSUME ReadContext(t) PROVE Stored(t)'
    BY <1>1, <2>0, <2>7 DEF ReadContext, GiveUp, Goto, store, ghosts
  <2>8. ASSUME WriteContext(t) PROVE Stored(t)'
    BY <1>1, <2>0, <2>8 DEF WriteContext, GiveUp, local, Goto, store, ghosts
  <2>9. ASSUME NoteAttempt(t) PROVE Stored(t)'
    BY <1>1, <2>0, <2>9 DEF NoteAttempt, GiveUp, Goto, store, ghosts
  <2>10. ASSUME SendDone(t) PROVE Stored(t)'
    BY <1>1, <2>0, <2>10 DEF SendDone, Finish, Goto, store, ghosts
  <2>11. ASSUME SendDoneEarly(t) PROVE Stored(t)'
    BY <1>1, <2>0, <2>11 DEF SendDoneEarly, Finish, local, Goto, store, ghosts
  <2>12. ASSUME Raise(t) PROVE Stored(t)'
    BY <1>1, <2>0, <2>12 DEF Raise, Finish, Goto, store, ghosts
  <2>13. ASSUME Cut(t) PROVE Stored(t)'
    BY <1>1, <2>0, <2>13 DEF Cut, Finish, Goto, store, ghosts
  <2>14. QED
    BY <2>1, <2>2, <2>3, <2>4, <2>5, <2>6, <2>7, <2>8, <2>9, <2>10, <2>11, <2>12, <2>13 DEF Acts
<1>4. QED
  BY <1>2, <1>3

\* Who is told done has stored what it promised, and nobody takes it away.
LEMMA ChoicesStep ==
  ASSUME Typed, Flow, NothingDropped, ChoicesKept, NEW t \in Turn, Acts(t),
         Apart => \A u \in Turn : Stored(u)
  PROVE  ChoicesKept'
<1> SUFFICES ASSUME Apart', NEW u \in Turn, Told(u)',
                    ~(branch'[u] = "staggered" /\ kind'[u] = "stream")
             PROVE  Promised(u)' \subseteq slots'
  BY DEF ChoicesKept
<1>1. Works(t) /\ Apart /\ slots \subseteq slots'
  BY ActsWorks, SlotsGrow
<1>2. CASE u # t
  BY <1>1, <1>2 DEF Works, ChoicesKept, Told, Promised
<1>3. CASE u = t
  <2>1. pc[t] \in Working /\ told'[t] = "done" /\ told[t] # "done"
    BY <1>1, <1>3 DEF Works, Told, Flow, Begun, Working
  <2>2. SendDone(t) \/ SendDoneEarly(t)
    BY <2>1 DEF Typed, Acts, Load, Route, RunTools, Answer, Order, SaveSlots, ReadContext,
                WriteContext, NoteAttempt, Raise, Cut, Finish, local
  <2>3. CASE SendDone(t)
    BY <1>1, <1>3, <2>3 DEF SendDone, Finish, Stored, Past, Told, Promised, ghosts, store, Works
  <2>4. CASE SendDoneEarly(t)
    BY <1>3, <2>1, <2>4 DEF SendDoneEarly, Finish, Goto, Flow, BranchAt, Typed
  <2>5. QED
    BY <2>2, <2>3, <2>4
<1>4. QED
  BY <1>2, <1>3

\* Every step keeps what was chosen.
LEMMA KeptHolds == Spec => []Kept
<1> USE DEF Kept
<1>1. Init => Kept
  BY DEF Init, NothingDropped, Holding, Ready, Stored, Past, ChoicesKept, Told, Apart
<1>2. Typed /\ Flow /\ Kept /\ [Next]_vars => Kept'
  <2> SUFFICES ASSUME Typed, Flow, Kept, [Next]_vars PROVE Kept'
    OBVIOUS
  <2>1. ASSUME NEW t \in Turn, Begin(t) PROVE Kept'
    <3>1. PICK k \in {"stream", "sync", "quick"} :
              /\ kind' = [kind EXCEPT ![t] = k]
              /\ pc' = [pc EXCEPT ![t] = IF k = "quick" THEN "ordering" ELSE "loading"]
      BY <2>1 DEF Begin, Goto
    <3>2. /\ t = begun + 1 /\ UNCHANGED <<slots, mine, branch, told, misread, unsaved, before>>
          /\ Apart' => Apart
      BY <2>1 DEF Begin, Apart, store
    <3>3. told[t] # "done"
      BY <3>2, TurnsAreNumbers DEF Flow, Begun, Typed
    <3>4. pc'[t] \in {"ordering", "loading"} /\ \A u \in Turn \ {t} : pc'[u] = pc[u] /\ kind'[u] = kind[u]
      BY <3>1 DEF Typed
    <3>5. NothingDropped'
      BY <3>2, <3>4 DEF NothingDropped, Holding
    <3>6. \A u \in Turn : Ready(u)'
      BY <3>2, <3>4 DEF Ready, Promised
    <3>7. Apart' => \A u \in Turn : Stored(u)'
      BY <3>2, <3>4 DEF Stored, Past, Promised
    <3>8. ChoicesKept'
      BY <3>2, <3>3, <3>4 DEF ChoicesKept, Told, Promised
    <3>9. QED
      BY <3>5, <3>6, <3>7, <3>8
  <2>2. ASSUME NEW t \in Turn, Acts(t) PROVE Kept'
    BY <2>2, NothingDroppedStep, ReadyStep, StoredStep, ChoicesStep
  <2>3. ASSUME Delete PROVE Kept'
    <3>1. /\ slots' = {} /\ before' = 1..begun
          /\ UNCHANGED <<pc, kind, branch, mine, told, overlapped, misread, unsaved>>
      BY <2>3 DEF Delete, local
    <3>2. \A u \in Turn : pc[u] # "new" => u \in before'
      BY <3>1, TurnsAreNumbers DEF Flow, Begun, Typed
    <3>3. NothingDropped'
      BY <3>1 DEF NothingDropped
    <3>4. \A u \in Turn : Ready(u)'
      BY <3>1 DEF Ready, Promised
    <3>5. \A u \in Turn : Stored(u)'
      BY <3>1, <3>2 DEF Stored, Past
    <3>6. ChoicesKept'
      BY <3>1, <3>2 DEF ChoicesKept, Told, Flow, Begun
    <3>7. QED
      BY <3>3, <3>4, <3>5, <3>6
  <2>4. CASE UNCHANGED <<slots, pc, kind, branch, mine, told, overlapped, misread, unsaved, before>>
    BY <2>4 DEF NothingDropped, Apart, Ready, Stored, Past, Promised, ChoicesKept, Told
  <2>5. ContextExpires \/ UNCHANGED vars
            => UNCHANGED <<slots, pc, kind, branch, mine, told, overlapped, misread, unsaved, before>>
    BY DEF ContextExpires, vars, store, local, ghosts
  <2>6. QED
    BY <2>1, <2>2, <2>3, <2>4, <2>5 DEF Next, Acts
<1>3. QED
  BY <1>1, <1>2, TypedHolds, FlowHolds, PTL DEF Spec

-----------------------------------------------------------------------------
\* What a turn that was told done made of the choices is there for every later
\* turn, for any number of requests, calls, faults and deletions, unless a
\* write or a read of the slots failed, two requests overlapped, or its branch
\* tells the reader of a stream before it saves.
THEOREM ChoicesStay == Spec => []ChoicesKept
<1>1. Kept => ChoicesKept
  BY DEF Kept
<1>2. QED
  BY <1>1, KeptHolds, PTL

-----------------------------------------------------------------------------
(* The n-th of a set of places.                                             *)

\* Induction, for a set of numbers.
LEMMA InductionOnNat ==
  ASSUME NEW S \in SUBSET Nat, 0 \in S, \A n \in S : n + 1 \in S
  PROVE  S = Nat
<1> DEFINE R == OpToRel(<, Nat)
           T == Nat \ S
<1>1. \A a, b \in Nat : a < b => <<a, b>> \in R
  BY DEF OpToRel
<1>2. SUFFICES ASSUME T # {} PROVE FALSE
  OBVIOUS
<1> HIDE DEF R
<1>3. PICK x \in T : \A y \in T : ~ (<<y, x>> \in R)
  <2>1. T \subseteq Nat
    OBVIOUS
  <2> HIDE DEF T
  <2>2. QED
    BY <1>2, <2>1, NatLessThanWellFounded, WFMin DEF R
<1>4. x \in Nat /\ x # 0 /\ x - 1 \in Nat
  OBVIOUS
<1>5. x - 1 \notin T
  <2>1. <<x - 1, x>> \in R
    BY <1>1, <1>4
  <2>2. QED
    BY <1>3, <2>1
<1>6. x - 1 \in S /\ (x - 1) + 1 = x
  BY <1>4, <1>5
<1>7. QED
  BY <1>3, <1>6

UpTo(places, i) == {j \in places : j <= i}
Rank(places, i) == Cardinality(UpTo(places, i))

LEMMA RankFacts ==
  ASSUME NEW m \in Nat, NEW places \in SUBSET (1..m)
  PROVE  /\ IsFiniteSet(places) /\ Cardinality(places) \in Nat
         /\ \A i \in Nat : Rank(places, i) \in Nat /\ Rank(places, i) <= Cardinality(places)
         /\ \A p, q \in places : p < q => Rank(places, p) < Rank(places, q)
         /\ \A p \in places : Rank(places, p) \in 1..Cardinality(places)
         /\ Rank(places, 0) = 0 /\ Rank(places, m) = Cardinality(places)
<1>0. \A p \in places : p \in Nat /\ p \in 1..m /\ 1 <= p /\ p <= m
  OBVIOUS
<1>1. IsFiniteSet(places)
  <2>1. IsFiniteSet(1..m)
    BY FS_Interval
  <2>2. QED
    BY <2>1, FS_Subset
<1>2. Cardinality(places) \in Nat
  BY <1>1, FS_CardinalityType
<1>3. ASSUME NEW i \in Nat
      PROVE  /\ IsFiniteSet(UpTo(places, i)) /\ Rank(places, i) \in Nat
             /\ Rank(places, i) <= Cardinality(places)
  <2>1. UpTo(places, i) \in SUBSET places
    BY DEF UpTo
  <2>2. IsFiniteSet(UpTo(places, i)) /\ Cardinality(UpTo(places, i)) <= Cardinality(places)
    BY <1>1, <2>1, FS_Subset
  <2>3. QED
    BY <2>2, FS_CardinalityType DEF Rank
<1>4. ASSUME NEW p \in places, NEW q \in places, p < q
      PROVE  Rank(places, p) < Rank(places, q)
  <2>1. p \in Nat /\ q \in Nat
    BY <1>0
  <2>2. UpTo(places, p) \in SUBSET UpTo(places, q)
    <3>1. \A j \in places : j <= p => j <= q
      BY <1>0, <1>4, <2>1
    <3>2. QED
      BY <3>1 DEF UpTo
  <2>3. q \in UpTo(places, q) /\ q \notin UpTo(places, p)
    BY <1>4, <2>1 DEF UpTo
  <2>4. /\ Rank(places, p) <= Rank(places, q)
        /\ Rank(places, p) = Rank(places, q) => UpTo(places, q) = UpTo(places, p)
    BY <1>3, <2>1, <2>2, FS_Subset DEF Rank
  <2>5. Rank(places, p) \in Nat /\ Rank(places, q) \in Nat
    BY <1>3, <2>1
  <2>6. QED
    BY <2>3, <2>4, <2>5
<1>5. ASSUME NEW p \in places PROVE Rank(places, p) \in 1..Cardinality(places)
  <2>1. p \in Nat /\ p \in UpTo(places, p)
    BY DEF UpTo
  <2>2. Rank(places, p) # 0
    BY <1>3, <2>1, FS_EmptySet DEF Rank
  <2>3. QED
    BY <1>2, <1>3, <2>1, <2>2
<1>6. UpTo(places, 0) = {} /\ UpTo(places, m) = places
  <2>1. \A j \in places : j <= m /\ ~ (j <= 0)
    BY <1>0
  <2>2. QED
    BY <2>1 DEF UpTo
<1>7. QED
  BY <1>1, <1>2, <1>3, <1>4, <1>5, <1>6, FS_EmptySet DEF Rank

\* The n-th place exists, and every place is the n-th for its rank.
LEMMA NthFacts ==
  ASSUME NEW m \in Nat, NEW places \in SUBSET (1..m)
  PROVE  /\ \A n \in 1..Cardinality(places) :
               Nth(places, n) \in places /\ Rank(places, Nth(places, n)) = n
         /\ \A p \in places : Nth(places, Rank(places, p)) = p
<1>0. \A p \in places : p \in Nat
  OBVIOUS
<1> DEFINE S == {i \in Nat : \A n \in 1..Rank(places, i) : \E p \in places : Rank(places, p) = n}
<1>1. 0 \in S
  BY RankFacts
<1>2. ASSUME NEW i \in S PROVE i + 1 \in S
  <2> SUFFICES ASSUME NEW n \in 1..Rank(places, i + 1)
               PROVE  \E p \in places : Rank(places, p) = n
    OBVIOUS
  <2>0. Rank(places, i) \in Nat /\ Rank(places, i + 1) \in Nat
    BY RankFacts
  <2>1. CASE i + 1 \in places
    <3>1. UpTo(places, i + 1) = UpTo(places, i) \cup {i + 1} /\ i + 1 \notin UpTo(places, i)
      <4>1. /\ \A j \in places : j <= i + 1 <=> (j <= i \/ j = i + 1)
            /\ ~ (i + 1 <= i)
        BY <1>0
      <4>2. QED
        BY <2>1, <4>1 DEF UpTo
    <3>2. IsFiniteSet(UpTo(places, i))
      <4>1. UpTo(places, i) \in SUBSET places /\ IsFiniteSet(places)
        BY RankFacts DEF UpTo
      <4>2. QED
        BY <4>1, FS_Subset
    <3>3. Rank(places, i + 1) = Rank(places, i) + 1
      BY <3>1, <3>2, FS_AddElement DEF Rank
    <3>4. CASE n = Rank(places, i + 1)
      BY <2>1, <3>4
    <3>5. CASE n # Rank(places, i + 1)
      <4>1. n \in 1..Rank(places, i)
        BY <2>0, <3>3, <3>5
      <4>2. QED
        BY <4>1
    <3>6. QED
      BY <3>4, <3>5
  <2>2. CASE i + 1 \notin places
    <3>1. UpTo(places, i + 1) = UpTo(places, i)
      <4>1. \A j \in places : j <= i + 1 <=> j <= i
        BY <1>0, <2>2
      <4>2. QED
        BY <4>1 DEF UpTo
    <3>2. n \in 1..Rank(places, i)
      BY <3>1 DEF Rank
    <3>3. QED
      BY <3>2
  <2>3. QED
    BY <2>1, <2>2
<1>3. S = Nat
  <2>1. S \in SUBSET Nat
    OBVIOUS
  <2> HIDE DEF S
  <2>2. QED
    BY <1>1, <1>2, <2>1, InductionOnNat
<1>4. \A n \in 1..Cardinality(places) : \E p \in places : Rank(places, p) = n
  <2>1. m \in S
    BY <1>3
  <2>2. QED
    BY <2>1, RankFacts
<1>5. ASSUME NEW n \in 1..Cardinality(places)
      PROVE  Nth(places, n) \in places /\ Rank(places, Nth(places, n)) = n
  <2>1. \E p \in places : Cardinality({j \in places : j <= p}) = n
    BY <1>4 DEF Rank, UpTo
  <2>2. QED
    BY <2>1 DEF Nth, Rank, UpTo
<1>6. ASSUME NEW p \in places PROVE Nth(places, Rank(places, p)) = p
  <2> DEFINE q == Nth(places, Rank(places, p))
  <2>1. q \in places /\ Rank(places, q) = Rank(places, p)
    <3>1. Rank(places, p) \in 1..Cardinality(places)
      BY RankFacts
    <3>2. QED
      BY <1>5, <3>1
  <2> HIDE DEF q
  <2>2. p \in Nat /\ q \in Nat /\ Rank(places, p) \in Nat
    <3>1. p \in Nat /\ q \in Nat
      BY <1>0, <2>1
    <3>2. QED
      BY <3>1, RankFacts
  <2>3. ~ (p < q) /\ ~ (q < p)
    <3>1. \A a, b \in places : a < b => Rank(places, a) < Rank(places, b)
      BY RankFacts
    <3>2. QED
      BY <2>1, <2>2, <3>1
  <2>4. QED
    BY <2>2, <2>3 DEF q
<1>7. QED
  BY <1>5, <1>6

-----------------------------------------------------------------------------
(* What is merged.                                                          *)

\* Newest first, each call once.
Sorted(s) == \A i, j \in DOMAIN s : i < j => Newer(s[i], s[j])
Distinct(s) == \A i, j \in DOMAIN s : s[i].key = s[j].key => i = j

\* The item, or a newer of its call, is there, or as many newer as there is room for.
Covered(item, s) ==
    \/ \E kept \in Items(s) : kept.key = item.key /\ (kept = item \/ Newer(kept, item))
    \/ Len(s) = MaxContext /\ \A kept \in Items(s) : Newer(kept, item)

LEMMA FirstsFacts ==
  ASSUME NEW all \in Seq(Item)
  PROVE  /\ Len(all) \in Nat /\ DOMAIN all = 1..Len(all)
         /\ Firsts(all) \in SUBSET (1..Len(all))
         /\ \A i \in DOMAIN all : \E p \in Firsts(all) : p <= i /\ all[p].key = all[i].key
         /\ \A p, q \in Firsts(all) : all[p].key = all[q].key => p = q
<1>1. Len(all) \in Nat /\ DOMAIN all = 1..Len(all)
  OBVIOUS
<1>2. Firsts(all) \in SUBSET (1..Len(all))
  BY <1>1 DEF Firsts
<1>3. ASSUME NEW i \in DOMAIN all
      PROVE  \E p \in Firsts(all) : p <= i /\ all[p].key = all[i].key
  <2> DEFINE R == OpToRel(<, Nat)
             T == {j \in 1..i : all[j].key = all[i].key}
  <2>1. \A a, b \in Nat : a < b => <<a, b>> \in R
    BY DEF OpToRel
  <2>2. T \subseteq Nat /\ T # {}
    BY <1>1
  <2> HIDE DEF R, T
  <2>3. PICK p \in T : \A j \in T : ~ (<<j, p>> \in R)
    BY <2>2, NatLessThanWellFounded, WFMin DEF R
  <2>4. p \in 1..i /\ all[p].key = all[i].key
    BY DEF T
  <2>5. p \in DOMAIN all /\ p \in Nat /\ p <= i
    BY <1>1, <2>4
  <2>6. ASSUME NEW j \in 1..(p - 1) PROVE all[j].key # all[p].key
    <3>1. j \in 1..i /\ j \in Nat /\ j < p
      BY <1>1, <2>4
    <3>2. j \notin T
      BY <2>1, <2>3, <2>5, <3>1
    <3>3. QED
      BY <2>4, <3>1, <3>2 DEF T
  <2>7. QED
    BY <2>4, <2>5, <2>6 DEF Firsts
<1>4. ASSUME NEW p \in Firsts(all), NEW q \in Firsts(all), all[p].key = all[q].key
      PROVE  p = q
  <2>1. p \in Nat /\ q \in Nat /\ 1 <= p /\ 1 <= q
    BY <1>2
  <2>2. /\ \A j \in 1..(p - 1) : all[j].key # all[p].key
        /\ \A j \in 1..(q - 1) : all[j].key # all[q].key
    BY DEF Firsts
  <2>3. ~ (p < q)
    <3>1. p < q => p \in 1..(q - 1)
      BY <2>1
    <3>2. QED
      BY <1>4, <2>2, <3>1
  <2>4. ~ (q < p)
    <3>1. q < p => q \in 1..(p - 1)
      BY <2>1
    <3>2. QED
      BY <1>4, <2>2, <3>1
  <2>5. QED
    BY <2>1, <2>3, <2>4
<1>5. QED
  BY <1>1, <1>2, <1>3, <1>4

\* The deduplicated items are the first ones of their keys, in their order.
LEMMA DedupedFacts ==
  ASSUME NEW all \in Seq(Item)
  PROVE  LET c == Cardinality(Firsts(all))
             place(n) == Nth(Firsts(all), n)
         IN  /\ Deduped(all) \in Seq(Item)
             /\ Len(Deduped(all)) \in Nat /\ c \in Nat
             /\ Len(Deduped(all)) = IF c < MaxContext THEN c ELSE MaxContext
             /\ DOMAIN Deduped(all) = 1..Len(Deduped(all))
             /\ \A n \in DOMAIN Deduped(all) :
                   /\ place(n) \in Firsts(all) /\ Deduped(all)[n] = all[place(n)]
                   /\ Rank(Firsts(all), place(n)) = n
             /\ \A p \in Firsts(all) :
                   Rank(Firsts(all), p) \in DOMAIN Deduped(all) =>
                      Deduped(all)[Rank(Firsts(all), p)] = all[p]
<1> DEFINE F == Firsts(all)
           c == Cardinality(F)
           m == Min({c, MaxContext})
<1>0. /\ Len(all) \in Nat /\ DOMAIN all = 1..Len(all) /\ F \in SUBSET (1..Len(all))
      /\ \A i \in DOMAIN all : all[i] \in Item
  BY FirstsFacts
<1>1. c \in Nat
  BY <1>0, RankFacts
<1>2. MaxContext \in Nat
  BY TurnsAssumption
<1>3. m = IF c < MaxContext THEN c ELSE MaxContext
  <2> HIDE DEF c
  <2>1. \A x \in {c, MaxContext} : (\A y \in {c, MaxContext} : x <= y)
                                   => x = IF c < MaxContext THEN c ELSE MaxContext
    BY <1>1, <1>2
  <2>2. \E x \in {c, MaxContext} : \A y \in {c, MaxContext} : x <= y
    BY <1>1, <1>2
  <2>3. QED
    BY <2>1, <2>2 DEF Min
<1>4. m \in Nat /\ 1..m \subseteq 1..c
  <2> HIDE DEF c, m
  <2>1. QED
    BY <1>1, <1>2, <1>3
<1>5. \A n \in 1..c : Nth(F, n) \in F /\ Rank(F, Nth(F, n)) = n
  BY <1>0, NthFacts
<1>6. \A p \in F : Nth(F, Rank(F, p)) = p
  BY <1>0, NthFacts
<1>7. Deduped(all) = [n \in 1..m |-> all[Nth(F, n)]]
  BY DEF Deduped
<1> HIDE DEF F, c, m
<1>8. \A n \in 1..m : all[Nth(F, n)] \in Item
  BY <1>0, <1>4, <1>5
<1>9. Deduped(all) \in Seq(Item) /\ Len(Deduped(all)) = m /\ DOMAIN Deduped(all) = 1..m
  BY <1>4, <1>7, <1>8
<1>10. \A n \in 1..m : /\ Nth(F, n) \in F /\ Deduped(all)[n] = all[Nth(F, n)]
                       /\ Rank(F, Nth(F, n)) = n
  BY <1>4, <1>5, <1>7
<1>11. \A p \in F : Rank(F, p) \in 1..m => Deduped(all)[Rank(F, p)] = all[p]
  BY <1>6, <1>7
<1>12. QED
  BY <1>1, <1>3, <1>4, <1>9, <1>10, <1>11 DEF F, c, m

LEMMA DedupedItems ==
  ASSUME NEW all \in Seq(Item)
  PROVE  Deduped(all) \in Seq(Item) /\ Items(Deduped(all)) \subseteq Items(all)
<1>1. /\ Deduped(all) \in Seq(Item)
      /\ \A n \in DOMAIN Deduped(all) :
            /\ Nth(Firsts(all), n) \in Firsts(all)
            /\ Deduped(all)[n] = all[Nth(Firsts(all), n)]
  BY DedupedFacts
<1>2. Firsts(all) \subseteq DOMAIN all
  BY DEF Firsts
<1>3. QED
  BY <1>1, <1>2 DEF Items

\* No call is there twice, and the order is that of the input.
LEMMA DedupedOrder ==
  ASSUME NEW all \in Seq(Item), Sorted(all)
  PROVE  Sorted(Deduped(all)) /\ Distinct(Deduped(all))
<1> DEFINE D == Deduped(all)
           place(n) == Nth(Firsts(all), n)
<1>1. /\ Len(D) \in Nat /\ DOMAIN D = 1..Len(D)
      /\ \A n \in DOMAIN D : /\ place(n) \in Firsts(all) /\ D[n] = all[place(n)]
                             /\ Rank(Firsts(all), place(n)) = n
  BY DedupedFacts
<1>2. /\ Firsts(all) \subseteq DOMAIN all
      /\ \A p \in Firsts(all) : p \in Nat
      /\ \A p, q \in Firsts(all) : all[p].key = all[q].key => p = q
      /\ \A p, q \in Firsts(all) : p < q => Rank(Firsts(all), p) < Rank(Firsts(all), q)
  <2>1. Len(all) \in Nat /\ Firsts(all) \in SUBSET (1..Len(all)) /\ DOMAIN all = 1..Len(all)
    BY FirstsFacts
  <2>2. \A p, q \in Firsts(all) : p < q => Rank(Firsts(all), p) < Rank(Firsts(all), q)
    BY <2>1, RankFacts
  <2>3. QED
    BY <2>1, <2>2, FirstsFacts
<1> HIDE DEF D, place
<1>3. Sorted(D)
  <2> SUFFICES ASSUME NEW i \in DOMAIN D, NEW j \in DOMAIN D, i < j
               PROVE  Newer(D[i], D[j])
    BY DEF Sorted
  <2>1. i \in Nat /\ j \in Nat
    BY <1>1
  <2>2. place(i) # place(j) /\ ~ (place(j) < place(i))
    BY <1>1, <1>2, <2>1
  <2>3. place(i) < place(j)
    BY <1>1, <1>2, <2>2
  <2>4. QED
    BY <1>1, <1>2, <2>3 DEF Sorted
<1>4. Distinct(D)
  <2> SUFFICES ASSUME NEW i \in DOMAIN D, NEW j \in DOMAIN D, D[i].key = D[j].key
               PROVE  i = j
    BY DEF Distinct
  <2>1. place(i) = place(j)
    BY <1>1, <1>2
  <2>2. QED
    BY <1>1, <2>1
<1>5. QED
  BY <1>3, <1>4 DEF D

\* Of every call something as new is there, or only newer results are.
LEMMA DedupedCovers ==
  ASSUME NEW all \in Seq(Item), Sorted(all), NEW item \in Items(all)
  PROVE  Covered(item, Deduped(all))
<1> DEFINE D == Deduped(all)
           F == Firsts(all)
           c == Cardinality(F)
           place(n) == Nth(F, n)
<1>1. /\ Len(D) \in Nat /\ DOMAIN D = 1..Len(D) /\ c \in Nat
      /\ Len(D) = IF c < MaxContext THEN c ELSE MaxContext
      /\ \A n \in DOMAIN D : /\ place(n) \in F /\ D[n] = all[place(n)]
                             /\ Rank(F, place(n)) = n
      /\ \A p \in F : Rank(F, p) \in DOMAIN D => D[Rank(F, p)] = all[p]
  BY DedupedFacts
<1>2. /\ F \subseteq DOMAIN all
      /\ \A p \in F : p \in Nat
      /\ \A i \in DOMAIN all : i \in Nat /\ \E p \in F : p <= i /\ all[p].key = all[i].key
      /\ \A p, q \in F : p < q => Rank(F, p) < Rank(F, q)
      /\ \A p \in F : Rank(F, p) \in 1..c
  <2>1. Len(all) \in Nat /\ F \in SUBSET (1..Len(all)) /\ DOMAIN all = 1..Len(all)
    BY FirstsFacts
  <2>2. /\ \A p, q \in F : p < q => Rank(F, p) < Rank(F, q)
        /\ \A p \in F : Rank(F, p) \in 1..c
    BY <2>1, RankFacts
  <2>3. \A i \in DOMAIN all : \E p \in F : p <= i /\ all[p].key = all[i].key
    BY FirstsFacts
  <2> HIDE DEF F, c
  <2>4. QED
    BY <2>1, <2>2, <2>3
<1> HIDE DEF D, F, c, place
<1>3. PICK i \in DOMAIN all : item = all[i]
  BY DEF Items
<1>4. PICK p \in F : p <= i /\ all[p].key = item.key
  BY <1>2, <1>3
<1>5. p \in Nat /\ i \in Nat /\ p \in DOMAIN all
  BY <1>2
<1>6. CASE Rank(F, p) \in DOMAIN D
  <2>1. D[Rank(F, p)] = all[p]
    BY <1>1, <1>6
  <2>2. p = i \/ p < i
    BY <1>4, <1>5
  <2>3. all[p] = item \/ Newer(all[p], item)
    BY <1>3, <1>5, <2>2 DEF Sorted
  <2>4. all[p] \in Items(D)
    BY <1>6, <2>1 DEF Items
  <2>5. QED
    BY <1>4, <2>3, <2>4 DEF Covered, D
<1>7. CASE Rank(F, p) \notin DOMAIN D
  <2>1. Rank(F, p) \in 1..c
    BY <1>2
  <2>2. Len(D) = MaxContext /\ Len(D) < Rank(F, p)
    BY <1>1, <1>7, <2>1
  <2>3. ASSUME NEW n \in DOMAIN D PROVE Newer(D[n], item)
    <3>1. place(n) \in F /\ Rank(F, place(n)) = n /\ D[n] = all[place(n)] /\ n < Rank(F, p)
      BY <1>1, <2>1, <2>2
    <3>2. /\ place(n) \in Nat /\ place(n) \in DOMAIN all
          /\ n \in Nat /\ Rank(F, p) \in Nat
      <4>1. place(n) \in Nat /\ place(n) \in DOMAIN all
        BY <1>2, <3>1
      <4>2. n \in Nat /\ Rank(F, p) \in Nat
        BY <1>1, <2>1
      <4>3. QED
        BY <4>1, <4>2
    <3>3. place(n) # p /\ ~ (p < place(n))
      <4>1. p < place(n) => Rank(F, p) < Rank(F, place(n))
        BY <1>2, <3>1
      <4>2. QED
        BY <3>1, <3>2, <4>1
    <3>4. place(n) < i
      BY <1>4, <1>5, <3>2, <3>3
    <3>5. QED
      BY <1>3, <3>1, <3>2, <3>4 DEF Sorted
  <2>4. QED
    BY <2>2, <2>3 DEF Covered, Items, D
<1>8. QED
  BY <1>6, <1>7

\* What is merged is no shorter than what it ends in, up to MaxContext.
LEMMA DedupedRoom ==
  ASSUME NEW new \in Seq(Item), NEW old \in Seq(Item), Distinct(old),
         Len(old) = MaxContext
  PROVE  Len(Deduped(new \o old)) = MaxContext
<1> DEFINE all == new \o old
           F == Firsts(all)
           g == [j \in 1..Len(old) |->
                    CHOOSE p \in F : all[p].key = old[j].key]
<1>0. /\ all \in Seq(Item) /\ Len(new) \in Nat /\ Len(old) \in Nat
      /\ Len(all) = Len(new) + Len(old)
      /\ \A j \in 1..Len(old) : all[Len(new) + j] = old[j] /\ Len(new) + j \in DOMAIN all
  OBVIOUS
<1>1. /\ Len(all) \in Nat /\ F \in SUBSET (1..Len(all))
      /\ \A i \in DOMAIN all : \E p \in F : p <= i /\ all[p].key = all[i].key
  <2> HIDE DEF all
  <2>1. QED
    BY <1>0, FirstsFacts
<1> HIDE DEF all, F
<1>2. \A j \in 1..Len(old) : \E p \in F : all[p].key = old[j].key
  BY <1>0, <1>1
<1>3. \A j \in 1..Len(old) : g[j] \in F /\ all[g[j]].key = old[j].key
  BY <1>2
<1>4. g \in Injection(1..Len(old), F)
  <2>1. g \in [1..Len(old) -> F]
    BY <1>3
  <2>2. \A i, j \in 1..Len(old) : g[i] = g[j] => i = j
    BY <1>3 DEF Distinct
  <2> HIDE DEF g
  <2>3. QED
    BY <2>1, <2>2 DEF Injection, IsInjective
<1>5. IsFiniteSet(F) /\ Cardinality(F) \in Nat
  BY <1>1, RankFacts
<1>6. Cardinality(1..Len(old)) <= Cardinality(F)
  <2> HIDE DEF g
  <2>1. QED
    BY <1>4, <1>5, FS_Injection
<1>7. Cardinality(1..Len(old)) = Len(old)
  BY <1>0, FS_Interval
<1>8. Len(Deduped(all)) = IF Cardinality(F) < MaxContext THEN Cardinality(F) ELSE MaxContext
  BY <1>0, DedupedFacts DEF F
<1>9. QED
  BY <1>0, <1>5, <1>6, <1>7, <1>8 DEF all

LEMMA NewerTransitive ==
  ASSUME NEW a \in Item, NEW b \in Item, NEW c \in Item, Newer(a, b), Newer(b, c)
  PROVE  Newer(a, c)
<1>1. /\ a.turn \in Nat /\ b.turn \in Nat /\ c.turn \in Nat
      /\ a.at \in Nat /\ b.at \in Nat /\ c.at \in Nat
  BY TurnsAssumption DEF Item, Turn
<1>2. QED
  BY <1>1 DEF Newer

LEMMA Reversed ==
  ASSUME NEW new \in Seq(Item)
  PROVE  /\ Len(new) \in Nat /\ DOMAIN new = 1..Len(new)
         /\ Reverse(new) \in Seq(Item) /\ Len(Reverse(new)) = Len(new)
         /\ \A i \in 1..Len(new) : /\ Reverse(new)[i] = new[(Len(new) - i) + 1]
                                   /\ (Len(new) - i) + 1 \in 1..Len(new)
                                   /\ new[i] = Reverse(new)[(Len(new) - i) + 1]
<1>1. \A i \in 1..Len(new) : /\ (Len(new) - i) + 1 \in 1..Len(new)
                             /\ (Len(new) - ((Len(new) - i) + 1)) + 1 = i
  OBVIOUS
<1>2. \A i \in 1..Len(new) : new[(Len(new) - i) + 1] \in Item
  BY <1>1
<1>3. Reverse(new) = [i \in 1..Len(new) |-> new[(Len(new) - i) + 1]]
  BY DEF Reverse
<1>4. QED
  BY <1>1, <1>2, <1>3

LEMMA Joined ==
  ASSUME NEW a \in Seq(Item), NEW b \in Seq(Item)
  PROVE  /\ a \o b \in Seq(Item) /\ Len(a) \in Nat /\ Len(b) \in Nat
         /\ DOMAIN (a \o b) = 1..(Len(a) + Len(b))
         /\ \A i \in 1..Len(a) : i \in DOMAIN (a \o b) /\ (a \o b)[i] = a[i]
         /\ \A i \in 1..Len(b) : Len(a) + i \in DOMAIN (a \o b) /\ (a \o b)[Len(a) + i] = b[i]
         /\ \A i \in DOMAIN (a \o b) : i \notin 1..Len(a) =>
               /\ i > Len(a) /\ i - Len(a) \in 1..Len(b)
               /\ (a \o b)[i] = b[i - Len(a)]
<1>1. /\ a \o b \in Seq(Item) /\ Len(a) \in Nat /\ Len(b) \in Nat
      /\ DOMAIN (a \o b) = 1..(Len(a) + Len(b))
  OBVIOUS
<1>2. ASSUME NEW i \in 1..Len(a)
      PROVE  i \in DOMAIN (a \o b) /\ (a \o b)[i] = a[i]
  BY <1>1
<1>3. ASSUME NEW i \in 1..Len(b)
      PROVE  Len(a) + i \in DOMAIN (a \o b) /\ (a \o b)[Len(a) + i] = b[i]
  OBVIOUS
<1>4. ASSUME NEW i \in DOMAIN (a \o b), i \notin 1..Len(a)
      PROVE  /\ i > Len(a) /\ i - Len(a) \in 1..Len(b)
             /\ (a \o b)[i] = b[i - Len(a)]
  <2>1. i > Len(a) /\ i - Len(a) \in 1..Len(b) /\ Len(a) + (i - Len(a)) = i
    BY <1>1, <1>4
  <2>2. QED
    BY <1>3, <2>1
<1>5. QED
  BY <1>1, <1>2, <1>3, <1>4

LEMMA MergedType ==
  ASSUME NEW new \in Seq(Item), NEW old \in Seq(Item)
  PROVE  /\ Merged(new, old) \in Seq(Item)
         /\ Items(Merged(new, old)) \subseteq Items(new) \cup Items(old)
<1>1. /\ Reverse(new) \in Seq(Item) /\ Len(Reverse(new)) = Len(new)
      /\ \A i \in 1..Len(new) : Reverse(new)[i] = new[(Len(new) - i) + 1]
  BY Reversed
<1>2. Reverse(new) \o old \in Seq(Item)
  BY <1>1
<1>3. Items(Reverse(new) \o old) \subseteq Items(new) \cup Items(old)
  <2> SUFFICES ASSUME NEW i \in DOMAIN (Reverse(new) \o old)
               PROVE  (Reverse(new) \o old)[i] \in Items(new) \cup Items(old)
    BY DEF Items
  <2> DEFINE r == Reverse(new)
  <2>1. CASE i \in 1..Len(r)
    <3>1. (r \o old)[i] = r[i] /\ (Len(new) - i) + 1 \in DOMAIN new
      <4>1. (r \o old)[i] = r[i]
        BY <1>1, <2>1, Joined
      <4>2. (Len(new) - i) + 1 \in DOMAIN new
        BY <1>1, <2>1, Reversed
      <4>3. QED
        BY <4>1, <4>2
    <3>2. QED
      BY <1>1, <2>1, <3>1 DEF Items
  <2>2. CASE i \notin 1..Len(r)
    <3>1. i - Len(r) \in 1..Len(old) /\ (r \o old)[i] = old[i - Len(r)]
      BY <1>1, <2>2, Joined
    <3>2. QED
      BY <3>1 DEF Items
  <2>3. QED
    BY <2>1, <2>2
<1>4. QED
  BY <1>2, <1>3, DedupedItems DEF Merged

\* What turn t merges is in order, if what it finds is and is older.
LEMMA MergedOrder ==
  ASSUME NEW t \in Turn, NEW new \in Seq(Item), NEW old \in Seq(Item),
         \A i \in DOMAIN new : new[i].turn = t /\ new[i].at = i,
         Sorted(old), \A item \in Items(old) : item.turn < t
  PROVE  Sorted(Reverse(new) \o old)
<1> DEFINE r == Reverse(new)
           all == r \o old
<1>1. /\ Len(new) \in Nat /\ Len(old) \in Nat
      /\ r \in Seq(Item) /\ Len(r) = Len(new)
      /\ \A i \in 1..Len(new) : r[i] = new[(Len(new) - i) + 1]
  BY Reversed
<1>2. \A i \in 1..Len(new) : /\ r[i].turn = t /\ r[i].at = (Len(new) - i) + 1
  <2> HIDE DEF r
  <2>1. ASSUME NEW i \in 1..Len(new)
        PROVE  r[i].turn = t /\ r[i].at = (Len(new) - i) + 1
    <3>1. (Len(new) - i) + 1 \in DOMAIN new
      OBVIOUS
    <3>2. r[i] = new[(Len(new) - i) + 1]
      BY <1>1
    <3>3. QED
      BY <3>1, <3>2
  <2>2. QED
    BY <2>1
<1> HIDE DEF r
<1>3. /\ DOMAIN all = 1..(Len(new) + Len(old))
      /\ \A i \in 1..Len(new) : all[i] = r[i]
      /\ \A i \in DOMAIN all : i \notin 1..Len(new) =>
            /\ i - Len(new) \in DOMAIN old /\ all[i] = old[i - Len(new)]
            /\ i > Len(new)
  <2>1. Len(old) \in Nat /\ DOMAIN old = 1..Len(old)
    OBVIOUS
  <2>2. /\ DOMAIN all = 1..(Len(r) + Len(old))
        /\ \A i \in 1..Len(r) : i \in DOMAIN all /\ all[i] = r[i]
        /\ \A i \in DOMAIN all : i \notin 1..Len(r) =>
              /\ i > Len(r) /\ i - Len(r) \in 1..Len(old)
              /\ all[i] = old[i - Len(r)]
    BY <1>1, Joined
  <2> HIDE DEF all
  <2>3. QED
    BY <1>1, <2>1, <2>2
<1> HIDE DEF all
<1>4. ASSUME NEW i \in DOMAIN all, NEW j \in DOMAIN all, i < j
      PROVE  Newer(all[i], all[j])
  <2>0. i \in Nat /\ j \in Nat /\ t \in Nat /\ i >= 1
    BY <1>1, <1>3, TurnsAreNumbers
  <2>1. CASE j \in 1..Len(new)
    <3>1. i \in 1..Len(new)
      BY <1>1, <1>4, <2>0, <2>1
    <3>2. /\ all[i].turn = t /\ all[i].at = (Len(new) - i) + 1
          /\ all[j].turn = t /\ all[j].at = (Len(new) - j) + 1
      BY <1>2, <1>3, <2>1, <3>1
    <3>3. (Len(new) - i) + 1 > (Len(new) - j) + 1
      BY <1>1, <1>4, <2>0
    <3>4. QED
      BY <3>2, <3>3 DEF Newer
  <2>2. CASE j \notin 1..Len(new) /\ i \in 1..Len(new)
    <3>1. all[j] \in Items(old)
      BY <1>3, <2>2 DEF Items
    <3>2. all[j].turn < t /\ all[i].turn = t
      BY <1>2, <1>3, <2>2, <3>1
    <3>3. all[j].turn \in Nat
      <4>1. all[j] \in Item
        BY <3>1 DEF Items
      <4>2. QED
        BY <4>1, TurnsAreNumbers DEF Item
    <3>4. QED
      BY <2>0, <3>2, <3>3 DEF Newer
  <2>3. CASE j \notin 1..Len(new) /\ i \notin 1..Len(new)
    <3>1. /\ i - Len(new) \in DOMAIN old /\ all[i] = old[i - Len(new)]
          /\ j - Len(new) \in DOMAIN old /\ all[j] = old[j - Len(new)]
      BY <1>3, <2>3
    <3>2. i - Len(new) < j - Len(new)
      BY <1>1, <1>4, <2>0
    <3>3. QED
      BY <3>1, <3>2 DEF Sorted
  <2>4. QED
    BY <2>1, <2>2, <2>3
<1>5. QED
  BY <1>4 DEF Sorted, all, r

\* The new results are all there, and the old ones as far as there is room.
LEMMA MergedCovers ==
  ASSUME NEW t \in Turn, NEW new \in Seq(Item), NEW old \in Seq(Item),
         \A i \in DOMAIN new : new[i].turn = t /\ new[i].at = i,
         Sorted(old), Distinct(old), \A item \in Items(old) : item.turn < t
  PROVE  /\ Sorted(Merged(new, old)) /\ Distinct(Merged(new, old))
         /\ \A item \in Items(new) : Covered(item, Merged(new, old))
         /\ \A item \in Item : (item.turn < t /\ Covered(item, old))
                                 => Covered(item, Merged(new, old))
<1> DEFINE r == Reverse(new)
           all == r \o old
           D == Deduped(all)
<1>1. /\ Len(new) \in Nat /\ Len(old) \in Nat
      /\ r \in Seq(Item) /\ Len(r) = Len(new)
      /\ \A i \in 1..Len(new) : r[i] = new[(Len(new) - i) + 1]
  BY Reversed
<1>2. Sorted(all)
  BY MergedOrder
<1>3. all \in Seq(Item) /\ D = Merged(new, old)
  BY <1>1 DEF Merged
<1>4. D \in Seq(Item) /\ Items(D) \subseteq Items(new) \cup Items(old)
  BY <1>3, MergedType
<1> HIDE DEF r
<1>5. Items(new) \subseteq Items(all) /\ Items(old) \subseteq Items(all)
  <2>1. /\ \A i \in 1..Len(r) : i \in DOMAIN all /\ all[i] = r[i]
        /\ \A i \in 1..Len(old) : Len(r) + i \in DOMAIN all /\ all[Len(r) + i] = old[i]
    BY <1>1, Joined
  <2>2. ASSUME NEW i \in DOMAIN new PROVE new[i] \in Items(all)
    <3>1. (Len(new) - i) + 1 \in 1..Len(new) /\ new[i] = r[(Len(new) - i) + 1]
      BY Reversed DEF r
    <3>2. QED
      BY <1>1, <2>1, <3>1 DEF Items
  <2>3. ASSUME NEW i \in DOMAIN old PROVE old[i] \in Items(all)
    <3>1. i \in 1..Len(old)
      OBVIOUS
    <3>2. QED
      BY <2>1, <3>1 DEF Items
  <2>4. QED
    BY <2>2, <2>3 DEF Items
<1>6. \A item \in Items(all) : Covered(item, D)
  BY <1>2, <1>3, DedupedCovers
<1>7. Sorted(D) /\ Distinct(D)
  BY <1>2, <1>3, DedupedOrder
<1>8. Len(old) = MaxContext => Len(D) = MaxContext
  BY <1>1, DedupedRoom
<1> HIDE DEF all, D
<1>9. ASSUME NEW item \in Item, item.turn < t, Covered(item, old) PROVE Covered(item, D)
  <2>0. Items(D) \subseteq Item /\ Items(old) \subseteq Item
    BY <1>4 DEF Items
  <2>1. CASE \E kept \in Items(old) : kept.key = item.key /\ (kept = item \/ Newer(kept, item))
    <3>1. PICK kept \in Items(old) : kept.key = item.key /\ (kept = item \/ Newer(kept, item))
      BY <2>1
    <3>2. Covered(kept, D) /\ kept \in Item
      BY <1>5, <1>6, <2>0
    <3>3. \A other \in Item : Newer(other, kept) => Newer(other, item)
      BY <3>1, <3>2, NewerTransitive
    <3>4. QED
      BY <2>0, <3>1, <3>2, <3>3 DEF Covered
  <2>2. CASE Len(old) = MaxContext /\ \A kept \in Items(old) : Newer(kept, item)
    <3>1. ASSUME NEW kept \in Items(D) PROVE Newer(kept, item)
      <4>1. CASE kept \in Items(new)
        <5>1. kept.turn = t /\ item.turn \in Nat /\ t \in Nat
          <6>1. kept.turn = t
            BY <4>1 DEF Items
          <6>2. item.turn \in Nat /\ t \in Nat
            BY TurnsAreNumbers DEF Item
          <6>3. QED
            BY <6>1, <6>2
        <5>2. QED
          BY <1>9, <5>1 DEF Newer
      <4>2. CASE kept \in Items(old)
        BY <2>2, <4>2
      <4>3. QED
        BY <1>4, <4>1, <4>2
    <3>2. QED
      BY <1>8, <2>2, <3>1 DEF Covered
  <2>3. QED
    BY <1>9, <2>1, <2>2 DEF Covered
<1>10. QED
  BY <1>3, <1>5, <1>6, <1>7, <1>9

-----------------------------------------------------------------------------
(* Types, of the tool context too.                                          *)

Rest ==
    /\ ctx \in Seq(Item) /\ calls \in [Turn -> Seq(Item)] /\ existing \in [Turn -> Seq(Item)]
    /\ faults \in Nat /\ lapses \in Nat /\ deletes \in Nat
    /\ revived \in BOOLEAN /\ expired \subseteq Turn

LEMMA CallsAreItems ==
  ASSUME NEW t \in Turn
  PROVE  /\ \A n \in 0..MaxCalls : \A keys \in [1..n -> Key] :
               /\ [i \in 1..n |-> [turn |-> t, at |-> i, key |-> keys[i]]] \in Seq(Item)
               /\ Len([i \in 1..n |-> [turn |-> t, at |-> i, key |-> keys[i]]]) = n
<1>1. MaxCalls \in Nat
  BY TurnsAssumption
<1>2. ASSUME NEW n \in 0..MaxCalls, NEW keys \in [1..n -> Key]
      PROVE  /\ [i \in 1..n |-> [turn |-> t, at |-> i, key |-> keys[i]]] \in Seq(Item)
             /\ Len([i \in 1..n |-> [turn |-> t, at |-> i, key |-> keys[i]]]) = n
  <2>1. \A i \in 1..n : [turn |-> t, at |-> i, key |-> keys[i]] \in Item
    BY <1>1 DEF Item
  <2>2. n \in Nat
    BY <1>1
  <2>3. QED
    BY <2>1, <2>2
<1>3. QED
  BY <1>2

LEMMA RestHolds == Spec => []Rest
<1> USE DEF Rest
<1>1. Init => Rest
  <2> SUFFICES ASSUME Init PROVE Rest
    OBVIOUS
  <2>1. <<>> \in Seq(Item) /\ [t \in Turn |-> <<>>] \in [Turn -> Seq(Item)]
    OBVIOUS
  <2>2. revived \in BOOLEAN
    BY DEF Init
  <2>3. /\ ctx = <<>> /\ calls = [t \in Turn |-> <<>>] /\ existing = [t \in Turn |-> <<>>]
        /\ faults = 0 /\ lapses = 0 /\ deletes = 0 /\ expired = {}
    BY DEF Init
  <2>4. ctx \in Seq(Item) /\ calls \in [Turn -> Seq(Item)] /\ existing \in [Turn -> Seq(Item)]
    BY ONLY <2>1, <2>3
  <2>5. QED
    BY <2>2, <2>3, <2>4
<1>2. Typed /\ Rest /\ [Next]_vars => Rest'
  <2> SUFFICES ASSUME Typed, Rest, [Next]_vars PROVE Rest'
    OBVIOUS
  <2>1. ASSUME NEW t \in Turn, Begin(t) PROVE Rest'
    BY <2>1 DEF Begin, store
  <2>2. ASSUME NEW t \in Turn, Load(t) PROVE Rest'
    BY <2>2 DEF Load, NoFault, Fault, budget, store
  <2>3. ASSUME NEW t \in Turn, Route(t) PROVE Rest'
    BY <2>3 DEF Route, store, budget, ghosts
  <2>4. ASSUME NEW t \in Turn, RunTools(t) PROVE Rest'
    <3>1. PICK n \in 0..MaxCalls : \E keys \in [1..n -> Key] :
             calls' = [calls EXCEPT ![t] = [i \in 1..n |-> [turn |-> t, at |-> i, key |-> keys[i]]]]
      BY <2>4 DEF RunTools
    <3>2. \E s \in Seq(Item) : calls' = [calls EXCEPT ![t] = s]
      BY <3>1, CallsAreItems
    <3>3. QED
      BY <2>4, <3>2 DEF RunTools, store, budget, ghosts
  <2>5. ASSUME NEW t \in Turn, Answer(t) PROVE Rest'
    BY <2>5 DEF Answer, store, budget, ghosts
  <2>6. ASSUME NEW t \in Turn, Order(t) PROVE Rest'
    <3>1. CASE UNCHANGED calls
      BY <2>6, <3>1 DEF Order, store, budget, ghosts
    <3>2. CASE calls' # calls
      <4>1. PICK k \in Key : calls' = [calls EXCEPT ![t] = <<[turn |-> t, at |-> 1, key |-> k]>>]
        BY <2>6, <3>2 DEF Order
      <4>2. UNCHANGED <<store, begun, kind, mine, existing, told, budget, ghosts>>
        BY <2>6 DEF Order
      <4>3. <<[turn |-> t, at |-> 1, key |-> k]>> \in Seq(Item)
        BY TurnsAssumption DEF Item
      <4>4. QED
        BY <4>1, <4>2, <4>3 DEF store, budget, ghosts
    <3>3. QED
      BY <3>1, <3>2
  <2>7. ASSUME NEW t \in Turn, SaveSlots(t) PROVE Rest'
    <3>1. revived' \in BOOLEAN
      BY <2>7 DEF SaveSlots, Revives
    <3>2. /\ UNCHANGED <<ctx, local, expired>>
          /\ UNCHANGED budget \/ (faults' = faults + 1 /\ UNCHANGED <<lapses, deletes>>)
      BY <2>7 DEF SaveSlots, NoFault, Fault
    <3>3. QED
      BY <3>1, <3>2 DEF local, budget
  <2>8. ASSUME NEW t \in Turn, ReadContext(t) PROVE Rest'
    BY <2>8 DEF ReadContext, GiveUp, NoFault, Fault, store, budget
  <2>9. ASSUME NEW t \in Turn, WriteContext(t) PROVE Rest'
    <3>1. Merged(calls[t], existing[t]) \in Seq(Item)
      BY MergedType
    <3>2. revived' \in BOOLEAN
      BY <2>9 DEF WriteContext, Revives
    <3>3. /\ UNCHANGED <<local, expired>> /\ ctx' \in {ctx, Merged(calls[t], existing[t])}
          /\ UNCHANGED budget \/ (faults' = faults + 1 /\ UNCHANGED <<lapses, deletes>>)
      BY <2>9 DEF WriteContext, GiveUp, NoFault, Fault
    <3>4. QED
      BY <3>1, <3>2, <3>3 DEF local, budget
  <2>10. ASSUME NEW t \in Turn, NoteAttempt(t) PROVE Rest'
    BY <2>10 DEF NoteAttempt, GiveUp, NoFault, Fault, store, budget
  <2>11. ASSUME NEW t \in Turn, SendDone(t) PROVE Rest'
    BY <2>11 DEF SendDone, Finish, store, budget, ghosts
  <2>12. ASSUME NEW t \in Turn, SendDoneEarly(t) PROVE Rest'
    <3>1. UNCHANGED <<store, budget, ghosts, calls>>
      BY <2>12 DEF SendDoneEarly, Finish, local
    <3>2. existing' = [existing EXCEPT ![t] = <<>>] \/ existing' = existing
      BY <2>12 DEF SendDoneEarly, Finish, local
    <3>3. UNCHANGED <<ctx, calls, faults, lapses, deletes, expired, revived>>
      BY <3>1 DEF store, budget, ghosts
    <3>4. <<>> \in Seq(Item)
      OBVIOUS
    <3>5. existing' \in [Turn -> Seq(Item)]
      BY <3>2, <3>4
    <3>6. QED
      BY <3>3, <3>5
  <2>13. ASSUME NEW t \in Turn, Raise(t) PROVE Rest'
    BY <2>13 DEF Raise, Finish, Fault, store, ghosts
  <2>14. ASSUME NEW t \in Turn, Cut(t) PROVE Rest'
    BY <2>14 DEF Cut, Finish, NoFault, Fault, store, budget, ghosts
  <2>15. ASSUME Delete PROVE Rest'
    <3>1. revived' \in BOOLEAN
      BY <2>15 DEF Delete
    <3>2. /\ ctx' = <<>> /\ UNCHANGED <<calls, existing, expired, faults, lapses>>
          /\ deletes' = deletes + 1
      BY <2>15 DEF Delete, Clearing, local
    <3>3. QED
      BY <3>1, <3>2
  <2>16. ASSUME ContextExpires PROVE Rest'
    <3>1. 1..begun \subseteq Turn
      BY TurnsAreNumbers DEF Typed
    <3>2. QED
      BY <2>16, <3>1 DEF ContextExpires, Clearing, local
  <2>17. CASE UNCHANGED vars
    BY <2>17 DEF vars, store, local, budget, ghosts
  <2>18. QED
    BY <2>1, <2>2, <2>3, <2>4, <2>5, <2>6, <2>7, <2>8, <2>9, <2>10, <2>11, <2>12, <2>13, <2>14, <2>15, <2>16, <2>17 DEF Next
<1>3. QED
  BY <1>1, <1>2, TypedHolds, PTL DEF Spec

\* What a step of a request can do to the results.
Leaves(t) ==
    /\ expired' = expired
    /\ \A u \in Turn \ {t} : calls'[u] = calls[u] /\ existing'[u] = existing[u]
    /\ calls'[t] = calls[t] \/ RunTools(t) \/ Order(t)
    /\ existing'[t] \in {existing[t], <<>>} \/ ReadContext(t)
    /\ ctx' = ctx \/ WriteContext(t)
    /\ slots' = slots \/ SaveSlots(t)
    /\ t \notin before => revived' = revived
    /\ revived => revived'

LEMMA ActsLeaves ==
  ASSUME Typed, Rest, NEW t \in Turn, Acts(t)
  PROVE  Leaves(t)
<1> USE DEF Typed, Rest, Leaves
<1>1. ASSUME Load(t) PROVE Leaves(t)
  BY <1>1 DEF Load, store
<1>2. ASSUME Route(t) PROVE Leaves(t)
  BY <1>2 DEF Route, store, ghosts
<1>3. ASSUME RunTools(t) PROVE Leaves(t)
  BY <1>3 DEF RunTools, store, ghosts
<1>4. ASSUME Answer(t) PROVE Leaves(t)
  BY <1>4 DEF Answer, store, ghosts
<1>5. ASSUME Order(t) PROVE Leaves(t)
  BY <1>5 DEF Order, store, ghosts
<1>6. ASSUME SaveSlots(t) PROVE Leaves(t)
  BY <1>6 DEF SaveSlots, Revives, local
<1>7. ASSUME ReadContext(t) PROVE Leaves(t)
  BY <1>7 DEF ReadContext, store
<1>8. ASSUME WriteContext(t) PROVE Leaves(t)
  BY <1>8 DEF WriteContext, Revives, local
<1>9. ASSUME NoteAttempt(t) PROVE Leaves(t)
  BY <1>9 DEF NoteAttempt, store
<1>10. ASSUME SendDone(t) PROVE Leaves(t)
  BY <1>10 DEF SendDone, Finish, store, ghosts
<1>11. ASSUME SendDoneEarly(t) PROVE Leaves(t)
  BY <1>11 DEF SendDoneEarly, Finish, local, store, ghosts
<1>12. ASSUME Raise(t) PROVE Leaves(t)
  BY <1>12 DEF Raise, Finish, store, ghosts
<1>13. ASSUME Cut(t) PROVE Leaves(t)
  BY <1>13 DEF Cut, Finish, store, ghosts
<1>14. QED
  BY <1>1, <1>2, <1>3, <1>4, <1>5, <1>6, <1>7, <1>8, <1>9, <1>10, <1>11, <1>12, <1>13 DEF Acts

\* A merge is cut to what the context takes, whatever the request had read.
LEMMA MergedFits ==
  ASSUME NEW new \in Seq(Item), NEW old \in Seq(Item)
  PROVE  Len(Merged(new, old)) <= MaxContext
<1>1. MaxContext \in Nat
  BY TurnsAssumption
<1> DEFINE all == Reverse(new) \o old
           c == Cardinality(Firsts(all))
<1>2. all \in Seq(Item)
  BY Reversed
<1>3. c \in Nat /\ Len(Deduped(all)) = IF c < MaxContext THEN c ELSE MaxContext
  BY <1>2, DedupedFacts
<1>4. Merged(new, old) = Deduped(all)
  BY DEF Merged
<1> HIDE DEF all, c
<1>5. QED
  BY <1>1, <1>3, <1>4

Fits == Len(ctx) <= MaxContext

LEMMA FitsHolds == Spec => []Fits
<1>1. Len(<<>>) <= MaxContext
  BY TurnsAssumption
<1>2. Init => Fits
  BY <1>1 DEF Init, Fits
<1>3. Typed /\ Rest /\ Fits /\ [Next]_vars => Fits'
  <2> SUFFICES ASSUME Typed, Rest, Fits, [Next]_vars PROVE Fits'
    OBVIOUS
  <2>1. ASSUME NEW t \in Turn, Acts(t) PROVE Fits'
    <3>1. ctx' = ctx \/ WriteContext(t)
      BY <2>1, ActsLeaves DEF Leaves
    <3>2. ctx' = ctx \/ ctx' = Merged(calls[t], existing[t])
      BY <3>1 DEF WriteContext
    <3>3. Len(Merged(calls[t], existing[t])) <= MaxContext
      BY MergedFits DEF Rest
    <3>4. QED
      BY <3>2, <3>3 DEF Fits
  <2>2. CASE Delete \/ ContextExpires
    BY <1>1, <2>2 DEF Delete, ContextExpires, Fits
  <2>3. CASE (\E t \in Turn : Begin(t)) \/ UNCHANGED vars
    BY <2>3 DEF Begin, vars, store, Fits
  <2>4. QED
    BY <2>1, <2>2, <2>3 DEF Next, Acts
<1>4. QED
  BY <1>2, <1>3, TypedHolds, RestHolds, PTL DEF Spec

\* Every variable of TurnState keeps its type; the merge of the stored tool
\* results, above all, is a sequence of results again and fits the context.
THEOREM TypeCorrect == Spec => []TypeOK
<1>1. Typed /\ Rest /\ Fits => TypeOK
  BY DEF Typed, Rest, Fits, TypeOK
<1>2. QED
  BY <1>1, TypedHolds, RestHolds, FitsHolds, PTL

-----------------------------------------------------------------------------
(* The calls of a request.                                                  *)

\* The calls of a request are its own, in their order; one that has not begun
\* holds nothing; and calls are made in the tool loop or by an order button.
CallsAt(t) ==
    /\ \A i \in DOMAIN calls[t] : calls[t][i].turn = t /\ calls[t][i].at = i
    /\ pc[t] = "new" => /\ mine[t] = {} /\ existing[t] = <<>> /\ calls[t] = <<>>
                       /\ branch[t] = "none"
    /\ pc[t] \in {"loading", "routing", "loop", "early", "ordering"} => calls[t] = <<>>
    /\ calls[t] # <<>> => branch[t] \in {"tools", "full", "ungrounded", "order"}
    /\ branch[t] = "order" => kind[t] = "quick"
    /\ pc[t] \in {"loop", "answering"} => branch[t] = "tools"
    /\ branch[t] = "tools" => pc[t] \in {"loop", "answering", "over"} /\ told[t] # "done"
    /\ pc[t] \in {"noting", "ordering"} => kind[t] = "quick"
    /\ pc[t] \in {"loading", "routing", "loop", "answering", "early"} => kind[t] # "quick"
    /\ pc[t] \in {"loading", "routing", "ordering"} => branch[t] = "none"
    /\ pc[t] \in {"reading", "merging", "noting"} => branch[t] \in {"full", "order"}
    /\ pc[t] = "saving" /\ kind[t] = "quick" => branch[t] = "order"

CallsFlow == \A t \in Turn : CallsAt(t)

LEMMA CallsFlowHolds == Spec => []CallsFlow
<1>1. Init => CallsFlow
  BY DEF Init, CallsFlow, CallsAt
<1>2. Typed /\ Rest /\ Flow /\ CallsFlow /\ [Next]_vars => CallsFlow'
  <2> SUFFICES ASSUME Typed, Rest, Flow, CallsFlow, [Next]_vars PROVE CallsFlow'
    OBVIOUS
  <2>1. ASSUME NEW t \in Turn, Begin(t) PROVE CallsFlow'
    <3>1. PICK k \in {"stream", "sync", "quick"} :
              /\ kind' = [kind EXCEPT ![t] = k]
              /\ pc' = [pc EXCEPT ![t] = IF k = "quick" THEN "ordering" ELSE "loading"]
      BY <2>1 DEF Begin, Goto
    <3>2. t = begun + 1 /\ UNCHANGED <<mine, branch, told, calls, existing>>
      BY <2>1 DEF Begin
    <3>3. pc[t] = "new"
      BY <3>2, TurnsAreNumbers DEF Flow, Begun, Typed
    <3>4. \A u \in Turn \ {t} : CallsAt(u)'
      BY <3>1, <3>2 DEF CallsFlow, CallsAt, Typed
    <3>5. CallsAt(t)'
      BY <3>1, <3>2, <3>3 DEF CallsFlow, CallsAt, Typed
    <3>6. QED
      BY <3>4, <3>5 DEF CallsFlow
  <2>2. ASSUME NEW t \in Turn, Acts(t) PROVE CallsFlow'
    <3>1. Works(t) /\ Leaves(t)
      BY <2>2, ActsWorks, ActsLeaves
    <3>2. \A u \in Turn \ {t} : CallsAt(u)'
      BY <3>1 DEF CallsFlow, CallsAt, Works, Leaves
    <3>3. CallsAt(t)'
      <4> USE DEF CallsAt, Typed, Rest, CallsFlow
      <4>0. CallsAt(t) /\ BranchAt(t)
        BY DEF Flow
      <4>1. ASSUME Load(t) PROVE CallsAt(t)'
        BY <4>1 DEF Load, Goto
      <4>2. ASSUME Route(t) PROVE CallsAt(t)'
        <5>1. PICK b \in {"guarded", "short", "staggered", "tools"} :
                 /\ branch' = [branch EXCEPT ![t] = b]
                 /\ pc' = [pc EXCEPT ![t] = IF b = "tools" THEN "loop" ELSE Ends(b)]
          BY <4>2 DEF Route, Goto
        <5>2. /\ pc[t] = "routing" /\ UNCHANGED <<kind, calls, existing, told>>
              /\ told[t] # "done"
          BY <4>2 DEF Route, Flow, Begun
        <5>3. /\ branch'[t] = b /\ calls[t] = <<>> /\ kind[t] # "quick"
              /\ pc'[t] = (IF b = "tools" THEN "loop" ELSE IF b = "staggered" THEN "early" ELSE "saving")
          BY <4>0, <5>1, <5>2 DEF Ends
        <5> HIDE DEF Typed, Rest
        <5>4. QED
          BY <4>0, <5>2, <5>3
      <4>3. ASSUME RunTools(t) PROVE CallsAt(t)'
        <5>1. PICK n \in 0..MaxCalls : \E keys \in [1..n -> Key] :
                 calls' = [calls EXCEPT ![t] = [i \in 1..n |-> [turn |-> t, at |-> i, key |-> keys[i]]]]
          BY <4>3 DEF RunTools
        <5>2. \A i \in DOMAIN calls'[t] : calls'[t][i].turn = t /\ calls'[t][i].at = i
          BY <5>1
        <5>3. QED
          BY <4>3, <5>2 DEF RunTools, Goto
      <4>4. ASSUME Answer(t) PROVE CallsAt(t)'
        BY <4>4 DEF Answer, Goto
      <4>5. ASSUME Order(t) PROVE CallsAt(t)'
        <5>1. \A i \in DOMAIN calls'[t] : calls'[t][i].turn = t /\ calls'[t][i].at = i
          <6>1. CASE UNCHANGED calls
            BY <4>0, <6>1
          <6>2. CASE \E k \in Key : calls' = [calls EXCEPT ![t] = <<[turn |-> t, at |-> 1, key |-> k]>>]
            BY <6>2
          <6>3. QED
            BY <4>5, <6>1, <6>2 DEF Order
        <5>2. QED
          BY <4>5, <5>1 DEF Order, Goto
      <4>6. ASSUME SaveSlots(t) PROVE CallsAt(t)'
        BY <4>6 DEF SaveSlots, AfterSave, Persists, local, Goto
      <4>7. ASSUME ReadContext(t) PROVE CallsAt(t)'
        BY <4>7 DEF ReadContext, GiveUp, Goto
      <4>8. ASSUME WriteContext(t) PROVE CallsAt(t)'
        BY <4>8 DEF WriteContext, GiveUp, local, Goto
      <4>9. ASSUME NoteAttempt(t) PROVE CallsAt(t)'
        BY <4>0, <4>9 DEF NoteAttempt, GiveUp, Goto, BranchAt
      <4>10. ASSUME SendDone(t) PROVE CallsAt(t)'
        BY <4>10 DEF SendDone, Finish, Goto
      <4>11. ASSUME SendDoneEarly(t) PROVE CallsAt(t)'
        BY <4>0, <4>11 DEF SendDoneEarly, Finish, local, Goto, BranchAt
      <4>12. ASSUME Raise(t) PROVE CallsAt(t)'
        BY <4>12 DEF Raise, Finish, Goto
      <4>13. ASSUME Cut(t) PROVE CallsAt(t)'
        BY <4>13 DEF Cut, Finish, Goto
      <4>14. QED
        BY <2>2, <4>1, <4>2, <4>3, <4>4, <4>5, <4>6, <4>7, <4>8, <4>9, <4>10, <4>11, <4>12, <4>13 DEF Acts
    <3>4. QED
      BY <3>2, <3>3 DEF CallsFlow
  <2>3. CASE UNCHANGED <<pc, kind, branch, mine, calls, existing, told>>
    BY <2>3 DEF CallsFlow, CallsAt
  <2>4. Delete \/ ContextExpires \/ UNCHANGED vars
            => UNCHANGED <<pc, kind, branch, mine, calls, existing, told>>
    BY DEF Delete, ContextExpires, vars, local, ghosts
  <2>5. QED
    BY <2>1, <2>2, <2>3, <2>4 DEF Next, Acts
<1>3. QED
  BY <1>1, <1>2, TypedHolds, RestHolds, FlowHolds, PTL DEF Spec

-----------------------------------------------------------------------------
(* Deletion.                                                                *)

FactsAfter(S) == \A fact \in S : fact.turn \notin before
ItemsAfter(s) == \A item \in Items(s) : item.turn \notin before

\* Only a request from before the deletion holds something from before it.
Forgotten ==
    ~revived => /\ FactsAfter(slots) /\ ItemsAfter(ctx)
                /\ \A t \in Turn \ before : FactsAfter(mine[t]) /\ ItemsAfter(existing[t])

LEMMA ForgottenStep ==
  ASSUME Typed, Rest, CallsFlow, Forgotten, NEW t \in Turn, Acts(t)
  PROVE  Forgotten'
<1> SUFFICES ASSUME ~revived' PROVE /\ FactsAfter(slots') /\ ItemsAfter(ctx')
                                    /\ \A u \in Turn \ before : FactsAfter(mine'[u]) /\ ItemsAfter(existing'[u])
  BY ActsWorks DEF Forgotten, Works, FactsAfter, ItemsAfter
<1>1. Works(t) /\ Leaves(t)
  BY ActsWorks, ActsLeaves
<1>2. /\ FactsAfter(slots) /\ ItemsAfter(ctx)
      /\ \A u \in Turn \ before : FactsAfter(mine[u]) /\ ItemsAfter(existing[u])
  BY <1>1 DEF Forgotten, Leaves
<1>3. FactsAfter(slots')
  <2>1. CASE SaveSlots(t)
    <3>1. slots' = slots \/ (slots' = mine[t] /\ t \notin before)
      BY <2>1 DEF SaveSlots, Revives
    <3>2. QED
      BY <1>2, <3>1
  <2>2. CASE ~SaveSlots(t)
    BY <1>1, <1>2, <2>2 DEF Leaves
  <2>3. QED
    BY <2>1, <2>2
<1>4. ItemsAfter(ctx')
  <2>1. CASE WriteContext(t)
    <3>1. ctx' = ctx \/ (ctx' = Merged(calls[t], existing[t]) /\ t \notin before)
      BY <2>1 DEF WriteContext, Revives
    <3>2. ASSUME t \notin before, NEW item \in Items(Merged(calls[t], existing[t]))
          PROVE  item.turn \notin before
      <4>1. item \in Items(calls[t]) \/ item \in Items(existing[t])
        <5>1. calls[t] \in Seq(Item) /\ existing[t] \in Seq(Item)
          BY DEF Rest
        <5>2. QED
          BY <3>2, <5>1, MergedType
      <4>2. item \in Items(calls[t]) => item.turn = t
        BY DEF CallsFlow, CallsAt, Items
      <4>3. QED
        BY <1>2, <3>2, <4>1, <4>2 DEF ItemsAfter
    <3>3. QED
      BY <1>2, <3>1, <3>2 DEF ItemsAfter
  <2>2. CASE ~WriteContext(t)
    BY <1>1, <1>2, <2>2 DEF Leaves
  <2>3. QED
    BY <2>1, <2>2
<1>5. ASSUME t \notin before PROVE FactsAfter(mine'[t])
  <2> USE <1>2, <1>5 DEF Typed, FactsAfter
  <2>0. \A b : \A fact \in Known(t, b) \cup {Said(t), Found(t)} : fact.turn = t
    BY DEF Known, Clicked, Said, Found
  <2>1. mine'[t] = mine[t] \/ mine'[t] \subseteq slots \cup mine[t] \cup {Said(t), Found(t)}
        \/ \E b : mine'[t] = mine[t] \cup Known(t, b)
    <3>1. ASSUME Load(t) PROVE mine'[t] \subseteq slots
      BY <3>1 DEF Load
    <3>2. ASSUME Route(t) PROVE \E b : mine'[t] = mine[t] \cup Known(t, b)
      BY <3>2 DEF Route
    <3>3. ASSUME RunTools(t) PROVE mine' = mine
      BY <3>3 DEF RunTools
    <3>4. ASSUME Answer(t) PROVE mine'[t] \subseteq mine[t] \cup {Found(t)}
      BY <3>4 DEF Answer
    <3>5. ASSUME Order(t) PROVE mine' = mine
      BY <3>5 DEF Order
    <3>6. ASSUME SaveSlots(t) PROVE mine' = mine
      BY <3>6 DEF SaveSlots, local
    <3>7. ASSUME ReadContext(t) PROVE mine' = mine
      BY <3>7 DEF ReadContext
    <3>8. ASSUME WriteContext(t) PROVE mine' = mine
      BY <3>8 DEF WriteContext, local
    <3>9. ASSUME NoteAttempt(t) PROVE mine'[t] \subseteq slots \cup mine[t] \cup {Said(t)}
      BY <3>9 DEF NoteAttempt
    <3>10. ASSUME SendDone(t) PROVE mine'[t] = {}
      BY <3>10 DEF SendDone, Finish
    <3>11. ASSUME SendDoneEarly(t) PROVE mine'[t] \in {{}, mine[t]}
      BY <3>11 DEF SendDoneEarly, Finish, local
    <3>12. ASSUME Raise(t) PROVE mine'[t] = {}
      BY <3>12 DEF Raise, Finish
    <3>13. ASSUME Cut(t) PROVE mine'[t] = {}
      BY <3>13 DEF Cut, Finish
    <3> HIDE <1>2, <1>5
    <3> HIDE DEF Typed, FactsAfter
    <3>14. QED
      BY <3>1, <3>2, <3>3, <3>4, <3>5, <3>6, <3>7, <3>8, <3>9, <3>10, <3>11, <3>12, <3>13 DEF Acts
  <2>2. QED
    BY <2>0, <2>1
<1>6. ASSUME t \notin before PROVE ItemsAfter(existing'[t])
  <2>1. existing'[t] = <<>> \/ existing'[t] = existing[t] \/ existing'[t] = ctx
    BY <1>1 DEF Leaves, ReadContext, GiveUp, Rest
  <2>2. Items(<<>>) = {}
    BY DEF Items
  <2>3. QED
    BY <1>2, <1>6, <2>1, <2>2 DEF ItemsAfter
<1>7. QED
  BY <1>1, <1>2, <1>3, <1>4, <1>5, <1>6 DEF Works, Leaves

LEMMA ForgottenHolds == Spec => []Forgotten
<1>1. Init => Forgotten
  BY DEF Init, Forgotten, FactsAfter, ItemsAfter, Items
<1>2. Typed /\ Rest /\ Flow /\ CallsFlow /\ Forgotten /\ [Next]_vars => Forgotten'
  <2> SUFFICES ASSUME Typed, Rest, Flow, CallsFlow, Forgotten, [Next]_vars PROVE Forgotten'
    OBVIOUS
  <2>1. CASE \E t \in Turn : Acts(t)
    BY <2>1, ForgottenStep
  <2>2. CASE Delete
    <3>1. /\ slots' = {} /\ ctx' = <<>> /\ before' = 1..begun
          /\ UNCHANGED <<mine, existing>>
      BY <2>2 DEF Delete, local
    <3>2. \A u \in Turn : u \notin before' => mine[u] = {} /\ existing[u] = <<>>
      BY <3>1, TurnsAreNumbers DEF Flow, Begun, CallsFlow, CallsAt, Typed
    <3>3. QED
      BY <3>1, <3>2 DEF Forgotten, FactsAfter, ItemsAfter, Items
  <2>3. CASE ContextExpires
    <3>1. ctx' = <<>> /\ UNCHANGED <<slots, mine, existing, before, revived>>
      BY <2>3 DEF ContextExpires, local
    <3>2. QED
      BY <3>1 DEF Forgotten, FactsAfter, ItemsAfter, Items
  <2>4. CASE (\E t \in Turn : Begin(t)) \/ UNCHANGED vars
    <3>1. UNCHANGED <<slots, ctx, mine, existing, before, revived>>
      BY <2>4 DEF Begin, vars, store, local, ghosts
    <3>2. QED
      BY <3>1 DEF Forgotten, FactsAfter, ItemsAfter
  <2>5. QED
    BY <2>1, <2>2, <2>3, <2>4 DEF Next, Acts
<1>3. QED
  BY <1>1, <1>2, TypedHolds, RestHolds, FlowHolds, CallsFlowHolds, PTL DEF Spec

\* A deleted session starts from nothing, for any number of requests, faults and
\* deletions, unless one under way at the deletion writes after it.
THEOREM DeletedIsForgotten == Spec => []DeletionForgets
<1>1. Forgotten => DeletionForgets
  BY DEF Forgotten, DeletionForgets, FactsAfter, ItemsAfter
<1>2. QED
  BY <1>1, ForgottenHolds, PTL

-----------------------------------------------------------------------------
(* The results.                                                             *)

\* The places of a request whose calls cannot be in the tool context yet.
BeforeWrite == {"loading", "routing", "loop", "answering", "ordering", "early", "reading", "merging"}
NotYet(t) == pc[t] \in BeforeWrite \/ (pc[t] = "saving" /\ kind[t] # "quick")

\* What is stored is in order, and what a request found before its calls is older.
Orderly ==
    ~overlapped =>
      /\ \A t \in Turn : pc[t] \in Working => t = begun
      /\ Sorted(ctx) /\ Distinct(ctx)
      /\ \A item \in Items(ctx) : item.turn <= begun
      /\ \A t \in Turn : NotYet(t) => \A item \in Items(ctx) : item.turn # t
      /\ \A t \in Turn : pc[t] = "merging" =>
            /\ Sorted(existing[t]) /\ Distinct(existing[t])
            /\ \A item \in Items(existing[t]) : item.turn < t

\* The request has written its results, and they were not taken away.
Written(t) ==
    /\ t \notin unsaved \cup before \cup expired /\ branch[t] # "ungrounded"
    /\ \/ pc[t] \in {"noting", "telling"}
       \/ pc[t] = "saving" /\ kind[t] = "quick"
       \/ told[t] = "done"

\* They are stored, and with the request that will overwrite what is stored.
Covering ==
    ~overlapped => \A t \in Turn : Written(t) => \A item \in Items(calls[t]) :
        /\ Covered(item, ctx)
        /\ \A u \in Turn : pc[u] = "merging" => Covered(item, existing[u])

\* Nobody comes to have written but by writing, or with nothing to write.
LEMMA WrittenStep ==
  ASSUME Typed, Rest, Flow, CallsFlow, NEW t \in Turn, Acts(t), ~WriteContext(t), Written(t)'
  PROVE  calls'[t] = <<>> \/ (calls'[t] = calls[t] /\ Written(t))
<1> DEFINE Goal == calls'[t] = <<>> \/ (calls'[t] = calls[t] /\ Written(t))
<1>0. /\ told[t] # "done" /\ before' = before /\ expired' = expired /\ kind' = kind
      /\ CallsAt(t) /\ BranchAt(t)
  BY ActsWorks, ActsLeaves DEF Works, Leaves, Flow, Begun, CallsFlow, Working
<1> USE DEF Typed, Rest, Written
<1>1. ASSUME Load(t) PROVE Goal
  BY <1>0, <1>1 DEF Load, Goto
<1>2. ASSUME Route(t) PROVE Goal
  BY <1>0, <1>2 DEF Route, CallsAt
<1>3. ASSUME RunTools(t) PROVE Goal
  BY <1>0, <1>3 DEF RunTools, Goto
<1>4. ASSUME Answer(t) PROVE Goal
  BY <1>0, <1>4, CallsAt(t) DEF Answer, Goto, CallsAt
<1>5. ASSUME Order(t) PROVE Goal
  BY <1>0, <1>5 DEF Order, Goto, CallsAt
<1>6. ASSUME SaveSlots(t) PROVE Goal
  <2>1. /\ pc[t] = "saving" /\ UNCHANGED <<calls, branch, kind, told>>
        /\ pc' = [pc EXCEPT ![t] = AfterSave(t)] /\ unsaved \subseteq unsaved'
    BY <1>6 DEF SaveSlots, local, Goto
  <2>2. CASE kind[t] = "quick"
    BY <1>0, <2>1, <2>2
  <2>3. CASE kind[t] # "quick"
    <3>1. pc'[t] = "telling" /\ ~Persists(t)
      BY <1>0, <2>1, <2>3 DEF AfterSave
    <3>2. branch[t] \notin {"ungrounded", "order"} /\ branch[t] # "tools"
      BY <1>0, <2>1, <2>3 DEF CallsAt
    <3>3. calls[t] = <<>>
      BY <1>0, <3>1, <3>2 DEF CallsAt, Persists
    <3>4. QED
      BY <2>1, <3>3
  <2>4. QED
    BY <2>2, <2>3
<1>7. ASSUME ReadContext(t) PROVE Goal
  BY <1>0, <1>7 DEF ReadContext, GiveUp, Goto
<1>9. ASSUME NoteAttempt(t) PROVE Goal
  BY <1>0, <1>9 DEF NoteAttempt, GiveUp, Goto
<1>10. ASSUME SendDone(t) PROVE Goal
  BY <1>0, <1>10 DEF SendDone, Finish, Goto, ghosts
<1>11. ASSUME SendDoneEarly(t) PROVE Goal
  BY <1>0, <1>11 DEF SendDoneEarly, Finish, local, Goto, CallsAt
<1>12. ASSUME Raise(t) PROVE Goal
  BY <1>0, <1>12 DEF Raise, Finish, Goto
<1>13. ASSUME Cut(t) PROVE Goal
  BY <1>0, <1>13 DEF Cut, Finish, Goto
<1>14. QED
  BY <1>1, <1>2, <1>3, <1>4, <1>5, <1>6, <1>7, <1>9, <1>10, <1>11, <1>12, <1>13 DEF Acts

\* Once past the write a request does not come back before it.
LEMMA NotYetStep ==
  ASSUME Typed, Rest, Flow, CallsFlow, NEW t \in Turn, Acts(t), NotYet(t)'
  PROVE  NotYet(t) /\ (pc'[t] = "merging" => ReadContext(t) /\ existing'[t] = ctx)
<1> DEFINE Goal == NotYet(t) /\ (pc'[t] = "merging" => ReadContext(t) /\ existing'[t] = ctx)
<1>0. CallsAt(t) /\ BranchAt(t) /\ kind' = kind
  BY ActsWorks DEF CallsFlow, Flow, Works
<1> USE DEF Typed, NotYet, BeforeWrite
<1>1. ASSUME Load(t) PROVE Goal
  BY <1>1 DEF Load, Goto
<1>2. ASSUME Route(t) PROVE Goal
  <2>1. pc[t] = "routing" /\ pc'[t] \in {"loop", "early", "saving"}
    BY <1>2 DEF Route, Ends, Goto
  <2>2. QED
    BY <2>1
<1>3. ASSUME RunTools(t) PROVE Goal
  BY <1>3 DEF RunTools, Goto
<1>4. ASSUME Answer(t) PROVE Goal
  BY <1>4 DEF Answer, Goto
<1>5. ASSUME Order(t) PROVE Goal
  BY <1>5 DEF Order, Goto
<1>6. ASSUME SaveSlots(t) PROVE Goal
  BY <1>6 DEF SaveSlots, AfterSave, local, Goto
<1>7. ASSUME ReadContext(t) PROVE Goal
  <2>1. pc[t] = "reading" /\ pc'[t] \in {"merging", "telling"}
    BY <1>7 DEF ReadContext, GiveUp, Goto
  <2>2. CASE existing' = [existing EXCEPT ![t] = ctx]
    BY <1>7, <2>1, <2>2 DEF Rest
  <2>3. CASE pc'[t] # "merging"
    BY <2>1, <2>3
  <2>4. QED
    BY <1>7, <2>2, <2>3 DEF ReadContext, GiveUp, Goto
<1>8. ASSUME WriteContext(t) PROVE Goal
  BY <1>8 DEF WriteContext, GiveUp, local, Goto
<1>9. ASSUME NoteAttempt(t) PROVE Goal
  BY <1>0, <1>9 DEF NoteAttempt, GiveUp, Goto, CallsAt
<1>10. ASSUME SendDone(t) PROVE Goal
  BY <1>10 DEF SendDone, Finish, Goto
<1>11. ASSUME SendDoneEarly(t) PROVE Goal
  BY <1>11 DEF SendDoneEarly, Finish, local, Goto
<1>12. ASSUME Raise(t) PROVE Goal
  BY <1>12 DEF Raise, Finish, Goto
<1>13. ASSUME Cut(t) PROVE Goal
  BY <1>13 DEF Cut, Finish, Goto
<1>14. QED
  BY <1>1, <1>2, <1>3, <1>4, <1>5, <1>6, <1>7, <1>8, <1>9, <1>10, <1>11, <1>12, <1>13 DEF Acts

\* Writing the results.
LEMMA WriteKeeps ==
  ASSUME Typed, Rest, Flow, CallsFlow, Orderly, Covering, NEW t \in Turn, WriteContext(t)
  PROVE  Orderly' /\ Covering'
<1> SUFFICES ASSUME ~overlapped' PROVE Orderly' /\ Covering'
  BY DEF Orderly, Covering
<1> DEFINE new == calls[t]
           old == existing[t]
<1>1. Acts(t) /\ Works(t) /\ Leaves(t)
  BY ActsWorks, ActsLeaves DEF Acts
<1>2. /\ ~overlapped /\ overlapped' = overlapped /\ before' = before /\ expired' = expired
      /\ begun' = begun /\ kind' = kind
  BY <1>1 DEF Works, Leaves
<1>3. /\ pc[t] = "merging" /\ UNCHANGED <<local, told>> /\ pc'[t] \in {"noting", "telling"}
      /\ ctx' = ctx \/ ctx' = Merged(new, old)
      /\ ctx' = Merged(new, old) \/ t \in unsaved'
      /\ unsaved \subseteq unsaved'
  BY DEF WriteContext, GiveUp, Goto, Typed
<1>4. t = begun /\ \A u \in Turn \ {t} : pc'[u] = pc[u] /\ pc[u] \notin Working
  BY <1>1, <1>2, <1>3 DEF Orderly, Works, Flow, Alone, Working
<1>5. /\ new \in Seq(Item) /\ old \in Seq(Item)
      /\ \A i \in DOMAIN new : new[i].turn = t /\ new[i].at = i
      /\ Sorted(old) /\ Distinct(old) /\ \A item \in Items(old) : item.turn < t
  BY <1>2, <1>3 DEF Rest, CallsFlow, CallsAt, Orderly
<1>6. /\ Sorted(Merged(new, old)) /\ Distinct(Merged(new, old))
      /\ \A item \in Items(new) : Covered(item, Merged(new, old))
      /\ \A item \in Item : (item.turn < t /\ Covered(item, old))
                              => Covered(item, Merged(new, old))
      /\ Items(Merged(new, old)) \subseteq Items(new) \cup Items(old)
  BY <1>5, MergedCovers, MergedType
<1>7. t \in Nat
  BY TurnsAreNumbers
<1>8. Sorted(ctx') /\ Distinct(ctx') /\ \A item \in Items(ctx') : item.turn <= begun
  <2>1. CASE ctx' = ctx
    BY <1>2, <2>1 DEF Orderly
  <2>2. CASE ctx' = Merged(new, old)
    <3>1. \A item \in Items(new) : item.turn = t
      BY <1>5 DEF Items
    <3>2. \A item \in Items(old) : item.turn <= t
      <4>1. \A item \in Items(old) : item.turn \in Nat
        <5>1. \A item \in Items(old) : item \in Item
          BY <1>5 DEF Items
        <5>2. \A item \in Item : item.turn \in Nat
          BY TurnsAreNumbers DEF Item
        <5>3. QED
          BY <5>1, <5>2
      <4>2. QED
        BY <1>5, <1>7, <4>1
    <3>3. QED
      BY <1>4, <1>6, <1>7, <2>2, <3>1, <3>2
  <2>3. QED
    BY <1>3, <2>1, <2>2
<1>9. \A u \in Turn : /\ ~ NotYet(u)' /\ pc'[u] # "merging"
                      /\ pc'[u] \in Working => u = begun
  <2>1. ~ NotYet(t)' /\ pc'[t] # "merging"
    BY <1>3 DEF NotYet, BeforeWrite
  <2>2. \A u \in Turn \ {t} : ~ NotYet(u)' /\ pc'[u] \notin Working /\ pc'[u] # "merging"
    BY <1>4 DEF NotYet, BeforeWrite, Working
  <2>3. QED
    BY <1>4, <2>1, <2>2
<1>10. Orderly'
  BY <1>2, <1>8, <1>9 DEF Orderly
<1>11. ASSUME NEW u \in Turn, Written(u)', NEW item \in Items(calls[u])
       PROVE  Covered(item, ctx')
  <2>1. CASE u = t
    <3>1. ctx' = Merged(new, old)
      BY <1>3, <1>11, <2>1 DEF Written
    <3>2. QED
      BY <1>6, <1>11, <2>1, <3>1
  <2>2. CASE u # t
    <3>1. Written(u)
      BY <1>1, <1>2, <1>3, <1>4, <1>11, <2>2 DEF Written, Works, local
    <3>2. Covered(item, ctx) /\ Covered(item, old)
      BY <1>2, <1>3, <1>11, <3>1 DEF Covering
    <3>3. item \in Item /\ item.turn = u
      BY <1>11 DEF Rest, Items, CallsFlow, CallsAt
    <3>4. u < t
      <4>1. pc[u] # "new"
        BY <3>1 DEF Written, Flow, Begun
      <4>2. u <= begun /\ u \in Nat
        BY <4>1, TurnsAreNumbers DEF Flow, Begun
      <4>3. QED
        BY <1>4, <1>7, <2>2, <4>2
    <3>5. QED
      BY <1>3, <1>6, <3>2, <3>3, <3>4
  <2>3. QED
    BY <2>1, <2>2
<1>12. Covering'
  <2>1. calls' = calls
    BY <1>3 DEF local
  <2>2. QED
    BY <1>9, <1>11, <2>1 DEF Covering
<1>13. QED
  BY <1>10, <1>12

LEMMA ResultsStep ==
  ASSUME Typed, Rest, Flow, CallsFlow, Orderly, Covering, NEW t \in Turn, Acts(t)
  PROVE  Orderly' /\ Covering'
<1>1. CASE WriteContext(t)
  BY <1>1, WriteKeeps
<1>2. CASE ~WriteContext(t)
  <2> SUFFICES ASSUME ~overlapped' PROVE Orderly' /\ Covering'
    BY DEF Orderly, Covering
  <2>1. Works(t) /\ Leaves(t)
    BY ActsWorks, ActsLeaves
  <2>2. /\ ~overlapped /\ overlapped' = overlapped /\ before' = before /\ expired' = expired
        /\ begun' = begun /\ kind' = kind /\ ctx' = ctx /\ pc[t] \in Working
    BY <1>2, <2>1 DEF Works, Leaves
  <2>3. t = begun /\ \A u \in Turn \ {t} : pc'[u] = pc[u] /\ pc[u] \notin Working
    BY <2>1, <2>2 DEF Orderly, Works, Flow, Alone
  <2>4. /\ Sorted(ctx) /\ Distinct(ctx) /\ \A item \in Items(ctx) : item.turn <= begun
        /\ NotYet(t) => \A item \in Items(ctx) : item.turn # t
    BY <2>2 DEF Orderly
  <2>5. \A u \in Turn \ {t} : ~ NotYet(u)' /\ pc'[u] # "merging" /\ pc'[u] \notin Working
    BY <2>3 DEF NotYet, BeforeWrite, Working
  <2>6. NotYet(t)' => NotYet(t) /\ (pc'[t] = "merging" => existing'[t] = ctx)
    BY NotYetStep
  <2>7. pc'[t] = "merging" => NotYet(t)'
    BY DEF NotYet, BeforeWrite
  <2>8. pc'[t] = "merging" => \A item \in Items(existing'[t]) : item.turn < t
    <3> SUFFICES ASSUME pc'[t] = "merging", NEW item \in Items(ctx) PROVE item.turn < t
      BY <2>6, <2>7
    <3>1. item.turn <= t /\ item.turn # t
      BY <2>3, <2>4, <2>6, <2>7
    <3>2. item \in Item
      BY DEF Items, Rest
    <3>3. item.turn \in Nat /\ t \in Nat
      BY <3>2, TurnsAreNumbers DEF Item
    <3>4. QED
      BY <3>1, <3>3
  <2>9. Orderly'
    <3>1. \A u \in Turn : pc'[u] \in Working => u = begun
      BY <2>3, <2>5
    <3>2. \A u \in Turn : NotYet(u)' => \A item \in Items(ctx) : item.turn # u
      BY <2>4, <2>5, <2>6
    <3>3. \A u \in Turn : pc'[u] = "merging" =>
             /\ Sorted(existing'[u]) /\ Distinct(existing'[u])
             /\ \A item \in Items(existing'[u]) : item.turn < u
      BY <2>4, <2>5, <2>6, <2>7, <2>8
    <3>4. QED
      BY <2>2, <2>4, <3>1, <3>2, <3>3 DEF Orderly
  <2>10. Covering'
    <3> SUFFICES ASSUME NEW u \in Turn, Written(u)', NEW item \in Items(calls'[u])
                 PROVE  /\ Covered(item, ctx)
                        /\ \A v \in Turn : pc'[v] = "merging" => Covered(item, existing'[v])
      BY <2>2 DEF Covering
    <3>1. Written(u) /\ calls'[u] = calls[u]
      <4>1. CASE u = t
        <5>1. calls'[u] # <<>>
          BY DEF Items
        <5>2. QED
          BY <1>2, <4>1, <5>1, WrittenStep
      <4>2. CASE u # t
        BY <2>1, <2>2, <2>3, <4>2 DEF Written, Works, Leaves
      <4>3. QED
        BY <4>1, <4>2
    <3>2. Covered(item, ctx)
      BY <2>2, <3>1 DEF Covering
    <3>3. QED
      BY <2>5, <2>6, <2>7, <3>2
  <2>11. QED
    BY <2>9, <2>10
<1>3. QED
  BY <1>1, <1>2

LEMMA ResultsHold == Spec => [](Orderly /\ Covering)
<1>1. Init => Orderly /\ Covering
  BY DEF Init, Orderly, Covering, Written, Items, Sorted, Distinct, NotYet, BeforeWrite, Working
<1>2. Typed /\ Rest /\ Flow /\ CallsFlow /\ Orderly /\ Covering /\ [Next]_vars
        => Orderly' /\ Covering'
  <2> SUFFICES ASSUME Typed, Rest, Flow, CallsFlow, Orderly, Covering, [Next]_vars
               PROVE  Orderly' /\ Covering'
    OBVIOUS
  <2>0. /\ Sorted(<<>>) /\ Distinct(<<>>) /\ Items(<<>>) = {}
    BY DEF Sorted, Distinct, Items
  <2>1. ASSUME NEW t \in Turn, Begin(t) PROVE Orderly' /\ Covering'
    <3> SUFFICES ASSUME ~overlapped' PROVE Orderly' /\ Covering'
      BY DEF Orderly, Covering
    <3>1. /\ t = begun + 1 /\ begun' = t
          /\ UNCHANGED <<ctx, branch, calls, existing, told, unsaved, before, expired>>
      BY <2>1 DEF Begin, store
    <3>2. ~overlapped /\ \A u \in Turn : pc[u] \notin Working
      BY <2>1 DEF Begin
    <3>3. PICK k \in {"stream", "sync", "quick"} :
              /\ kind' = [kind EXCEPT ![t] = k]
              /\ pc' = [pc EXCEPT ![t] = IF k = "quick" THEN "ordering" ELSE "loading"]
      BY <2>1 DEF Begin, Goto
    <3>4. /\ pc'[t] \in {"ordering", "loading"}
          /\ \A u \in Turn \ {t} : pc'[u] = pc[u] /\ kind'[u] = kind[u]
      BY <3>3 DEF Typed
    <3>5. begun \in Nat /\ told[t] # "done"
      BY <3>1, TurnsAreNumbers DEF Typed, Flow, Begun
    <3>6. \A item \in Items(ctx) : item.turn <= begun /\ item.turn \in Nat
      <4>1. \A item \in Items(ctx) : item \in Item
        BY DEF Items, Rest
      <4>2. \A item \in Item : item.turn \in Nat
        BY TurnsAreNumbers DEF Item
      <4>3. QED
        BY <3>2, <4>1, <4>2 DEF Orderly
    <3>7. \A item \in Items(ctx) : item.turn <= t /\ item.turn # t
      BY <3>1, <3>5, <3>6
    <3>8. \A u \in Turn : u # t => ~ NotYet(u)' /\ pc'[u] \notin Working
      BY <3>2, <3>4 DEF NotYet, BeforeWrite, Working
    <3>9. \A u \in Turn : pc'[u] # "merging"
      BY <3>4, <3>8 DEF Working
    <3>10. Orderly'
      BY <3>1, <3>2, <3>7, <3>8, <3>9 DEF Orderly
    <3>11. \A u \in Turn : Written(u)' => Written(u)
      BY <3>1, <3>4, <3>5 DEF Written
    <3>12. Covering'
      BY <3>1, <3>2, <3>9, <3>11 DEF Covering
    <3>13. QED
      BY <3>10, <3>12
  <2>2. ASSUME NEW t \in Turn, Acts(t) PROVE Orderly' /\ Covering'
    BY <2>2, ResultsStep
  <2>3. CASE Delete \/ ContextExpires
    <3>1. /\ ctx' = <<>> /\ (before' = 1..begun \/ expired' = 1..begun)
          /\ UNCHANGED <<begun, pc, kind, branch, calls, existing, told, overlapped>>
      BY <2>3 DEF Delete, ContextExpires, local
    <3>2. \A u \in Turn : ~ Written(u)'
      <4>1. \A u \in Turn : pc[u] = "new" \/ u \in before' \cup expired'
        BY <3>1, TurnsAreNumbers DEF Flow, Begun, Typed
      <4>2. \A u \in Turn : pc[u] = "new" => told[u] # "done"
        BY DEF Flow, Begun
      <4>3. QED
        BY <3>1, <4>1, <4>2 DEF Written
    <3>3. Covering'
      BY <3>2 DEF Covering
    <3>4. Orderly'
      BY <2>0, <3>1 DEF Orderly, NotYet
    <3>5. QED
      BY <3>3, <3>4
  <2>4. CASE UNCHANGED vars
    <3>1. UNCHANGED <<ctx, begun, pc, kind, branch, calls, existing, told, overlapped,
                      unsaved, before, expired>>
      BY <2>4 DEF vars, store, local, ghosts
    <3>2. QED
      BY <3>1 DEF Orderly, Covering, NotYet, Written
  <2>5. QED
    BY <2>1, <2>2, <2>3, <2>4 DEF Next, Acts
<1>3. QED
  BY <1>1, <1>2, TypedHolds, RestHolds, FlowHolds, CallsFlowHolds, PTL DEF Spec

\* For any number of requests and calls, any size of the tool context and any
\* faults: what a turn that was told done found out is stored, or something as
\* new of the same call is, or only newer results.
THEOREM ResultsStay == Spec => []ResultsKept
<1>1. Covering => ResultsKept
  BY DEF Covering, ResultsKept, Told, Written, Covered
<1>2. QED
  BY <1>1, ResultsHold, PTL

=============================================================================
