------------------------- MODULE ChatSessionProofs -------------------------
(***************************************************************************)
(* Proofs about ChatSession, for any sets of requests and action ids and   *)
(* any bounds: type correctness, mutual exclusion of turns, the paths out  *)
(* of the handlers, what the client saw completed, an order placed once,   *)
(* an answer stored once, and the refinement of SerialTurns.               *)
(***************************************************************************)
EXTENDS ChatSession, SequenceTheorems, FiniteSetTheorems, TLAPS

USE DEF vars, redis, inputs, local, background, budget, ghosts

-----------------------------------------------------------------------------
(* Types.                                                                   *)

\* Storing an answer, or failing to, keeps the history a sequence of messages.
LEMMA SaveAnswerType ==
    ASSUME TypeOK, NEW r \in Request, SaveAnswer(r)
    PROVE  history' \in Seq(Message) /\ saved' \in [Request -> BOOLEAN]
<1>1. Answer(r) \in Message
  BY DEF Answer, Message
<1>2. CASE captured[r] /\ ~saved[r]
  <2>1. history' = Append(history, Answer(r)) /\ saved' = [saved EXCEPT ![r] = TRUE]
    BY <1>2 DEF SaveAnswer
  <2>2. history' \in Seq(Message)
    BY <1>1, <2>1, AppendProperties DEF TypeOK
  <2>3. QED
    BY <2>1, <2>2 DEF TypeOK
<1>3. CASE ~(captured[r] /\ ~saved[r])
  BY <1>3 DEF SaveAnswer, TypeOK
<1>4. QED
  BY <1>2, <1>3

LEMMA SaveRaisesType ==
    ASSUME TypeOK, NEW r \in Request, NEW m \in Message, SaveRaises(r, m)
    PROVE  history' \in Seq(Message) /\ replyLost' \subseteq Request
<1>1. CASE UNCHANGED <<history, replyLost>>
  BY <1>1 DEF TypeOK
<1>2. CASE history' = Append(history, m) /\ replyLost' = replyLost \cup {r}
  BY <1>2, AppendProperties DEF TypeOK
<1>3. QED
  BY <1>1, <1>2 DEF SaveRaises

LEMMA HarmType ==
    ASSUME TypeOK, NEW r \in Request, Harm(r)
    PROVE  /\ faults' \in Nat /\ lapses' \in Nat /\ deletes' \in Nat
           /\ overruns' \in Nat /\ aborts' \in Nat /\ lost' \subseteq Request
           /\ harmed' \subseteq Request /\ deletedSince' \subseteq Request
           /\ toldAborted' \subseteq Request
BY DEF TypeOK, Harm

LEMMA SaveAdriftType ==
    ASSUME TypeOK, NEW r \in Request, SaveAdrift(r)
    PROVE  adrift' \in [Request -> Nat] /\ replyLost' \subseteq Request
<1>1. CASE UNCHANGED <<adrift, replyLost>>
  BY <1>1 DEF TypeOK
<1>2. CASE adrift' = [adrift EXCEPT ![r] = @ + 1] /\ replyLost' = replyLost \cup {r}
  BY <1>2 DEF TypeOK
<1>3. QED
  BY <1>1, <1>2 DEF SaveAdrift

LEMMA UnlockType ==
    ASSUME TypeOK, NEW r \in Request, Unlock(r)
    PROVE  lock' \in Request \cup {Free} /\ lost' \subseteq Request
BY DEF TypeOK, Unlock

LEMMA InvokeToolType ==
    ASSUME TypeOK, NEW r \in Request, InvokeTool(r)
    PROVE  placed' \in [ActionId -> Nat]
<1>1. CASE placed' = [placed EXCEPT ![actionId[r]] = @ + 1]
  BY <1>1 DEF TypeOK
<1>2. CASE UNCHANGED placed
  BY <1>2 DEF TypeOK
<1>3. QED
  BY <1>1, <1>2 DEF InvokeTool

\* Every variable keeps its type.
LEMMA TypeCorrect == Spec => []TypeOK
<1> USE RequestAssumption, BoundsAssumption DEF TypeOK, Place, Before, Holding,
        StreamPlaces, OrderPlaces, After, Message, Told
<1>1. Init => TypeOK
  <2> SUFFICES ASSUME Init PROVE TypeOK
    OBVIOUS
  <2>1. history \in Seq(Message)
    BY EmptySeq DEF Init
  <2>2. /\ kind \in [Request -> Kinds] /\ actionId \in [Request -> ActionId]
        /\ pc \in [Request -> Place] /\ outcome \in [Request -> Told]
        /\ chunks \in [Request -> Nat] /\ captured \in [Request -> BOOLEAN]
        /\ saved \in [Request -> BOOLEAN] /\ placed \in [ActionId -> Nat]
        /\ adrift \in [Request -> Nat]
    BY DEF Init
  <2>3. /\ lock \in Request \cup {Free} /\ abortKey \in BOOLEAN
        /\ dedup \subseteq ActionId /\ aborting \in Request \cup {Free}
        /\ faults \in Nat /\ lapses \in Nat /\ deletes \in Nat
        /\ overruns \in Nat /\ aborts \in Nat /\ lost \subseteq Request
    BY DEF Init
  <2>4. /\ cut \subseteq Request /\ pendingSave \subseteq Request
        /\ harmed \subseteq Request /\ replyLost \subseteq Request
        /\ deletedSince \subseteq Request /\ toldAborted \subseteq Request
    BY DEF Init
  <2>5. QED
    BY <2>1, <2>2, <2>3, <2>4
<1>2. TypeOK /\ [Next]_vars => TypeOK'
  <2> SUFFICES ASSUME TypeOK, [Next]_vars PROVE TypeOK'
    OBVIOUS
  <2>1. ASSUME NEW r \in Request, SaveUser(r) PROVE TypeOK'
    <3>1. UserMessage(r) \in Message
      BY DEF UserMessage
    <3>2. history' \in Seq(Message)
      BY <2>1, <3>1, AppendProperties DEF SaveUser
    <3>3. pc' \in [Request -> Place]
      BY <2>1 DEF SaveUser, Goto
    <3>4. QED
      BY <2>1, <3>2, <3>3 DEF SaveUser
  <2>2. ASSUME NEW r \in Request, ReadHistory(r) PROVE TypeOK'
    BY <2>2 DEF ReadHistory, Goto
  <2>3. ASSUME NEW r \in Request, Acquire(r) PROVE TypeOK'
    BY <2>3 DEF Acquire, Goto
  <2>4. ASSUME NEW r \in Request, Busy(r) PROVE TypeOK'
    BY <2>4 DEF Busy, Finish, Goto, Tell
  <2>5. ASSUME NEW r \in Request, AppendMessage(r) PROVE TypeOK'
    <3>1. UserMessage(r) \in Message
      BY DEF UserMessage
    <3>2. history' \in Seq(Message)
      BY <2>5, <3>1, AppendProperties DEF AppendMessage
    <3>3. pc' \in [Request -> Place]
      BY <2>5 DEF AppendMessage, Finish, Goto
    <3>4. outcome' \in [Request -> Told]
      BY <2>5 DEF AppendMessage, Finish, Tell
    <3>5. QED
      BY <2>5, <3>2, <3>3, <3>4 DEF AppendMessage
  <2>6. ASSUME NEW r \in Request, StartStream(r) PROVE TypeOK'
    BY <2>6 DEF StartStream, Goto
  <2>7. ASSUME NEW r \in Request, Chunk(r) PROVE TypeOK'
    <3>1. chunks' \in [Request -> Nat]
      BY <2>7 DEF Chunk
    <3>2. PICK answer \in BOOLEAN : captured' = [captured EXCEPT ![r] = @ \/ answer]
      BY <2>7 DEF Chunk
    <3>3. captured' \in [Request -> BOOLEAN]
      BY <3>2
    <3>4. QED
      BY <2>7, <3>1, <3>3 DEF Chunk
  <2>8. ASSUME NEW r \in Request, LastChunk(r) PROVE TypeOK'
    BY <2>8 DEF LastChunk, Goto
  <2>9. ASSUME NEW r \in Request, AbortSeen(r) PROVE TypeOK'
    BY <2>9 DEF AbortSeen, Goto, Tell
  <2>10. ASSUME NEW r \in Request, TurnRaises(r) PROVE TypeOK'
    BY <2>10 DEF TurnRaises, Goto, Tell
  <2>11. ASSUME NEW r \in Request, SaveBeforeDone(r) PROVE TypeOK'
    BY <2>11, SaveAnswerType DEF SaveBeforeDone, Goto
  <2>12. ASSUME NEW r \in Request, SendDone(r) PROVE TypeOK'
    BY <2>12 DEF SendDone, Goto, Tell
  <2>13. ASSUME NEW r \in Request, CleanupSave(r) PROVE TypeOK'
    BY <2>13, SaveAnswerType DEF CleanupSave, Goto
  <2>14. ASSUME NEW r \in Request, Release(r) PROVE TypeOK'
    BY <2>14, UnlockType DEF Release, Goto
  <2>15. ASSUME NEW r \in Request, SyncAnswered(r) PROVE TypeOK'
    BY <2>15 DEF SyncAnswered, Goto
  <2>16. ASSUME NEW r \in Request, SyncUnlock(r) PROVE TypeOK'
    BY <2>16, UnlockType DEF SyncUnlock, Finish, Goto, Tell
  <2>17. ASSUME NEW r \in Request, SyncSave(r) PROVE TypeOK'
    BY <2>17, SaveAnswerType DEF SyncSave, Finish, Goto, Tell
  <2>18. ASSUME NEW r \in Request, CheckDedup(r) PROVE TypeOK'
    BY <2>18 DEF CheckDedup, Goto
  <2>19. ASSUME NEW r \in Request, RefuseDuplicate(r) PROVE TypeOK'
    BY <2>19, UnlockType DEF RefuseDuplicate, Finish, Goto, Tell
  <2>20. ASSUME NEW r \in Request, NoteOrder(r) PROVE TypeOK'
    <3>1. UserMessage(r) \in Message
      BY DEF UserMessage
    <3>2. history' \in Seq(Message)
      BY <2>20, <3>1, AppendProperties DEF NoteOrder
    <3>3. pc' \in [Request -> Place]
      BY <2>20 DEF NoteOrder, Goto
    <3>4. QED
      BY <2>20, <3>2, <3>3 DEF NoteOrder
  <2>21. ASSUME NEW r \in Request, ValidateOrder(r) PROVE TypeOK'
    BY <2>21 DEF ValidateOrder, Goto
  <2>22. ASSUME NEW r \in Request, PlaceOrder(r) PROVE TypeOK'
    BY <2>22, InvokeToolType DEF PlaceOrder, Goto
  <2>23. ASSUME NEW r \in Request, AnswerOrder(r) PROVE TypeOK'
    BY <2>23 DEF AnswerOrder, Goto
  <2>24. ASSUME NEW r \in Request, SendOrderDone(r) PROVE TypeOK'
    BY <2>24 DEF SendOrderDone, Goto, Tell
  <2>25. ASSUME NEW r \in Request, CloseOrder(r) PROVE TypeOK'
    BY <2>25, UnlockType DEF CloseOrder, Goto
  <2>26. ASSUME NEW r \in Request, CutShort(r) PROVE TypeOK'
    <3>1. adrift' \in [Request -> Nat] /\ replyLost' \subseteq Request
      BY <2>26, SaveAdriftType DEF CutShort
    <3>2. lock' \in Request \cup {Free} /\ lost' \subseteq Request
      BY <2>26, UnlockType DEF CutShort
    <3>3. QED
      BY <2>26, <3>1, <3>2 DEF CutShort, Goto
  <2>27. ASSUME NEW r \in Request, BackgroundSave(r) PROVE TypeOK'
    BY <2>27, SaveAnswerType DEF BackgroundSave
  <2>28. ASSUME NEW r \in Request, SaveFails(r) PROVE TypeOK'
    <3>1. Answer(r) \in Message /\ UserMessage(r) \in Message
      BY DEF Answer, UserMessage
    <3>2. history' \in Seq(Message) /\ replyLost' \subseteq Request
      BY <2>28, <3>1, SaveRaisesType DEF SaveFails
    <3>3. \E place \in {"ended", "cleanup"} : Goto(r, place)
      BY <2>28 DEF SaveFails, Finish
    <3>4. pc' \in [Request -> Place]
      BY <3>3 DEF Goto
    <3>5. Tell(r, "error") \/ UNCHANGED outcome
      BY <2>28 DEF SaveFails, Finish
    <3>6. outcome' \in [Request -> Told]
      BY <3>5 DEF Tell
    <3>7. QED
      BY <2>28, <3>2, <3>4, <3>6, HarmType DEF SaveFails
  <2>29. ASSUME NEW r \in Request, UnlockFails(r) PROVE TypeOK'
    <3>1. pc' \in [Request -> Place]
      BY <2>29 DEF UnlockFails, Goto
    <3>2. outcome' \in [Request -> Told]
      BY <2>29 DEF UnlockFails, Tell
    <3>3. QED
      BY <2>29, <3>1, <3>2, HarmType DEF UnlockFails
  <2>30. ASSUME NEW r \in Request, ClientGone(r) PROVE TypeOK'
    <3>1. pc' \in [Request -> Place]
      BY <2>30 DEF ClientGone, Goto, ToFinally
    <3>2. outcome' \in [Request -> Told]
      BY <2>30 DEF ClientGone, Tell
    <3>3. QED
      BY <2>30, <3>1, <3>2, HarmType DEF ClientGone
  <2>40. ASSUME NEW r \in Request, ClientGoneInAwait(r) PROVE TypeOK'
    <3>1. pc' \in [Request -> Place] /\ cut' \subseteq Request
      BY <2>40 DEF ClientGoneInAwait, Goto, ToFinally
    <3>2. outcome' \in [Request -> Told]
      BY <2>40 DEF ClientGoneInAwait, Tell
    <3>3. adrift' \in [Request -> Nat] /\ replyLost' \subseteq Request
      BY <2>40, SaveAdriftType DEF ClientGoneInAwait
    <3>4. placed' \in [ActionId -> Nat]
      BY <2>40, InvokeToolType DEF ClientGoneInAwait
    <3>5. QED
      BY <2>40, <3>1, <3>2, <3>3, <3>4, HarmType DEF ClientGoneInAwait
  <2>41. ASSUME NEW r \in Request, ThreadSaves(r) PROVE TypeOK'
    <3>1. Answer(r) \in Message
      BY DEF Answer
    <3>2. history' \in Seq(Message)
      <4>1. CASE history' = Append(history, Answer(r))
        BY <3>1, <4>1, AppendProperties
      <4>2. CASE UNCHANGED history
        BY <4>2
      <4>3. QED
        BY <2>41, <4>1, <4>2 DEF ThreadSaves
    <3>3. adrift' \in [Request -> Nat]
      BY <2>41 DEF ThreadSaves
    <3>4. QED
      BY <2>41, <3>2, <3>3 DEF ThreadSaves
  <2>31. ASSUME NEW r \in Request, WorkerDies(r) PROVE TypeOK'
    <3>1. pc' \in [Request -> Place] /\ adrift' \in [Request -> Nat]
      BY <2>31 DEF WorkerDies, Goto
    <3>2. outcome' \in [Request -> Told]
      BY <2>31 DEF WorkerDies, Tell
    <3>3. QED
      BY <2>31, <3>1, <3>2, HarmType DEF WorkerDies
  <2>32. CASE AbortAsked
    BY <2>32 DEF AbortAsked
  <2>33. CASE AbortSet
    BY <2>33 DEF AbortSet
  <2>34. CASE DeleteSession
    BY <2>34 DEF DeleteSession
  <2>35. CASE LockExpires
    <3>1. overruns' \in Nat /\ lost' \subseteq Request /\ lock' \in Request \cup {Free}
      BY <2>35 DEF LockExpires
    <3>2. QED
      BY <2>35, <3>1 DEF LockExpires
  <2>36. CASE AbortExpires
    BY <2>36 DEF AbortExpires
  <2>37. ASSUME NEW a \in ActionId, DedupExpires(a) PROVE TypeOK'
    <3>1. dedup' \subseteq ActionId /\ lapses' \in Nat
      BY <2>37 DEF DedupExpires
    <3>2. QED
      BY <2>37, <3>1 DEF DedupExpires
  <2>38. CASE UNCHANGED vars
    BY <2>38
  <2>39. QED
    BY <2>1, <2>2, <2>3, <2>4, <2>5, <2>6, <2>7, <2>8, <2>9, <2>10, <2>11, <2>12, <2>13, <2>14, <2>15, <2>16, <2>17, <2>18, <2>19, <2>20, <2>21, <2>22, <2>23, <2>24, <2>25, <2>26, <2>27, <2>28, <2>29, <2>30, <2>31, <2>32, <2>33, <2>34, <2>35, <2>36, <2>37, <2>38, <2>40, <2>41
       DEF Next, Handle, Fault
<1>3. QED
  BY <1>1, <1>2, PTL DEF Spec

-----------------------------------------------------------------------------
(* Places.  Each handler stays in its own places, only an order saves in the *)
(* background, assistant_saved is set by a save, a thread that nobody awaits *)
(* belongs to a stream whose handler was cancelled, and only a request that  *)
(* has locked the session can lose it.                                       *)

Started == {"saved", "cleanup", "releasing", "ended"}
PlaceOf(r) ==
    /\ pc[r] \in {"answering", "unlocking", "unsaved"} => kind[r] = "sync"
    /\ pc[r] \in OrderPlaces => kind[r] = "order"
    /\ pc[r] \in StreamPlaces => kind[r] = "stream"
    /\ r \in pendingSave => kind[r] = "order" /\ pc[r] = "ended"
    /\ saved[r] => pc[r] \in Started
    /\ r \in lost => pc[r] \notin Before
AdriftOf(r) ==
    adrift[r] > 0 =>
        /\ kind[r] = "stream" /\ r \in replyLost
        /\ pc[r] \in {"cleanup", "ended"}
        /\ pc[r] = "cleanup" => r \in cut /\ captured[r] /\ ~saved[r]
Places == \A r \in Request : PlaceOf(r) /\ AdriftOf(r)

LEMMA SaveAnswerFlags ==
    ASSUME TypeOK, NEW r \in Request, SaveAnswer(r)
    PROVE  /\ saved' \in [Request -> BOOLEAN]
           /\ \A q \in Request : saved[q] => saved'[q]
           /\ \A q \in Request \ {r} : saved'[q] = saved[q]
<1>1. CASE captured[r] /\ ~saved[r]
  BY <1>1 DEF SaveAnswer, TypeOK
<1>2. CASE ~(captured[r] /\ ~saved[r])
  BY <1>2 DEF SaveAnswer, TypeOK
<1>3. QED
  BY <1>1, <1>2

\* Who loses the session had it.
LEMMA UnlockLoses ==
    ASSUME Places, NEW r \in Request, Unlock(r), NEW s \in Request, s \in lost'
    PROVE  s \in lost \/ (s # r /\ pc[s] \notin Before)
BY DEF Places, PlaceOf, AdriftOf, Unlock, AtWork, Holding, StreamPlaces, OrderPlaces, Before

LEMMA PlacesHold == Spec => []Places
<1> USE DEF Places, PlaceOf, AdriftOf, Started, OrderPlaces, StreamPlaces, Before
<1>1. Init => Places
  BY DEF Init
<1>2. TypeOK /\ Places /\ [Next]_vars => Places'
  <2> SUFFICES ASSUME TypeOK, Places, [Next]_vars PROVE Places'
    OBVIOUS
  <2>0. /\ pc \in [Request -> Place] /\ saved \in [Request -> BOOLEAN]
        /\ captured \in [Request -> BOOLEAN] /\ adrift \in [Request -> Nat]
        /\ pendingSave \subseteq Request /\ lost \subseteq Request
    BY DEF TypeOK
  <2>1. ASSUME NEW r \in Request, SaveUser(r) PROVE Places'
    BY <2>0, <2>1 DEF SaveUser, Goto
  <2>2. ASSUME NEW r \in Request, ReadHistory(r) PROVE Places'
    BY <2>0, <2>2 DEF ReadHistory, Goto
  <2>3. ASSUME NEW r \in Request, Acquire(r) PROVE Places'
    BY <2>0, <2>3 DEF Acquire, Goto
  <2>4. ASSUME NEW r \in Request, Busy(r) PROVE Places'
    BY <2>0, <2>4 DEF Busy, Finish, Goto, Tell
  <2>5. ASSUME NEW r \in Request, AppendMessage(r) PROVE Places'
    BY <2>0, <2>5 DEF AppendMessage, Finish, Goto, Tell
  <2>6. ASSUME NEW r \in Request, StartStream(r) PROVE Places'
    BY <2>0, <2>6 DEF StartStream, Goto
  <2>7. ASSUME NEW r \in Request, Chunk(r) PROVE Places'
    BY <2>0, <2>7 DEF Chunk
  <2>8. ASSUME NEW r \in Request, LastChunk(r) PROVE Places'
    BY <2>0, <2>8 DEF LastChunk, Goto
  <2>9. ASSUME NEW r \in Request, AbortSeen(r) PROVE Places'
    BY <2>0, <2>9 DEF AbortSeen, Goto, Tell
  <2>10. ASSUME NEW r \in Request, TurnRaises(r) PROVE Places'
    BY <2>0, <2>10 DEF TurnRaises, Goto, Tell
  <2>11. ASSUME NEW r \in Request, SaveBeforeDone(r) PROVE Places'
    <3>1. ASSUME NEW q \in Request PROVE PlaceOf(q)'
      BY <2>0, <2>11, SaveAnswerFlags DEF SaveBeforeDone, Goto
    <3>2. ASSUME NEW q \in Request PROVE AdriftOf(q)'
      BY <2>0, <2>11, SaveAnswerFlags DEF SaveBeforeDone, Goto
    <3>3. QED
      BY <3>1, <3>2 DEF Places
  <2>12. ASSUME NEW r \in Request, SendDone(r) PROVE Places'
    BY <2>0, <2>12 DEF SendDone, Goto, Tell
  <2>13. ASSUME NEW r \in Request, CleanupSave(r) PROVE Places'
    <3>1. ASSUME NEW q \in Request PROVE PlaceOf(q)'
      BY <2>0, <2>13, SaveAnswerFlags DEF CleanupSave, Goto
    <3>2. ASSUME NEW q \in Request PROVE AdriftOf(q)'
      BY <2>0, <2>13, SaveAnswerFlags DEF CleanupSave, Goto
    <3>3. QED
      BY <3>1, <3>2 DEF Places
  <2>14. ASSUME NEW r \in Request, Release(r) PROVE Places'
    <3>1. ASSUME NEW q \in Request PROVE PlaceOf(q)'
      BY <2>0, <2>14, UnlockLoses DEF Release, Goto
    <3>2. ASSUME NEW q \in Request PROVE AdriftOf(q)'
      BY <2>0, <2>14, UnlockLoses DEF Release, Goto
    <3>3. QED
      BY <3>1, <3>2 DEF Places
  <2>15. ASSUME NEW r \in Request, SyncAnswered(r) PROVE Places'
    BY <2>0, <2>15 DEF SyncAnswered, Goto
  <2>16. ASSUME NEW r \in Request, SyncUnlock(r) PROVE Places'
    <3>1. ASSUME NEW q \in Request PROVE PlaceOf(q)'
      BY <2>0, <2>16, UnlockLoses DEF SyncUnlock, Finish, Goto
    <3>2. ASSUME NEW q \in Request PROVE AdriftOf(q)'
      BY <2>0, <2>16, UnlockLoses DEF SyncUnlock, Finish, Goto
    <3>3. QED
      BY <3>1, <3>2 DEF Places
  <2>17. ASSUME NEW r \in Request, SyncSave(r) PROVE Places'
    <3>1. ASSUME NEW q \in Request PROVE PlaceOf(q)'
      BY <2>0, <2>17, SaveAnswerFlags DEF SyncSave, Finish, Goto, Tell
    <3>2. ASSUME NEW q \in Request PROVE AdriftOf(q)'
      BY <2>0, <2>17, SaveAnswerFlags DEF SyncSave, Finish, Goto, Tell
    <3>3. QED
      BY <3>1, <3>2 DEF Places
  <2>18. ASSUME NEW r \in Request, CheckDedup(r) PROVE Places'
    BY <2>0, <2>18 DEF CheckDedup, Goto
  <2>19. ASSUME NEW r \in Request, RefuseDuplicate(r) PROVE Places'
    <3>1. ASSUME NEW q \in Request PROVE PlaceOf(q)'
      BY <2>0, <2>19, UnlockLoses DEF RefuseDuplicate, Finish, Goto
    <3>2. ASSUME NEW q \in Request PROVE AdriftOf(q)'
      BY <2>0, <2>19, UnlockLoses DEF RefuseDuplicate, Finish, Goto
    <3>3. QED
      BY <3>1, <3>2 DEF Places
  <2>20. ASSUME NEW r \in Request, NoteOrder(r) PROVE Places'
    BY <2>0, <2>20 DEF NoteOrder, Goto
  <2>21. ASSUME NEW r \in Request, ValidateOrder(r) PROVE Places'
    BY <2>0, <2>21 DEF ValidateOrder, Goto
  <2>22. ASSUME NEW r \in Request, PlaceOrder(r) PROVE Places'
    BY <2>0, <2>22 DEF PlaceOrder, Goto
  <2>23. ASSUME NEW r \in Request, AnswerOrder(r) PROVE Places'
    BY <2>0, <2>23 DEF AnswerOrder, Goto
  <2>24. ASSUME NEW r \in Request, SendOrderDone(r) PROVE Places'
    BY <2>0, <2>24 DEF SendOrderDone, Goto, Tell
  <2>25. ASSUME NEW r \in Request, CloseOrder(r) PROVE Places'
    <3>1. ASSUME NEW q \in Request PROVE PlaceOf(q)'
      BY <2>0, <2>25, UnlockLoses DEF CloseOrder, Goto
    <3>2. ASSUME NEW q \in Request PROVE AdriftOf(q)'
      BY <2>0, <2>25, UnlockLoses DEF CloseOrder, Goto
    <3>3. QED
      BY <3>1, <3>2 DEF Places
  <2>26. ASSUME NEW r \in Request, CutShort(r) PROVE Places'
    <3>0. /\ pc' = [pc EXCEPT ![r] = "ended"] /\ r \in cut
          /\ pc[r] \in {"cleanup", "releasing", "closing"}
          /\ UNCHANGED <<kind, pendingSave, saved, captured, cut>>
      BY <2>26 DEF CutShort, Goto
    <3>a. \A s \in Request : s \in lost' => s \in lost \/ (s # r /\ pc[s] \notin Before)
      BY <2>26, UnlockLoses DEF CutShort
    <3>b. \/ UNCHANGED <<adrift, replyLost>>
          \/ /\ pc[r] = "cleanup" /\ captured[r] /\ ~saved[r]
             /\ adrift' = [adrift EXCEPT ![r] = @ + 1] /\ replyLost' = replyLost \cup {r}
      BY <2>26 DEF CutShort, SaveAdrift
    <3>1. ASSUME NEW q \in Request PROVE PlaceOf(q)'
      BY <2>0, <3>0, <3>a
    <3>2. ASSUME NEW q \in Request PROVE AdriftOf(q)'
      BY <2>0, <3>0, <3>b
    <3>3. QED
      BY <3>1, <3>2 DEF Places
  <2>27. ASSUME NEW r \in Request, BackgroundSave(r) PROVE Places'
    <3>1. ASSUME NEW q \in Request PROVE PlaceOf(q)'
      BY <2>0, <2>27, SaveAnswerFlags DEF BackgroundSave
    <3>2. ASSUME NEW q \in Request PROVE AdriftOf(q)'
      BY <2>0, <2>27, SaveAnswerFlags DEF BackgroundSave
    <3>3. QED
      BY <3>1, <3>2 DEF Places
  <2>28. ASSUME NEW r \in Request, ThreadSaves(r) PROVE Places'
    BY <2>0, <2>28 DEF ThreadSaves
  <2>29. ASSUME NEW r \in Request, SaveFails(r) PROVE Places'
    <3>0. /\ UNCHANGED <<kind, pendingSave, saved, captured, cut, adrift, lost>>
          /\ replyLost \subseteq replyLost'
      BY <2>29, Zenon DEF SaveFails, Harm, SaveRaises
    <3>1. Goto(r, "ended") \/ (Goto(r, "cleanup") /\ pc[r] = "saving")
      BY ONLY <2>29, Zenon DEF SaveFails, Finish
    <3>2. QED
      BY <2>0, <3>0, <3>1 DEF Goto
  <2>30. ASSUME NEW r \in Request, UnlockFails(r) PROVE Places'
    BY <2>0, <2>30 DEF UnlockFails, Harm, Goto, Tell
  <2>31. ASSUME NEW r \in Request, ClientGone(r) PROVE Places'
    BY <2>0, <2>31 DEF ClientGone, AtYield, ToFinally, Harm, Goto, Tell
  <2>32. ASSUME NEW r \in Request, ClientGoneInAwait(r) PROVE Places'
    BY <2>0, <2>32 DEF ClientGoneInAwait, InAwait, ToFinally, SaveAdrift, Harm, Goto, Tell
  <2>33. ASSUME NEW r \in Request, WorkerDies(r) PROVE Places'
    BY <2>0, <2>33 DEF WorkerDies, Harm, Goto, Tell
  <2>34. CASE AbortAsked
    BY <2>0, <2>34 DEF AbortAsked
  <2>35. CASE AbortSet
    BY <2>0, <2>35 DEF AbortSet
  <2>36. CASE DeleteSession
    BY <2>0, <2>36 DEF DeleteSession
  <2>37. CASE LockExpires
    <3>1. UNCHANGED <<pc, kind, pendingSave, saved, captured, cut, adrift, replyLost>>
      BY <2>37 DEF LockExpires
    <3>2. ASSUME NEW s \in lost' PROVE s \in lost \/ (s \in Request => pc[s] \notin Before)
      BY <2>37 DEF LockExpires, AtWork, Holding
    <3>3. QED
      BY <2>0, <3>1, <3>2
  <2>38. CASE AbortExpires
    BY <2>0, <2>38 DEF AbortExpires
  <2>39. ASSUME NEW a \in ActionId, DedupExpires(a) PROVE Places'
    BY <2>0, <2>39 DEF DedupExpires
  <2>40. CASE UNCHANGED vars
    BY <2>0, <2>40
  <2>41. QED
    BY <2>1, <2>2, <2>3, <2>4, <2>5, <2>6, <2>7, <2>8, <2>9, <2>10, <2>11, <2>12,
       <2>13, <2>14, <2>15, <2>16, <2>17, <2>18, <2>19, <2>20, <2>21, <2>22, <2>23,
       <2>24, <2>25, <2>26, <2>27, <2>28, <2>29, <2>30, <2>31, <2>32, <2>33, <2>34,
       <2>35, <2>36, <2>37, <2>38, <2>39, <2>40
       DEF Next, Handle, Fault
<1>3. QED
  BY <1>1, <1>2, TypeCorrect, PTL DEF Spec

-----------------------------------------------------------------------------
(* Mutual exclusion.  OneTurnAtATime says nothing of the lock, so it is not  *)
(* inductive; what each step keeps is that a request at work either is the   *)
(* one the key stands for or has lost it.                                    *)

\* What a step can do to the key: leave it, set it when it is free, delete it
\* for a request that leaves the session, or let it expire.  Only the second
\* brings a request to work.
NoneBegins(S) == \A q \in S : AtWork(q)' => AtWork(q)
Expiry ==
    /\ lock \in Request /\ lock' = Free
    /\ IF AtWork(lock) THEN overruns' = overruns + 1 /\ lost' = lost \cup {lock}
                       ELSE overruns' = overruns /\ lost' = lost
KeyStep ==
    \/ UNCHANGED <<lock, lost, overruns>> /\ NoneBegins(Request)
    \/ \E r \in Request :
          /\ lock = Free /\ lock' = r /\ UNCHANGED <<lost, overruns>>
          /\ NoneBegins(Request \ {r})
    \/ \E r \in Request :
          /\ pc[r] \in Holding /\ Unlock(r) /\ overruns' = overruns
          /\ ~AtWork(r)' /\ NoneBegins(Request)
    \/ Expiry /\ NoneBegins(Request)

LEMMA EveryStepKeeps == TypeOK /\ Places /\ [Next]_vars => KeyStep
<1> SUFFICES ASSUME TypeOK, Places, [Next]_vars PROVE KeyStep
  OBVIOUS
<1> USE RequestAssumption DEF KeyStep, NoneBegins, AtWork, Holding, StreamPlaces, OrderPlaces
<1>0. pc \in [Request -> Place] /\ adrift \in [Request -> Nat] /\ lock \in Request \cup {Free}
  BY DEF TypeOK
<1>00. \A r \in Request : adrift[r] > 0 =>
         /\ pc[r] \in {"cleanup", "ended"}
         /\ pc[r] = "cleanup" => r \in cut /\ captured[r] /\ ~saved[r]
  BY DEF Places, AdriftOf
<1>1. ASSUME NEW r \in Request, SaveUser(r) PROVE KeyStep
  BY <1>0, <1>00, <1>1 DEF SaveUser, Goto
<1>2. ASSUME NEW r \in Request, ReadHistory(r) PROVE KeyStep
  BY <1>0, <1>00, <1>2 DEF ReadHistory, Goto
<1>3. ASSUME NEW r \in Request, Acquire(r) PROVE KeyStep
  BY <1>0, <1>00, <1>3 DEF Acquire, Goto
<1>4. ASSUME NEW r \in Request, Busy(r) PROVE KeyStep
  BY <1>0, <1>00, <1>4 DEF Busy, Finish, Goto, Tell
<1>5. ASSUME NEW r \in Request, AppendMessage(r) PROVE KeyStep
  BY <1>0, <1>00, <1>5 DEF AppendMessage, Finish, Goto, Tell
<1>6. ASSUME NEW r \in Request, StartStream(r) PROVE KeyStep
  BY <1>0, <1>00, <1>6 DEF StartStream, Goto
<1>7. ASSUME NEW r \in Request, Chunk(r) PROVE KeyStep
  BY <1>0, <1>00, <1>7 DEF Chunk
<1>8. ASSUME NEW r \in Request, LastChunk(r) PROVE KeyStep
  BY <1>0, <1>00, <1>8 DEF LastChunk, Goto
<1>9. ASSUME NEW r \in Request, AbortSeen(r) PROVE KeyStep
  BY <1>0, <1>00, <1>9 DEF AbortSeen, Goto, Tell
<1>10. ASSUME NEW r \in Request, TurnRaises(r) PROVE KeyStep
  BY <1>0, <1>00, <1>10 DEF TurnRaises, Goto, Tell
<1>11. ASSUME NEW r \in Request, SaveBeforeDone(r) PROVE KeyStep
  BY <1>0, <1>00, <1>11 DEF SaveBeforeDone, Goto
<1>12. ASSUME NEW r \in Request, SendDone(r) PROVE KeyStep
  BY <1>0, <1>00, <1>12 DEF SendDone, Goto, Tell
<1>13. ASSUME NEW r \in Request, CleanupSave(r) PROVE KeyStep
  BY <1>0, <1>00, <1>13 DEF CleanupSave, Goto
<1>14. ASSUME NEW r \in Request, Release(r) PROVE KeyStep
  <2>1. pc[r] \in Holding /\ Unlock(r) /\ UNCHANGED <<adrift, overruns>> /\ adrift[r] = 0
    BY <1>0, <1>00, <1>14 DEF Release
  <2>2. pc'[r] \notin Holding /\ \A q \in Request \ {r} : pc'[q] = pc[q]
    BY <1>0, <1>00, <1>14 DEF Release, Goto
  <2>3. ~AtWork(r)'
    BY <2>1, <2>2
  <2>4. \A q \in Request : AtWork(q)' => AtWork(q)
    BY <2>1, <2>2
  <2>5. QED
    BY <2>1, <2>3, <2>4, Zenon
<1>15. ASSUME NEW r \in Request, SyncAnswered(r) PROVE KeyStep
  BY <1>0, <1>00, <1>15 DEF SyncAnswered, Goto
<1>16. ASSUME NEW r \in Request, SyncUnlock(r) PROVE KeyStep
  <2>1. pc[r] \in Holding /\ Unlock(r) /\ UNCHANGED <<adrift, overruns>> /\ adrift[r] = 0
    BY <1>0, <1>00, <1>16 DEF SyncUnlock
  <2>2. pc'[r] \notin Holding /\ \A q \in Request \ {r} : pc'[q] = pc[q]
    BY <1>0, <1>00, <1>16 DEF SyncUnlock, Finish, Goto, Tell
  <2>3. ~AtWork(r)'
    BY <2>1, <2>2
  <2>4. \A q \in Request : AtWork(q)' => AtWork(q)
    BY <2>1, <2>2
  <2>5. QED
    BY <2>1, <2>3, <2>4, Zenon
<1>17. ASSUME NEW r \in Request, SyncSave(r) PROVE KeyStep
  BY <1>0, <1>00, <1>17 DEF SyncSave, Finish, Goto, Tell
<1>18. ASSUME NEW r \in Request, CheckDedup(r) PROVE KeyStep
  BY <1>0, <1>00, <1>18 DEF CheckDedup, Goto
<1>19. ASSUME NEW r \in Request, RefuseDuplicate(r) PROVE KeyStep
  <2>1. pc[r] \in Holding /\ Unlock(r) /\ UNCHANGED <<adrift, overruns>> /\ adrift[r] = 0
    BY <1>0, <1>00, <1>19 DEF RefuseDuplicate
  <2>2. pc'[r] \notin Holding /\ \A q \in Request \ {r} : pc'[q] = pc[q]
    BY <1>0, <1>00, <1>19 DEF RefuseDuplicate, Finish, Goto, Tell
  <2>3. ~AtWork(r)'
    BY <2>1, <2>2
  <2>4. \A q \in Request : AtWork(q)' => AtWork(q)
    BY <2>1, <2>2
  <2>5. QED
    BY <2>1, <2>3, <2>4, Zenon
<1>20. ASSUME NEW r \in Request, NoteOrder(r) PROVE KeyStep
  BY <1>0, <1>00, <1>20 DEF NoteOrder, Goto
<1>21. ASSUME NEW r \in Request, ValidateOrder(r) PROVE KeyStep
  BY <1>0, <1>00, <1>21 DEF ValidateOrder, Goto
<1>22. ASSUME NEW r \in Request, PlaceOrder(r) PROVE KeyStep
  BY <1>0, <1>00, <1>22 DEF PlaceOrder, Goto
<1>23. ASSUME NEW r \in Request, AnswerOrder(r) PROVE KeyStep
  BY <1>0, <1>00, <1>23 DEF AnswerOrder, Goto
<1>24. ASSUME NEW r \in Request, SendOrderDone(r) PROVE KeyStep
  BY <1>0, <1>00, <1>24 DEF SendOrderDone, Goto, Tell
<1>25. ASSUME NEW r \in Request, CloseOrder(r) PROVE KeyStep
  <2>1. pc[r] \in Holding /\ Unlock(r) /\ UNCHANGED <<adrift, overruns>> /\ adrift[r] = 0
    BY <1>0, <1>00, <1>25 DEF CloseOrder
  <2>2. pc'[r] \notin Holding /\ \A q \in Request \ {r} : pc'[q] = pc[q]
    BY <1>0, <1>00, <1>25 DEF CloseOrder, Goto
  <2>3. ~AtWork(r)'
    BY <2>1, <2>2
  <2>4. \A q \in Request : AtWork(q)' => AtWork(q)
    BY <2>1, <2>2
  <2>5. QED
    BY <2>1, <2>3, <2>4, Zenon
<1>26. ASSUME NEW r \in Request, CutShort(r) PROVE KeyStep
  <2>1. /\ pc[r] \in Holding /\ pc'[r] \notin Holding /\ overruns' = overruns
        /\ \A q \in Request \ {r} : pc'[q] = pc[q] /\ adrift'[q] = adrift[q]
    BY <1>0, <1>00, <1>26 DEF CutShort, SaveAdrift, Goto
  <2>2. CASE UNCHANGED <<lock, lost>>
    BY <2>1, <2>2
  <2>3. CASE ~(pc[r] = "cleanup" /\ captured[r] /\ ~saved[r]) /\ Unlock(r)
    <3>1. adrift' = adrift
      BY <1>26, <2>3 DEF CutShort
    <3>2. adrift[r] = 0
      BY <1>0, <1>00, <2>1, <2>3, <1>26 DEF CutShort
    <3>3. ~AtWork(r)'
      BY <2>1, <3>1, <3>2, <1>0
    <3>4. \A q \in Request : AtWork(q)' => AtWork(q)
      BY <2>1, <3>1, <3>3
    <3>5. QED
      BY <2>1, <2>3, <3>3, <3>4, Zenon
  <2>4. QED
    BY <1>26, <2>2, <2>3 DEF CutShort
<1>27. ASSUME NEW r \in Request, BackgroundSave(r) PROVE KeyStep
  BY <1>0, <1>00, <1>27 DEF BackgroundSave
<1>28. ASSUME NEW r \in Request, ThreadSaves(r) PROVE KeyStep
  BY <1>0, <1>00, <1>28 DEF ThreadSaves
<1>29. ASSUME NEW r \in Request, SaveFails(r) PROVE KeyStep
  <2>1. UNCHANGED <<lock, lost, overruns, adrift>>
    BY <1>29 DEF SaveFails, Harm
  <2>2. Goto(r, "ended") \/ (Goto(r, "cleanup") /\ pc[r] = "saving")
    BY ONLY <1>29, Zenon DEF SaveFails, Finish
  <2>3. QED
    BY <1>0, <1>00, <2>1, <2>2 DEF Goto
<1>30. ASSUME NEW r \in Request, UnlockFails(r) PROVE KeyStep
  BY <1>0, <1>00, <1>30 DEF UnlockFails, Harm, Goto, Tell
<1>31. ASSUME NEW r \in Request, ClientGone(r) PROVE KeyStep
  BY <1>0, <1>00, <1>31 DEF ClientGone, AtYield, ToFinally, Harm, Goto, Tell
<1>32. ASSUME NEW r \in Request, ClientGoneInAwait(r) PROVE KeyStep
  BY <1>0, <1>00, <1>32 DEF ClientGoneInAwait, InAwait, ToFinally, SaveAdrift, Harm, Goto, Tell
<1>33. ASSUME NEW r \in Request, WorkerDies(r) PROVE KeyStep
  BY <1>0, <1>00, <1>33 DEF WorkerDies, Harm, Goto, Tell
<1>34. CASE AbortAsked
  BY <1>0, <1>00, <1>34 DEF AbortAsked
<1>35. CASE AbortSet
  BY <1>0, <1>00, <1>35 DEF AbortSet
<1>36. CASE DeleteSession
  BY <1>0, <1>00, <1>36 DEF DeleteSession
<1>37. CASE LockExpires
  BY <1>0, <1>37 DEF LockExpires, Expiry
<1>38. CASE AbortExpires
  BY <1>0, <1>00, <1>38 DEF AbortExpires
<1>39. ASSUME NEW a \in ActionId, DedupExpires(a) PROVE KeyStep
  BY <1>0, <1>00, <1>39 DEF DedupExpires
<1>40. CASE UNCHANGED vars
  BY <1>0, <1>00, <1>40
<1>41. QED
  BY <1>1, <1>2, <1>3, <1>4, <1>5, <1>6, <1>7, <1>8, <1>9, <1>10, <1>11, <1>12,
     <1>13, <1>14, <1>15, <1>16, <1>17, <1>18, <1>19, <1>20, <1>21, <1>22, <1>23,
     <1>24, <1>25, <1>26, <1>27, <1>28, <1>29, <1>30, <1>31, <1>32, <1>33, <1>34,
     <1>35, <1>36, <1>37, <1>38, <1>39, <1>40
     DEF Next, Handle, Fault

KeyInv ==
    /\ \A r \in Request : AtWork(r) /\ r \notin lost => lock = r
    /\ lost # {} => overruns > 0

\* A request at work owns the key or has lost it.
LEMMA KeyHolds == Spec => []KeyInv
<1>1. Init => KeyInv
  BY DEF Init, KeyInv, AtWork, Holding, StreamPlaces, OrderPlaces
<1>2. TypeOK /\ Places /\ KeyInv /\ [Next]_vars => KeyInv'
  <2> SUFFICES ASSUME TypeOK, Places, KeyInv, [Next]_vars PROVE KeyInv'
    OBVIOUS
  <2>0. KeyStep /\ overruns \in Nat
    BY EveryStepKeeps DEF TypeOK
  <2>1. CASE UNCHANGED <<lock, lost, overruns>> /\ NoneBegins(Request)
    BY <2>1 DEF KeyInv, NoneBegins
  <2>2. ASSUME NEW r \in Request, lock = Free, lock' = r, UNCHANGED <<lost, overruns>>,
               NoneBegins(Request \ {r})
        PROVE  KeyInv'
    BY <2>2, RequestAssumption DEF KeyInv, NoneBegins
  <2>3. ASSUME NEW r \in Request, pc[r] \in Holding, Unlock(r), overruns' = overruns,
               ~AtWork(r)', NoneBegins(Request)
        PROVE  KeyInv'
    <3>1. ASSUME NEW q \in Request, AtWork(q)', q \notin lost' PROVE lock' = q
      <4>1. AtWork(q) /\ q \notin lost /\ q # r
        BY <2>3, <3>1 DEF NoneBegins, Unlock
      <4>2. lock = q
        BY <4>1 DEF KeyInv
      <4>3. QED
        BY <2>3, <3>1, <4>1, <4>2 DEF Unlock
    <3>2. lost' # {} => overruns' > 0
      <4>1. CASE lost' = lost
        BY <2>3, <4>1 DEF KeyInv
      <4>2. CASE lost' # lost
        <5>1. lock # r
          BY <2>3, <4>2 DEF Unlock
        <5>2. r \in lost
          BY <2>3, <5>1 DEF KeyInv, AtWork
        <5>3. QED
          BY <2>3, <5>2 DEF KeyInv
      <4>3. QED
        BY <4>1, <4>2
    <3>3. QED
      BY <3>1, <3>2 DEF KeyInv
  <2>4. CASE Expiry /\ NoneBegins(Request)
    BY <2>0, <2>4 DEF KeyInv, Expiry, NoneBegins
  <2>5. QED
    BY <2>0, <2>1, <2>2, <2>3, <2>4 DEF KeyStep
<1>3. QED
  BY <1>1, <1>2, TypeCorrect, PlacesHold, PTL DEF Spec

\* However many turns outlive their key, of two requests that work in the
\* session one has lost it, and while none has outlived it no two work at
\* once: SET NX is enough although every handler deletes the key without
\* looking at who set it.
THEOREM MutualExclusion == Spec => []OneTurnAtATime
<1>1. KeyInv => OneTurnAtATime
  BY DEF KeyInv, OneTurnAtATime, AtWork
<1>2. QED
  BY <1>1, KeyHolds, PTL

-----------------------------------------------------------------------------
(* Every path out of the handlers unlocks.  A cleanup is cut short only for  *)
(* a client that has gone, which is a fault.                                 *)

LeftByFault == LockLeftOnlyByFault /\ cut \subseteq harmed

\* A key that no running request stands for was left by a request that a
\* fault hit, with or without mutual exclusion.
THEOREM EveryPathUnlocks == Spec => []LockLeftOnlyByFault
<1> USE RequestAssumption DEF LeftByFault, LockLeftOnlyByFault, Holding,
        StreamPlaces, OrderPlaces
<1>1. Init => LeftByFault
  BY DEF Init
<1>2. TypeOK /\ LeftByFault /\ [Next]_vars => LeftByFault'
  <2> SUFFICES ASSUME TypeOK, LeftByFault, [Next]_vars PROVE LeftByFault'
    OBVIOUS
  <2> USE DEF TypeOK
  <2>1. ASSUME NEW r \in Request, SaveUser(r) PROVE LeftByFault'
    BY <2>1 DEF SaveUser, Goto
  <2>2. ASSUME NEW r \in Request, ReadHistory(r) PROVE LeftByFault'
    BY <2>2 DEF ReadHistory, Goto
  <2>3. ASSUME NEW r \in Request, Acquire(r) PROVE LeftByFault'
    BY <2>3 DEF Acquire, Goto
  <2>4. ASSUME NEW r \in Request, Busy(r) PROVE LeftByFault'
    BY <2>4 DEF Busy, Finish, Goto, Tell
  <2>5. ASSUME NEW r \in Request, AppendMessage(r) PROVE LeftByFault'
    BY <2>5 DEF AppendMessage, Finish, Goto, Tell
  <2>6. ASSUME NEW r \in Request, StartStream(r) PROVE LeftByFault'
    BY <2>6 DEF StartStream, Goto
  <2>7. ASSUME NEW r \in Request, Chunk(r) PROVE LeftByFault'
    BY <2>7 DEF Chunk
  <2>8. ASSUME NEW r \in Request, LastChunk(r) PROVE LeftByFault'
    BY <2>8 DEF LastChunk, Goto
  <2>9. ASSUME NEW r \in Request, AbortSeen(r) PROVE LeftByFault'
    BY <2>9 DEF AbortSeen, Goto, Tell
  <2>10. ASSUME NEW r \in Request, TurnRaises(r) PROVE LeftByFault'
    BY <2>10 DEF TurnRaises, Goto, Tell
  <2>11. ASSUME NEW r \in Request, SaveBeforeDone(r) PROVE LeftByFault'
    BY <2>11 DEF SaveBeforeDone, Goto
  <2>12. ASSUME NEW r \in Request, SendDone(r) PROVE LeftByFault'
    BY <2>12 DEF SendDone, Goto, Tell
  <2>13. ASSUME NEW r \in Request, CleanupSave(r) PROVE LeftByFault'
    BY <2>13 DEF CleanupSave, Goto
  <2>14. ASSUME NEW r \in Request, Release(r) PROVE LeftByFault'
    BY <2>14 DEF Release, Unlock, Goto
  <2>15. ASSUME NEW r \in Request, SyncAnswered(r) PROVE LeftByFault'
    BY <2>15 DEF SyncAnswered, Goto
  <2>16. ASSUME NEW r \in Request, SyncUnlock(r) PROVE LeftByFault'
    BY <2>16 DEF SyncUnlock, Unlock, Finish, Goto, Tell
  <2>17. ASSUME NEW r \in Request, SyncSave(r) PROVE LeftByFault'
    BY <2>17 DEF SyncSave, Finish, Goto, Tell
  <2>18. ASSUME NEW r \in Request, CheckDedup(r) PROVE LeftByFault'
    BY <2>18 DEF CheckDedup, Goto
  <2>19. ASSUME NEW r \in Request, RefuseDuplicate(r) PROVE LeftByFault'
    BY <2>19 DEF RefuseDuplicate, Unlock, Finish, Goto, Tell
  <2>20. ASSUME NEW r \in Request, NoteOrder(r) PROVE LeftByFault'
    BY <2>20 DEF NoteOrder, Goto
  <2>21. ASSUME NEW r \in Request, ValidateOrder(r) PROVE LeftByFault'
    BY <2>21 DEF ValidateOrder, Goto
  <2>22. ASSUME NEW r \in Request, PlaceOrder(r) PROVE LeftByFault'
    BY <2>22 DEF PlaceOrder, Goto
  <2>23. ASSUME NEW r \in Request, AnswerOrder(r) PROVE LeftByFault'
    BY <2>23 DEF AnswerOrder, Goto
  <2>24. ASSUME NEW r \in Request, SendOrderDone(r) PROVE LeftByFault'
    BY <2>24 DEF SendOrderDone, Goto, Tell
  <2>25. ASSUME NEW r \in Request, CloseOrder(r) PROVE LeftByFault'
    BY <2>25 DEF CloseOrder, Unlock, Goto
  <2>26. ASSUME NEW r \in Request, CutShort(r) PROVE LeftByFault'
    BY <2>26 DEF CutShort, Unlock, SaveAdrift, Goto
  <2>27. ASSUME NEW r \in Request, BackgroundSave(r) PROVE LeftByFault'
    BY <2>27 DEF BackgroundSave
  <2>28. ASSUME NEW r \in Request, ThreadSaves(r) PROVE LeftByFault'
    BY <2>28 DEF ThreadSaves
  <2>29. ASSUME NEW r \in Request, SaveFails(r) PROVE LeftByFault'
    <3>1. Goto(r, "ended") \/ (Goto(r, "cleanup") /\ pc[r] = "saving")
      BY ONLY <2>29, Zenon DEF SaveFails, Finish
    <3>2. QED
      BY <3>1, <2>29 DEF SaveFails, Harm, Goto
  <2>30. ASSUME NEW r \in Request, UnlockFails(r) PROVE LeftByFault'
    BY <2>30 DEF UnlockFails, Harm, Goto, Tell
  <2>31. ASSUME NEW r \in Request, ClientGone(r) PROVE LeftByFault'
    BY <2>31 DEF ClientGone, AtYield, ToFinally, Harm, Goto, Tell
  <2>32. ASSUME NEW r \in Request, ClientGoneInAwait(r) PROVE LeftByFault'
    BY <2>32 DEF ClientGoneInAwait, InAwait, ToFinally, SaveAdrift, Harm, Goto, Tell
  <2>33. ASSUME NEW r \in Request, WorkerDies(r) PROVE LeftByFault'
    BY <2>33 DEF WorkerDies, Harm, Goto, Tell
  <2>34. CASE AbortAsked
    BY <2>34 DEF AbortAsked
  <2>35. CASE AbortSet
    BY <2>35 DEF AbortSet
  <2>36. CASE DeleteSession
    BY <2>36 DEF DeleteSession
  <2>37. CASE LockExpires
    BY <2>37 DEF LockExpires
  <2>38. CASE AbortExpires
    BY <2>38 DEF AbortExpires
  <2>39. ASSUME NEW a \in ActionId, DedupExpires(a) PROVE LeftByFault'
    BY <2>39 DEF DedupExpires
  <2>40. CASE UNCHANGED vars
    BY <2>40
  <2>41. QED
    BY <2>1, <2>2, <2>3, <2>4, <2>5, <2>6, <2>7, <2>8, <2>9, <2>10, <2>11, <2>12,
       <2>13, <2>14, <2>15, <2>16, <2>17, <2>18, <2>19, <2>20, <2>21, <2>22, <2>23,
       <2>24, <2>25, <2>26, <2>27, <2>28, <2>29, <2>30, <2>31, <2>32, <2>33, <2>34,
       <2>35, <2>36, <2>37, <2>38, <2>39, <2>40
       DEF Next, Handle, Fault
<1>3. LeftByFault => LockLeftOnlyByFault
  OBVIOUS
<1>4. QED
  BY <1>1, <1>2, <1>3, TypeCorrect, PTL DEF Spec

-----------------------------------------------------------------------------
(* What the client saw completed is stored.                                  *)

LEMMA AnswerIsMessage == ASSUME NEW r \in Request PROVE Answer(r) \in Message
BY DEF Answer, Message

LEMMA UserIsMessage == ASSUME NEW r \in Request PROVE UserMessage(r) \in Message
BY DEF UserMessage, Message

\* Appending a message stores it and loses none.
LEMMA AppendKeeps ==
    ASSUME TypeOK, NEW m \in Message, history' = Append(history, m)
    PROVE  /\ Stored(m)'
           /\ \A q \in Request : Stored(Answer(q)) => Stored(Answer(q))'
<1>1. history \in Seq(Message)
  BY DEF TypeOK
<1>2. /\ DOMAIN history = 1 .. Len(history) /\ Len(history) \in Nat
      /\ DOMAIN history' = 1 .. Len(history) + 1
      /\ \A i \in 1 .. Len(history) : history'[i] = history[i]
      /\ history'[Len(history) + 1] = m
  BY <1>1, AppendProperties, LenProperties
<1>3. QED
  BY <1>2 DEF Stored, Answer

LEMMA SameKeeps ==
    ASSUME UNCHANGED history
    PROVE  \A q \in Request : Stored(Answer(q)) => Stored(Answer(q))'
BY DEF Stored, Answer

LEMMA SaveRaisesKeeps ==
    ASSUME TypeOK, NEW r \in Request, NEW m \in Message, SaveRaises(r, m)
    PROVE  \A q \in Request : Stored(Answer(q)) => Stored(Answer(q))'
BY AppendKeeps, SameKeeps DEF SaveRaises

\* save_assistant_history loses nothing, and leaves a captured answer stored
\* now or stored before.
LEMMA SaveAnswerStores ==
    ASSUME TypeOK, NEW r \in Request, SaveAnswer(r)
    PROVE  /\ captured[r] => saved'[r]
           /\ saved'[r] => saved[r] \/ (captured[r] /\ Stored(Answer(r))')
           /\ \A q \in Request \ {r} : saved'[q] = saved[q]
           /\ \A q \in Request : Stored(Answer(q)) => Stored(Answer(q))'
<1>1. CASE captured[r] /\ ~saved[r]
  <2>1. history' = Append(history, Answer(r)) /\ saved' = [saved EXCEPT ![r] = TRUE]
    BY <1>1 DEF SaveAnswer
  <2>2. /\ Stored(Answer(r))'
        /\ \A q \in Request : Stored(Answer(q)) => Stored(Answer(q))'
    BY <2>1, AnswerIsMessage, AppendKeeps
  <2>3. saved'[r] = TRUE /\ \A q \in Request \ {r} : saved'[q] = saved[q]
    BY <2>1 DEF TypeOK
  <2>4. QED
    BY <1>1, <2>2, <2>3
<1>2. CASE ~(captured[r] /\ ~saved[r])
  <2>1. history' = history /\ saved' = saved
    BY <1>2 DEF SaveAnswer
  <2>2. \A q \in Request : Stored(Answer(q)) => Stored(Answer(q))'
    BY <2>1, SameKeeps
  <2>3. captured[r] => saved[r]
    BY <1>2
  <2>4. QED
    BY <2>1, <2>2, <2>3, Zenon
<1>3. QED
  BY <1>1, <1>2

\* The flag assistant_saved tells the truth (1), it is set before a handler
\* of POST /chat tells its client that the turn is done (3, 4), and each
\* handler stays in its own places (5).
FlagTellsTruth ==
    \A r \in Request : saved[r] /\ r \notin deletedSince => Stored(Answer(r))
NothingBeforeStart == \A r \in Request : pc[r] = "idle" => ~captured[r] /\ ~saved[r]
SavedPlace == \A r \in Request : pc[r] = "saved" /\ captured[r] => saved[r]
DonePlace ==
    \A r \in Request : kind[r] # "order" /\ outcome[r] = "done" =>
        /\ captured[r] => saved[r]
        /\ pc[r] \in {"cleanup", "releasing", "ended"}
PlacesOfKind ==
    \A r \in Request :
        /\ pc[r] \in OrderPlaces => kind[r] = "order"
        /\ pc[r] \in StreamPlaces => kind[r] = "stream"

DoneInv == FlagTellsTruth /\ NothingBeforeStart /\ SavedPlace /\ DonePlace
           /\ PlacesOfKind

\* A chat client that was told its turn is done finds the answer in the
\* history, whatever fails and whatever happens to the lock, unless the
\* session was deleted meanwhile.
THEOREM DoneIsStored == Spec => []DoneMeansStored
<1> USE DEF DoneInv, FlagTellsTruth, NothingBeforeStart, SavedPlace, DonePlace,
        PlacesOfKind, OrderPlaces, StreamPlaces
<1>1. Init => DoneInv
  BY DEF Init
<1>2. TypeOK /\ DoneInv /\ [Next]_vars => DoneInv'
  <2> SUFFICES ASSUME TypeOK, DoneInv, [Next]_vars PROVE DoneInv'
    OBVIOUS
  <2> USE DEF TypeOK, Holding, Told
  <2>1. ASSUME NEW r \in Request, SaveUser(r) PROVE DoneInv'
    <3>1. \A q \in Request : Stored(Answer(q)) => Stored(Answer(q))'
      BY <2>1, UserIsMessage, AppendKeeps DEF SaveUser
    <3>2. QED
      BY <2>1, <3>1 DEF SaveUser, Goto
  <2>2. ASSUME NEW r \in Request, ReadHistory(r) PROVE DoneInv'
    BY <2>2, SameKeeps DEF ReadHistory, Goto
  <2>3. ASSUME NEW r \in Request, Acquire(r) PROVE DoneInv'
    <3>1. FlagTellsTruth'
      BY <2>3, SameKeeps DEF Acquire, Goto
    <3>2. NothingBeforeStart'
      BY <2>3, SameKeeps DEF Acquire, Goto
    <3>3. SavedPlace'
      BY <2>3, SameKeeps DEF Acquire, Goto
    <3>4. DonePlace'
      BY <2>3, SameKeeps DEF Acquire, Goto
    <3>5. PlacesOfKind'
      BY <2>3, SameKeeps DEF Acquire, Goto
    <3>6. QED
      BY <3>1, <3>2, <3>3, <3>4, <3>5
  <2>4. ASSUME NEW r \in Request, Busy(r) PROVE DoneInv'
    BY <2>4, SameKeeps DEF Busy, Finish, Goto, Tell
  <2>5. ASSUME NEW r \in Request, AppendMessage(r) PROVE DoneInv'
    <3>1. \A q \in Request : Stored(Answer(q)) => Stored(Answer(q))'
      BY <2>5, UserIsMessage, AppendKeeps DEF AppendMessage
    <3>2. QED
      BY <2>5, <3>1 DEF AppendMessage, Finish, Goto, Tell
  <2>6. ASSUME NEW r \in Request, StartStream(r) PROVE DoneInv'
    BY <2>6, SameKeeps DEF StartStream, Goto
  <2>7. ASSUME NEW r \in Request, Chunk(r) PROVE DoneInv'
    BY <2>7, SameKeeps DEF Chunk
  <2>8. ASSUME NEW r \in Request, LastChunk(r) PROVE DoneInv'
    BY <2>8, SameKeeps DEF LastChunk, Goto
  <2>9. ASSUME NEW r \in Request, AbortSeen(r) PROVE DoneInv'
    BY <2>9, SameKeeps DEF AbortSeen, Goto, Tell
  <2>10. ASSUME NEW r \in Request, TurnRaises(r) PROVE DoneInv'
    BY <2>10, SameKeeps DEF TurnRaises, Goto, Tell
  <2>11. ASSUME NEW r \in Request, SaveBeforeDone(r) PROVE DoneInv'
    <3>1. FlagTellsTruth'
      BY <2>11, SaveAnswerStores DEF SaveBeforeDone, Goto
    <3>2. NothingBeforeStart'
      BY <2>11, SaveAnswerStores DEF SaveBeforeDone, Goto
    <3>3. SavedPlace'
      BY <2>11, SaveAnswerStores DEF SaveBeforeDone, Goto
    <3>4. DonePlace'
      BY <2>11, SaveAnswerStores DEF SaveBeforeDone, Goto
    <3>5. PlacesOfKind'
      BY <2>11, SaveAnswerStores DEF SaveBeforeDone, Goto
    <3>6. QED
      BY <3>1, <3>2, <3>3, <3>4, <3>5
  <2>12. ASSUME NEW r \in Request, SendDone(r) PROVE DoneInv'
    BY <2>12, SameKeeps DEF SendDone, Goto, Tell
  <2>13. ASSUME NEW r \in Request, CleanupSave(r) PROVE DoneInv'
    <3>1. FlagTellsTruth'
      BY <2>13, SaveAnswerStores DEF CleanupSave, Goto
    <3>2. NothingBeforeStart'
      BY <2>13, SaveAnswerStores DEF CleanupSave, Goto
    <3>3. SavedPlace'
      BY <2>13, SaveAnswerStores DEF CleanupSave, Goto
    <3>4. DonePlace'
      BY <2>13, SaveAnswerStores DEF CleanupSave, Goto
    <3>5. PlacesOfKind'
      BY <2>13, SaveAnswerStores DEF CleanupSave, Goto
    <3>6. QED
      BY <3>1, <3>2, <3>3, <3>4, <3>5
  <2>14. ASSUME NEW r \in Request, Release(r) PROVE DoneInv'
    BY <2>14, SameKeeps DEF Release, Goto
  <2>15. ASSUME NEW r \in Request, SyncAnswered(r) PROVE DoneInv'
    BY <2>15, SameKeeps DEF SyncAnswered, Goto
  <2>16. ASSUME NEW r \in Request, SyncUnlock(r) PROVE DoneInv'
    <3>1. CASE captured[r]
      BY <2>16, <3>1, SameKeeps DEF SyncUnlock, Goto
    <3>2. CASE ~captured[r]
      <4>1. FlagTellsTruth'
        BY <2>16, <3>2, SameKeeps DEF SyncUnlock, Finish, Goto, Tell
      <4>2. NothingBeforeStart'
        BY <2>16, <3>2, SameKeeps DEF SyncUnlock, Finish, Goto, Tell
      <4>3. SavedPlace'
        BY <2>16, <3>2, SameKeeps DEF SyncUnlock, Finish, Goto, Tell
      <4>4. DonePlace'
        BY <2>16, <3>2, SameKeeps DEF SyncUnlock, Finish, Goto, Tell
      <4>5. PlacesOfKind'
        BY <2>16, <3>2, SameKeeps DEF SyncUnlock, Finish, Goto, Tell
      <4>6. QED
        BY <4>1, <4>2, <4>3, <4>4, <4>5
    <3>3. QED
      BY <3>1, <3>2
  <2>17. ASSUME NEW r \in Request, SyncSave(r) PROVE DoneInv'
    <3>1. FlagTellsTruth'
      BY <2>17, SaveAnswerStores DEF SyncSave, Finish, Goto, Tell
    <3>2. NothingBeforeStart'
      BY <2>17, SaveAnswerStores DEF SyncSave, Finish, Goto, Tell
    <3>3. SavedPlace'
      BY <2>17, SaveAnswerStores DEF SyncSave, Finish, Goto, Tell
    <3>4. DonePlace'
      BY <2>17, SaveAnswerStores DEF SyncSave, Finish, Goto, Tell
    <3>5. PlacesOfKind'
      BY <2>17, SaveAnswerStores DEF SyncSave, Finish, Goto, Tell
    <3>6. QED
      BY <3>1, <3>2, <3>3, <3>4, <3>5
  <2>18. ASSUME NEW r \in Request, CheckDedup(r) PROVE DoneInv'
    BY <2>18, SameKeeps DEF CheckDedup, Goto
  <2>19. ASSUME NEW r \in Request, RefuseDuplicate(r) PROVE DoneInv'
    BY <2>19, SameKeeps DEF RefuseDuplicate, Finish, Goto, Tell
  <2>20. ASSUME NEW r \in Request, NoteOrder(r) PROVE DoneInv'
    <3>1. \A q \in Request : Stored(Answer(q)) => Stored(Answer(q))'
      BY <2>20, UserIsMessage, AppendKeeps DEF NoteOrder
    <3>2. QED
      BY <2>20, <3>1 DEF NoteOrder, Goto
  <2>21. ASSUME NEW r \in Request, ValidateOrder(r) PROVE DoneInv'
    <3>1. FlagTellsTruth'
      BY <2>21, SameKeeps DEF ValidateOrder, Goto
    <3>2. NothingBeforeStart'
      BY <2>21, SameKeeps DEF ValidateOrder, Goto
    <3>3. SavedPlace'
      BY <2>21, SameKeeps DEF ValidateOrder, Goto
    <3>4. DonePlace'
      <4>1. kind[r] = "order" /\ kind' = kind /\ outcome' = outcome /\ saved' = saved
        BY <2>21 DEF ValidateOrder
      <4>2. \A q \in Request \ {r} : captured'[q] = captured[q] /\ pc'[q] = pc[q]
        BY <2>21 DEF ValidateOrder, Goto
      <4>3. QED
        BY <4>1, <4>2
    <3>5. PlacesOfKind'
      BY <2>21, SameKeeps DEF ValidateOrder, Goto
    <3>6. QED
      BY <3>1, <3>2, <3>3, <3>4, <3>5
  <2>22. ASSUME NEW r \in Request, PlaceOrder(r) PROVE DoneInv'
    BY <2>22, SameKeeps DEF PlaceOrder, Goto
  <2>23. ASSUME NEW r \in Request, AnswerOrder(r) PROVE DoneInv'
    BY <2>23, SameKeeps DEF AnswerOrder, Goto
  <2>24. ASSUME NEW r \in Request, SendOrderDone(r) PROVE DoneInv'
    BY <2>24, SameKeeps DEF SendOrderDone, Goto, Tell
  <2>25. ASSUME NEW r \in Request, CloseOrder(r) PROVE DoneInv'
    BY <2>25, SameKeeps DEF CloseOrder, Goto
  <2>26. ASSUME NEW r \in Request, CutShort(r) PROVE DoneInv'
    BY <2>26, SameKeeps DEF CutShort, Goto
  <2>27. ASSUME NEW r \in Request, BackgroundSave(r) PROVE DoneInv'
    BY <2>27, SaveAnswerStores DEF BackgroundSave
  <2>28. ASSUME NEW r \in Request, SaveFails(r) PROVE DoneInv'
    <3>1. \A q \in Request : Stored(Answer(q)) => Stored(Answer(q))'
      BY <2>28, UserIsMessage, AnswerIsMessage, SaveRaisesKeeps DEF SaveFails
    <3>a. UNCHANGED <<captured, saved, deletedSince, kind>>
      BY <2>28 DEF SaveFails, Harm
    <3>b. Goto(r, "ended") \/ (Goto(r, "cleanup") /\ pc[r] = "saving")
      BY ONLY <2>28, Zenon DEF SaveFails, Finish
    <3>c. Tell(r, "error") \/ UNCHANGED outcome
      BY ONLY <2>28, Zenon DEF SaveFails, Finish
    <3>2. /\ UNCHANGED <<captured, saved, deletedSince, kind>>
          /\ Goto(r, "ended") \/ (Goto(r, "cleanup") /\ pc[r] = "saving")
          /\ Tell(r, "error") \/ UNCHANGED outcome
      BY <3>a, <3>b, <3>c
    <3>3. FlagTellsTruth'
      BY <3>1, <3>2
    <3>4. NothingBeforeStart'
      BY <3>2 DEF Goto
    <3>5. SavedPlace'
      BY <3>2 DEF Goto
    <3>6. DonePlace'
      BY <3>2 DEF Goto, Tell
    <3>7. PlacesOfKind'
      BY <3>2 DEF Goto
    <3>8. QED
      BY <3>3, <3>4, <3>5, <3>6, <3>7
  <2>29. ASSUME NEW r \in Request, UnlockFails(r) PROVE DoneInv'
    BY <2>29, SameKeeps DEF UnlockFails, Harm, Goto, Tell
  <2>30. ASSUME NEW r \in Request, ClientGone(r) PROVE DoneInv'
    BY <2>30, SameKeeps DEF ClientGone, AtYield, ToFinally, Harm, Goto, Tell
  <2>40. ASSUME NEW r \in Request, ClientGoneInAwait(r) PROVE DoneInv'
    BY <2>40, SameKeeps DEF ClientGoneInAwait, InAwait, ToFinally, Harm, Goto, Tell
  <2>41. ASSUME NEW r \in Request, ThreadSaves(r) PROVE DoneInv'
    <3>1. \A q \in Request : Stored(Answer(q)) => Stored(Answer(q))'
      BY <2>41, AnswerIsMessage, AppendKeeps, SameKeeps DEF ThreadSaves
    <3>2. QED
      BY <2>41, <3>1 DEF ThreadSaves
  <2>31. ASSUME NEW r \in Request, WorkerDies(r) PROVE DoneInv'
    BY <2>31, SameKeeps DEF WorkerDies, Harm, Goto, Tell
  <2>32. CASE AbortAsked
    BY <2>32, SameKeeps DEF AbortAsked
  <2>33. CASE AbortSet
    BY <2>33, SameKeeps DEF AbortSet
  <2>34. CASE DeleteSession
    BY <2>34 DEF DeleteSession
  <2>35. CASE LockExpires
    BY <2>35, SameKeeps DEF LockExpires
  <2>36. CASE AbortExpires
    BY <2>36, SameKeeps DEF AbortExpires
  <2>37. ASSUME NEW a \in ActionId, DedupExpires(a) PROVE DoneInv'
    BY <2>37, SameKeeps DEF DedupExpires
  <2>38. CASE UNCHANGED vars
    BY <2>38, SameKeeps
  <2>39. QED
    BY <2>1, <2>2, <2>3, <2>4, <2>5, <2>6, <2>7, <2>8, <2>9, <2>10, <2>11, <2>12,
       <2>13, <2>14, <2>15, <2>16, <2>17, <2>18, <2>19, <2>20, <2>21, <2>22, <2>23, <2>24,
       <2>25, <2>26, <2>27, <2>28, <2>29, <2>30, <2>31, <2>32, <2>33, <2>34, <2>35, <2>36,
       <2>37, <2>38, <2>40, <2>41
       DEF Next, Handle, Fault
<1>3. DoneInv => DoneMeansStored
  BY DEF DoneMeansStored
<1>4. QED
  BY <1>1, <1>2, <1>3, TypeCorrect, PTL DEF Spec

-----------------------------------------------------------------------------
(* Orders.                                                                  *)

\* The request has set its dedup key and can still place its order.
Committed == {"noting", "noted", "ordering"}
Pending(a) == {r \in Request : actionId[r] = a /\ pc[r] \in Committed}

\* The tool is invoked; the handler waits for it or has been cancelled.
Orders(r) ==
    /\ pc[r] = "ordering" /\ InvokeTool(r) /\ UNCHANGED <<dedup, lapses>>
    /\ \E x \in {"ordered", "closing"} : pc' = [pc EXCEPT ![r] = x]

\* Only the check of the dedup key commits a request.
OrderStep ==
    /\ actionId' = actionId
    /\ \/ /\ UNCHANGED <<placed, dedup, lapses>>
          /\ \A q \in Request : pc'[q] \in Committed => pc[q] \in Committed
       \/ \E r \in Request : CheckDedup(r) \/ Orders(r)
       \/ \E a \in ActionId : DedupExpires(a)

LEMMA EveryStepOrders == TypeOK /\ [Next]_vars => OrderStep
<1> SUFFICES ASSUME TypeOK, [Next]_vars PROVE OrderStep
  OBVIOUS
<1> USE DEF OrderStep, Committed
<1>0. pc \in [Request -> Place]
  BY DEF TypeOK
<1>1. ASSUME NEW r \in Request, SaveUser(r) PROVE OrderStep
  BY <1>0, <1>1 DEF SaveUser, Goto
<1>2. ASSUME NEW r \in Request, ReadHistory(r) PROVE OrderStep
  BY <1>0, <1>2 DEF ReadHistory, Goto
<1>3. ASSUME NEW r \in Request, Acquire(r) PROVE OrderStep
  BY <1>0, <1>3 DEF Acquire, Goto
<1>4. ASSUME NEW r \in Request, Busy(r) PROVE OrderStep
  BY <1>0, <1>4 DEF Busy, Finish, Goto, Tell
<1>5. ASSUME NEW r \in Request, AppendMessage(r) PROVE OrderStep
  BY <1>0, <1>5 DEF AppendMessage, Finish, Goto, Tell
<1>6. ASSUME NEW r \in Request, StartStream(r) PROVE OrderStep
  BY <1>0, <1>6 DEF StartStream, Goto
<1>7. ASSUME NEW r \in Request, Chunk(r) PROVE OrderStep
  BY <1>0, <1>7 DEF Chunk
<1>8. ASSUME NEW r \in Request, LastChunk(r) PROVE OrderStep
  BY <1>0, <1>8 DEF LastChunk, Goto
<1>9. ASSUME NEW r \in Request, AbortSeen(r) PROVE OrderStep
  BY <1>0, <1>9 DEF AbortSeen, Goto, Tell
<1>10. ASSUME NEW r \in Request, TurnRaises(r) PROVE OrderStep
  BY <1>0, <1>10 DEF TurnRaises, Goto, Tell
<1>11. ASSUME NEW r \in Request, SaveBeforeDone(r) PROVE OrderStep
  BY <1>0, <1>11 DEF SaveBeforeDone, Goto
<1>12. ASSUME NEW r \in Request, SendDone(r) PROVE OrderStep
  BY <1>0, <1>12 DEF SendDone, Goto, Tell
<1>13. ASSUME NEW r \in Request, CleanupSave(r) PROVE OrderStep
  BY <1>0, <1>13 DEF CleanupSave, Goto
<1>14. ASSUME NEW r \in Request, Release(r) PROVE OrderStep
  BY <1>0, <1>14 DEF Release, Unlock, Goto
<1>15. ASSUME NEW r \in Request, SyncAnswered(r) PROVE OrderStep
  BY <1>0, <1>15 DEF SyncAnswered, Goto
<1>16. ASSUME NEW r \in Request, SyncUnlock(r) PROVE OrderStep
  BY <1>0, <1>16 DEF SyncUnlock, Unlock, Finish, Goto, Tell
<1>17. ASSUME NEW r \in Request, SyncSave(r) PROVE OrderStep
  BY <1>0, <1>17 DEF SyncSave, Finish, Goto, Tell
<1>18. ASSUME NEW r \in Request, CheckDedup(r) PROVE OrderStep
  BY <1>18 DEF CheckDedup
<1>19. ASSUME NEW r \in Request, RefuseDuplicate(r) PROVE OrderStep
  BY <1>0, <1>19 DEF RefuseDuplicate, Unlock, Finish, Goto, Tell
<1>20. ASSUME NEW r \in Request, NoteOrder(r) PROVE OrderStep
  BY <1>0, <1>20 DEF NoteOrder, Goto
<1>21. ASSUME NEW r \in Request, ValidateOrder(r) PROVE OrderStep
  BY <1>0, <1>21 DEF ValidateOrder, Goto
<1>22. ASSUME NEW r \in Request, PlaceOrder(r) PROVE OrderStep
  BY <1>22 DEF PlaceOrder, Orders, Goto
<1>23. ASSUME NEW r \in Request, AnswerOrder(r) PROVE OrderStep
  BY <1>0, <1>23 DEF AnswerOrder, Goto
<1>24. ASSUME NEW r \in Request, SendOrderDone(r) PROVE OrderStep
  BY <1>0, <1>24 DEF SendOrderDone, Goto, Tell
<1>25. ASSUME NEW r \in Request, CloseOrder(r) PROVE OrderStep
  BY <1>0, <1>25 DEF CloseOrder, Unlock, Goto
<1>26. ASSUME NEW r \in Request, CutShort(r) PROVE OrderStep
  BY <1>0, <1>26 DEF CutShort, Unlock, SaveAdrift, Goto
<1>27. ASSUME NEW r \in Request, BackgroundSave(r) PROVE OrderStep
  BY <1>0, <1>27 DEF BackgroundSave
<1>28. ASSUME NEW r \in Request, ThreadSaves(r) PROVE OrderStep
  BY <1>0, <1>28 DEF ThreadSaves
<1>29. ASSUME NEW r \in Request, SaveFails(r) PROVE OrderStep
  BY <1>0, <1>29 DEF SaveFails, Harm, Finish, Goto, Tell
<1>30. ASSUME NEW r \in Request, UnlockFails(r) PROVE OrderStep
  BY <1>0, <1>30 DEF UnlockFails, Harm, Goto, Tell
<1>31. ASSUME NEW r \in Request, ClientGone(r) PROVE OrderStep
  BY <1>0, <1>31 DEF ClientGone, AtYield, ToFinally, Harm, Goto, Tell
<1>32. ASSUME NEW r \in Request, ClientGoneInAwait(r) PROVE OrderStep
  <2>1. CASE pc[r] = "ordering"
    BY <1>32, <2>1 DEF ClientGoneInAwait, Harm, ToFinally, Goto, StreamPlaces, Orders
  <2>2. CASE pc[r] # "ordering"
    BY <1>0, <1>32, <2>2 DEF ClientGoneInAwait, Harm, ToFinally, Goto
  <2>3. QED
    BY <2>1, <2>2
<1>33. ASSUME NEW r \in Request, WorkerDies(r) PROVE OrderStep
  BY <1>0, <1>33 DEF WorkerDies, Harm, Goto, Tell
<1>34. CASE AbortAsked
  BY <1>34 DEF AbortAsked
<1>35. CASE AbortSet
  BY <1>35 DEF AbortSet
<1>36. CASE DeleteSession
  BY <1>36 DEF DeleteSession
<1>37. CASE LockExpires
  BY <1>37 DEF LockExpires
<1>38. CASE AbortExpires
  BY <1>38 DEF AbortExpires
<1>39. ASSUME NEW a \in ActionId, DedupExpires(a) PROVE OrderStep
  BY <1>39 DEF DedupExpires
<1>40. CASE UNCHANGED vars
  BY <1>40
<1>41. QED
  BY <1>1, <1>2, <1>3, <1>4, <1>5, <1>6, <1>7, <1>8, <1>9, <1>10, <1>11, <1>12,
     <1>13, <1>14, <1>15, <1>16, <1>17, <1>18, <1>19, <1>20, <1>21, <1>22, <1>23,
     <1>24, <1>25, <1>26, <1>27, <1>28, <1>29, <1>30, <1>31, <1>32, <1>33, <1>34,
     <1>35, <1>36, <1>37, <1>38, <1>39, <1>40
     DEF Next, Handle, Fault

\* What is placed, and what still can be, was paid for by a dedup key that is
\* there or has expired.
OrdersPaid ==
    \A a \in ActionId :
        /\ IsFiniteSet(Pending(a))
        /\ placed[a] + Cardinality(Pending(a)) <= (IF a \in dedup THEN 1 ELSE 0) + lapses

\* A request that leaves, or enters, changes only the set of its own action.
LEMMA PendingMoves ==
    ASSUME TypeOK, NEW r \in Request, NEW x, pc' = [pc EXCEPT ![r] = x], actionId' = actionId
    PROVE  \A a \in ActionId :
              Pending(a)' = IF a = actionId[r] /\ x \in Committed THEN Pending(a) \cup {r}
                            ELSE Pending(a) \ {r}
<1> SUFFICES ASSUME NEW a \in ActionId
             PROVE  Pending(a)' = IF a = actionId[r] /\ x \in Committed THEN Pending(a) \cup {r}
                                  ELSE Pending(a) \ {r}
  OBVIOUS
<1>1. pc'[r] = x /\ \A q \in Request : q # r => pc'[q] = pc[q]
  BY DEF TypeOK
<1>2. ASSUME NEW q PROVE q \in Pending(a)' <=> (q \in Request /\ actionId[q] = a /\ pc'[q] \in Committed)
  BY DEF Pending
<1>3. ASSUME NEW q PROVE q \in Pending(a) <=> (q \in Request /\ actionId[q] = a /\ pc[q] \in Committed)
  BY DEF Pending
<1> HIDE DEF Committed, Pending
<1>4. CASE a = actionId[r] /\ x \in Committed
  <2>1. \A q : q \in Pending(a)' <=> q \in Pending(a) \cup {r}
    BY <1>1, <1>2, <1>3, <1>4
  <2>2. QED
    BY <1>4, <2>1
<1>5. CASE ~(a = actionId[r] /\ x \in Committed)
  <2>1. \A q : q \in Pending(a)' <=> q \in Pending(a) \ {r}
    BY <1>1, <1>2, <1>3, <1>5
  <2>2. QED
    BY <1>5, <2>1
<1>6. QED
  BY <1>4, <1>5

LEMMA OrdersPaidHolds == Spec => []OrdersPaid
<1>1. Init => OrdersPaid
  <2> SUFFICES ASSUME Init, NEW a \in ActionId
               PROVE  /\ IsFiniteSet(Pending(a))
                      /\ placed[a] + Cardinality(Pending(a))
                           <= (IF a \in dedup THEN 1 ELSE 0) + lapses
    BY DEF OrdersPaid
  <2>1. Pending(a) = {} /\ placed[a] = 0 /\ lapses = 0 /\ dedup = {}
    BY DEF Init, Pending, Committed
  <2>2. QED
    BY <2>1, FS_EmptySet
<1>2. TypeOK /\ OrdersPaid /\ [Next]_vars => OrdersPaid'
  <2> SUFFICES ASSUME TypeOK, OrdersPaid, [Next]_vars, NEW a \in ActionId
               PROVE  /\ IsFiniteSet(Pending(a)')
                      /\ placed'[a] + Cardinality(Pending(a)')
                           <= (IF a \in dedup' THEN 1 ELSE 0) + lapses'
    BY EveryStepOrders DEF OrdersPaid, OrderStep
  <2>1. /\ IsFiniteSet(Pending(a)) /\ placed[a] \in Nat /\ lapses \in Nat
        /\ placed[a] + Cardinality(Pending(a)) <= (IF a \in dedup THEN 1 ELSE 0) + lapses
    BY DEF OrdersPaid, TypeOK
  <2>2. Cardinality(Pending(a)) \in Nat
    BY <2>1, FS_CardinalityType
  <2>3. OrderStep
    BY EveryStepOrders
  <2>4. CASE /\ UNCHANGED <<placed, dedup, lapses>>
             /\ \A q \in Request : pc'[q] \in Committed => pc[q] \in Committed
    <3>1. Pending(a)' \in SUBSET Pending(a)
      BY <2>3, <2>4 DEF Pending, OrderStep
    <3>2. IsFiniteSet(Pending(a)') /\ Cardinality(Pending(a)') <= Cardinality(Pending(a))
      BY <2>1, <3>1, FS_Subset
    <3>3. Cardinality(Pending(a)') \in Nat
      BY <3>2, FS_CardinalityType
    <3>4. QED
      BY <2>1, <2>2, <2>4, <3>2, <3>3
  <2>5. ASSUME NEW r \in Request, CheckDedup(r)
        PROVE  /\ IsFiniteSet(Pending(a)')
               /\ placed'[a] + Cardinality(Pending(a)')
                    <= (IF a \in dedup' THEN 1 ELSE 0) + lapses'
    <3> DEFINE x == IF actionId[r] \in dedup THEN "duplicate" ELSE "noting"
    <3>1. /\ pc' = [pc EXCEPT ![r] = x] /\ actionId' = actionId
          /\ dedup' = dedup \cup {actionId[r]} /\ UNCHANGED <<placed, lapses>>
      BY <2>5 DEF CheckDedup, Goto
    <3>2. x \in Committed <=> actionId[r] \notin dedup
      BY DEF Committed
    <3> HIDE DEF x
    <3>3. Pending(a)' = IF a = actionId[r] /\ x \in Committed THEN Pending(a) \cup {r}
                        ELSE Pending(a) \ {r}
      BY <3>1, PendingMoves
    <3>4. CASE a = actionId[r] /\ a \notin dedup
      <4>1. Pending(a)' = Pending(a) \cup {r} /\ a \in dedup'
        BY <3>1, <3>2, <3>3, <3>4
      <4>2. /\ IsFiniteSet(Pending(a) \cup {r})
            /\ Cardinality(Pending(a) \cup {r})
                 = IF r \in Pending(a) THEN Cardinality(Pending(a)) ELSE Cardinality(Pending(a)) + 1
        BY <2>1, FS_AddElement
      <4>3. QED
        BY <2>1, <2>2, <3>1, <3>4, <4>1, <4>2
    <3>5. CASE ~(a = actionId[r] /\ a \notin dedup)
      <4>1. Pending(a)' = Pending(a) \ {r} /\ (a \in dedup => a \in dedup')
        BY <3>1, <3>2, <3>3, <3>5
      <4>2. /\ IsFiniteSet(Pending(a) \ {r})
            /\ Cardinality(Pending(a) \ {r})
                 = IF r \in Pending(a) THEN Cardinality(Pending(a)) - 1 ELSE Cardinality(Pending(a))
        BY <2>1, FS_RemoveElement
      <4>3. QED
        BY <2>1, <2>2, <3>1, <4>1, <4>2
    <3>6. QED
      BY <3>4, <3>5
  <2>6. ASSUME NEW r \in Request, Orders(r)
        PROVE  /\ IsFiniteSet(Pending(a)')
               /\ placed'[a] + Cardinality(Pending(a)')
                    <= (IF a \in dedup' THEN 1 ELSE 0) + lapses'
    <3>1. /\ actionId' = actionId /\ UNCHANGED <<dedup, lapses>> /\ pc[r] = "ordering"
      BY <2>3, <2>6 DEF Orders, OrderStep
    <3>2. Pending(a)' = Pending(a) \ {r}
      <4>1. PICK x \in {"ordered", "closing"} : pc' = [pc EXCEPT ![r] = x]
        BY <2>6 DEF Orders
      <4>2. x \notin Committed
        BY DEF Committed
      <4>3. Pending(a)' = IF a = actionId[r] /\ x \in Committed THEN Pending(a) \cup {r}
                          ELSE Pending(a) \ {r}
        BY <3>1, <4>1, PendingMoves
      <4>4. QED
        BY <4>2, <4>3
    <3>3. /\ IsFiniteSet(Pending(a) \ {r})
          /\ Cardinality(Pending(a) \ {r})
               = IF r \in Pending(a) THEN Cardinality(Pending(a)) - 1 ELSE Cardinality(Pending(a))
      BY <2>1, FS_RemoveElement
    <3>4. actionId[r] = a => r \in Pending(a)
      BY <3>1 DEF Pending, Committed
    <3>5. /\ actionId[r] # a => placed'[a] = placed[a]
          /\ placed'[a] \in {placed[a], placed[a] + 1}
      <4>1. placed \in [ActionId -> Nat]
        BY DEF TypeOK
      <4>2. CASE placed' = [placed EXCEPT ![actionId[r]] = @ + 1]
        BY <4>1, <4>2
      <4>3. CASE UNCHANGED placed
        BY <4>3
      <4>4. QED
        BY <2>6, <4>2, <4>3 DEF Orders, InvokeTool
    <3>6. QED
      BY <2>1, <2>2, <3>1, <3>2, <3>3, <3>4, <3>5
  <2>7. ASSUME NEW b \in ActionId, DedupExpires(b)
        PROVE  /\ IsFiniteSet(Pending(a)')
               /\ placed'[a] + Cardinality(Pending(a)')
                    <= (IF a \in dedup' THEN 1 ELSE 0) + lapses'
    <3>1. /\ UNCHANGED <<pc, actionId, placed>> /\ lapses' = lapses + 1
          /\ dedup' = dedup \ {b}
      BY <2>7 DEF DedupExpires
    <3>2. Pending(a)' = Pending(a)
      BY <3>1 DEF Pending
    <3>3. QED
      BY <2>1, <2>2, <3>1, <3>2
  <2>8. QED
    BY <2>3, <2>4, <2>5, <2>6, <2>7 DEF OrderStep
<1>3. QED
  BY <1>1, <1>2, TypeCorrect, PTL DEF Spec

\* quick_order_action: one action id places at most one order, and one more for
\* each time its dedup key has expired, however requests overlap, fail between
\* key and order, lose their client or are killed.
THEOREM OneOrder == Spec => []OrderPlacedOnce
<1>1. TypeOK /\ OrdersPaid => OrderPlacedOnce
  <2> SUFFICES ASSUME TypeOK, OrdersPaid, NEW a \in ActionId PROVE placed[a] <= 1 + lapses
    BY DEF OrderPlacedOnce
  <2>1. Cardinality(Pending(a)) \in Nat /\ placed[a] \in Nat /\ lapses \in Nat
    BY FS_CardinalityType DEF OrdersPaid, TypeOK
  <2>2. placed[a] + Cardinality(Pending(a)) <= (IF a \in dedup THEN 1 ELSE 0) + lapses
    BY DEF OrdersPaid
  <2>3. QED
    BY <2>1, <2>2
<1>2. QED
  BY <1>1, OrdersPaidHolds, TypeCorrect, PTL

-----------------------------------------------------------------------------
(* Answers.                                                                 *)

\* Where an answer is stored.
Storing(r) ==
    pc[r] \in {"saving", "cleanup", "unsaved"} \/ r \in pendingSave \/ adrift[r] > 0

\* How often r may still store its answer: its threads adrift, and the times it
\* will still call save_assistant_history with the flag unset.
Tries(r) ==
    IF saved[r] THEN 0
    ELSE IF pc[r] \in {"ended", "releasing"} THEN IF r \in pendingSave THEN 1 ELSE 0
    ELSE IF pc[r] \in {"saved", "cleanup"} THEN 1 ELSE 2
Owed(r) == adrift[r] + Tries(r)

\* What a step can do to the history: nothing, delete everything, store a
\* message of a user, or store an answer, which takes one of the times its
\* request has left and sets its flag or loses its reply.
StoreStep ==
    /\ \A q \in Request : Owed(q)' <= Owed(q) /\ (saved[q] => saved'[q])
    /\ replyLost \subseteq replyLost'
    /\ \/ UNCHANGED history
       \/ history' = <<>>
       \/ \E q \in Request : history' = Append(history, UserMessage(q))
       \/ \E q \in Request :
             /\ Storing(q) /\ history' = Append(history, Answer(q))
             /\ Owed(q)' < Owed(q)
             /\ q \in replyLost' \/ (~saved[q] /\ saved'[q])

LEMMA OwedType == ASSUME TypeOK, NEW r \in Request PROVE Owed(r) \in Nat
BY DEF TypeOK, Owed, Tries

LEMMA OwedTypeNext == ASSUME TypeOK', NEW r \in Request PROVE Owed(r)' \in Nat
<1>1. adrift'[r] \in Nat
  BY DEF TypeOK
<1>2. Tries(r)' \in Nat
  BY DEF Tries
<1>3. QED
  BY <1>1, <1>2 DEF Owed

LEMMA SaveAnswerStep ==
  ASSUME TypeOK, NEW r \in Request, Storing(r), SaveAnswer(r), UNCHANGED replyLost,
         \A q \in Request \ {r} : Owed(q)' = Owed(q),
         captured[r] /\ ~saved[r] => Owed(r)' < Owed(r) /\ Owed(r)' <= Owed(r),
         ~(captured[r] /\ ~saved[r]) => Owed(r)' <= Owed(r)
  PROVE  StoreStep
<1>1. \A q \in Request : Owed(q) \in Nat
  BY OwedType
<1>2. \A q \in Request : saved[q] => saved'[q]
  BY SaveAnswerFlags
<1>3. CASE captured[r] /\ ~saved[r]
  <2>1. history' = Append(history, Answer(r)) /\ saved'[r]
    BY <1>3 DEF SaveAnswer, TypeOK
  <2>2. \A q \in Request : Owed(q)' <= Owed(q)
    BY <1>1, <1>3
  <2>3. QED
    BY <1>2, <1>3, <2>1, <2>2 DEF StoreStep
<1>4. CASE ~(captured[r] /\ ~saved[r])
  <2>1. UNCHANGED history
    BY <1>4 DEF SaveAnswer
  <2>2. \A q \in Request : Owed(q)' <= Owed(q)
    BY <1>1, <1>4
  <2>3. QED
    BY <1>2, <2>1, <2>2 DEF StoreStep
<1>5. QED
  BY <1>3, <1>4

LEMMA EveryStepStores == TypeOK /\ Places /\ [Next]_vars => StoreStep
<1> SUFFICES ASSUME TypeOK, Places, [Next]_vars PROVE StoreStep
  OBVIOUS
<1> USE DEF StoreStep, Owed, Tries, Storing
<1>0. /\ pc \in [Request -> Place] /\ adrift \in [Request -> Nat]
      /\ saved \in [Request -> BOOLEAN]
  BY DEF TypeOK
<1>01. \A r \in Request : r \in pendingSave => pc[r] = "ended"
  BY DEF Places, PlaceOf
<1>1. ASSUME NEW r \in Request, SaveUser(r) PROVE StoreStep
  BY <1>0, <1>01, <1>1 DEF SaveUser, Goto
<1>2. ASSUME NEW r \in Request, ReadHistory(r) PROVE StoreStep
  BY <1>0, <1>01, <1>2 DEF ReadHistory, Goto
<1>3. ASSUME NEW r \in Request, Acquire(r) PROVE StoreStep
  BY <1>0, <1>01, <1>3 DEF Acquire, Goto
<1>4. ASSUME NEW r \in Request, Busy(r) PROVE StoreStep
  BY <1>0, <1>01, <1>4 DEF Busy, Finish, Goto, Tell
<1>5. ASSUME NEW r \in Request, AppendMessage(r) PROVE StoreStep
  BY <1>0, <1>01, <1>5 DEF AppendMessage, Finish, Goto, Tell
<1>6. ASSUME NEW r \in Request, StartStream(r) PROVE StoreStep
  BY <1>0, <1>01, <1>6 DEF StartStream, Goto
<1>7. ASSUME NEW r \in Request, Chunk(r) PROVE StoreStep
  BY <1>0, <1>01, <1>7 DEF Chunk
<1>8. ASSUME NEW r \in Request, LastChunk(r) PROVE StoreStep
  BY <1>0, <1>01, <1>8 DEF LastChunk, Goto
<1>9. ASSUME NEW r \in Request, AbortSeen(r) PROVE StoreStep
  BY <1>0, <1>01, <1>9 DEF AbortSeen, Goto, Tell
<1>10. ASSUME NEW r \in Request, TurnRaises(r) PROVE StoreStep
  BY <1>0, <1>01, <1>10 DEF TurnRaises, Goto, Tell
<1>11. ASSUME NEW r \in Request, SaveBeforeDone(r) PROVE StoreStep
  <2>1. /\ SaveAnswer(r) /\ Storing(r) /\ UNCHANGED <<adrift, replyLost, captured>>
        /\ pc' = [pc EXCEPT ![r] = "saved"] /\ pendingSave' = pendingSave
    BY <1>11 DEF SaveBeforeDone, Goto, Finish
  <2>2. pc[r] \in {"saving", "cleanup", "unsaved"}
    BY <1>11 DEF SaveBeforeDone
  <2>3. \A q \in Request \ {r} : Owed(q)' = Owed(q)
    BY <1>0, <2>1, SaveAnswerFlags
  <2>4. captured[r] /\ ~saved[r] => Owed(r)' < Owed(r) /\ Owed(r)' <= Owed(r)
    BY <1>0, <1>01, <2>1, <2>2 DEF SaveAnswer
  <2>5. ~(captured[r] /\ ~saved[r]) => Owed(r)' <= Owed(r)
    BY <1>0, <1>01, <2>1, <2>2 DEF SaveAnswer
  <2>6. QED
    BY <2>1, <2>3, <2>4, <2>5, SaveAnswerStep
<1>12. ASSUME NEW r \in Request, SendDone(r) PROVE StoreStep
  BY <1>0, <1>01, <1>12 DEF SendDone, Goto, Tell
<1>13. ASSUME NEW r \in Request, CleanupSave(r) PROVE StoreStep
  <2>1. /\ SaveAnswer(r) /\ Storing(r) /\ UNCHANGED <<adrift, replyLost, captured>>
        /\ pc' = [pc EXCEPT ![r] = "releasing"] /\ pendingSave' = pendingSave
    BY <1>13 DEF CleanupSave, Goto, Finish
  <2>2. pc[r] \in {"saving", "cleanup", "unsaved"}
    BY <1>13 DEF CleanupSave
  <2>3. \A q \in Request \ {r} : Owed(q)' = Owed(q)
    BY <1>0, <2>1, SaveAnswerFlags
  <2>4. captured[r] /\ ~saved[r] => Owed(r)' < Owed(r) /\ Owed(r)' <= Owed(r)
    BY <1>0, <1>01, <2>1, <2>2 DEF SaveAnswer
  <2>5. ~(captured[r] /\ ~saved[r]) => Owed(r)' <= Owed(r)
    BY <1>0, <1>01, <2>1, <2>2 DEF SaveAnswer
  <2>6. QED
    BY <2>1, <2>3, <2>4, <2>5, SaveAnswerStep
<1>14. ASSUME NEW r \in Request, Release(r) PROVE StoreStep
  BY <1>0, <1>01, <1>14 DEF Release, Unlock, Goto
<1>15. ASSUME NEW r \in Request, SyncAnswered(r) PROVE StoreStep
  BY <1>0, <1>01, <1>15 DEF SyncAnswered, Goto
<1>16. ASSUME NEW r \in Request, SyncUnlock(r) PROVE StoreStep
  BY <1>0, <1>01, <1>16 DEF SyncUnlock, Unlock, Finish, Goto, Tell
<1>17. ASSUME NEW r \in Request, SyncSave(r) PROVE StoreStep
  <2>1. /\ SaveAnswer(r) /\ Storing(r) /\ UNCHANGED <<adrift, replyLost, captured>>
        /\ pc' = [pc EXCEPT ![r] = "ended"] /\ pendingSave' = pendingSave
    BY <1>17 DEF SyncSave, Goto, Finish
  <2>2. pc[r] \in {"saving", "cleanup", "unsaved"}
    BY <1>17 DEF SyncSave
  <2>3. \A q \in Request \ {r} : Owed(q)' = Owed(q)
    BY <1>0, <2>1, SaveAnswerFlags
  <2>4. captured[r] /\ ~saved[r] => Owed(r)' < Owed(r) /\ Owed(r)' <= Owed(r)
    BY <1>0, <1>01, <2>1, <2>2 DEF SaveAnswer
  <2>5. ~(captured[r] /\ ~saved[r]) => Owed(r)' <= Owed(r)
    BY <1>0, <1>01, <2>1, <2>2 DEF SaveAnswer
  <2>6. QED
    BY <2>1, <2>3, <2>4, <2>5, SaveAnswerStep
<1>18. ASSUME NEW r \in Request, CheckDedup(r) PROVE StoreStep
  BY <1>0, <1>01, <1>18 DEF CheckDedup, Goto
<1>19. ASSUME NEW r \in Request, RefuseDuplicate(r) PROVE StoreStep
  BY <1>0, <1>01, <1>19 DEF RefuseDuplicate, Unlock, Finish, Goto, Tell
<1>20. ASSUME NEW r \in Request, NoteOrder(r) PROVE StoreStep
  BY <1>0, <1>01, <1>20 DEF NoteOrder, Goto
<1>21. ASSUME NEW r \in Request, ValidateOrder(r) PROVE StoreStep
  BY <1>0, <1>01, <1>21 DEF ValidateOrder, Goto
<1>22. ASSUME NEW r \in Request, PlaceOrder(r) PROVE StoreStep
  BY <1>0, <1>01, <1>22 DEF PlaceOrder, Goto
<1>23. ASSUME NEW r \in Request, AnswerOrder(r) PROVE StoreStep
  BY <1>0, <1>01, <1>23 DEF AnswerOrder, Goto
<1>24. ASSUME NEW r \in Request, SendOrderDone(r) PROVE StoreStep
  BY <1>0, <1>01, <1>24 DEF SendOrderDone, Goto, Tell
<1>25. ASSUME NEW r \in Request, CloseOrder(r) PROVE StoreStep
  BY <1>0, <1>01, <1>25 DEF CloseOrder, Unlock, Goto
<1>26. ASSUME NEW r \in Request, CutShort(r) PROVE StoreStep
  <2>1. /\ UNCHANGED <<history, saved, pendingSave>> /\ pc' = [pc EXCEPT ![r] = "ended"]
        /\ pc[r] \in {"cleanup", "releasing", "closing"} /\ replyLost \subseteq replyLost'
        /\ \/ adrift' = adrift
           \/ /\ adrift' = [adrift EXCEPT ![r] = @ + 1] /\ pc[r] = "cleanup" /\ ~saved[r]
    BY <1>26 DEF CutShort, SaveAdrift, Goto
  <2>2. QED
    BY <1>0, <1>01, <2>1
<1>27. ASSUME NEW r \in Request, BackgroundSave(r) PROVE StoreStep
  <2>1. /\ SaveAnswer(r) /\ Storing(r) /\ UNCHANGED <<adrift, replyLost, captured, pc>>
        /\ pendingSave' = pendingSave \ {r} /\ r \in pendingSave
    BY <1>27 DEF BackgroundSave
  <2>2. pc[r] = "ended"
    BY <2>1 DEF Places, PlaceOf
  <2>3. \A q \in Request \ {r} : Owed(q)' = Owed(q)
    BY <1>0, <2>1, SaveAnswerFlags
  <2>4. captured[r] /\ ~saved[r] => Owed(r)' < Owed(r) /\ Owed(r)' <= Owed(r)
    BY <1>0, <2>1, <2>2 DEF SaveAnswer
  <2>5. ~(captured[r] /\ ~saved[r]) => Owed(r)' <= Owed(r)
    BY <1>0, <2>1, <2>2 DEF SaveAnswer
  <2>6. QED
    BY <2>1, <2>3, <2>4, <2>5, SaveAnswerStep
<1>28. ASSUME NEW r \in Request, ThreadSaves(r) PROVE StoreStep
  <2>1. /\ adrift[r] > 0 /\ adrift' = [adrift EXCEPT ![r] = @ - 1]
        /\ UNCHANGED <<pc, pendingSave, saved, replyLost>>
        /\ history' = Append(history, Answer(r)) \/ UNCHANGED history
    BY <1>28 DEF ThreadSaves
  <2>2. r \in replyLost
    BY <2>1 DEF Places, AdriftOf
  <2>3. /\ \A q \in Request \ {r} : Owed(q)' = Owed(q)
        /\ Owed(r)' < Owed(r) /\ Owed(r)' <= Owed(r)
    BY <1>0, <2>1
  <2>4. /\ \A q \in Request : Owed(q)' <= Owed(q) /\ (saved[q] => saved'[q])
        /\ replyLost \subseteq replyLost'
    BY <1>0, <2>1, <2>3
  <2> HIDE DEF Owed, Tries
  <2>5. CASE history' = Append(history, Answer(r))
    BY <2>1, <2>2, <2>3, <2>4, <2>5
  <2>6. QED
    BY <2>1, <2>4, <2>5
<1>29. ASSUME NEW r \in Request, SaveFails(r) PROVE StoreStep
  <2>1. UNCHANGED <<saved, adrift, pendingSave>> /\ replyLost \subseteq replyLost'
    BY <1>29 DEF SaveFails, Harm, SaveRaises
  <2>2. CASE pc[r] \in {"saving", "cleanup", "unsaved"} /\ ~saved[r] /\ SaveRaises(r, Answer(r))
             /\ (Goto(r, "ended") \/ (Goto(r, "cleanup") /\ pc[r] = "saving"))
    <3>1. /\ \A q \in Request \ {r} : Owed(q)' = Owed(q)
          /\ Owed(r)' < Owed(r) /\ Owed(r)' <= Owed(r)
      BY <1>0, <1>01, <2>1, <2>2 DEF Goto
    <3>2. \A q \in Request : Owed(q)' <= Owed(q) /\ (saved[q] => saved'[q])
      BY <1>0, <2>1, <3>1
    <3> HIDE DEF Owed, Tries
    <3>3. CASE history' = Append(history, Answer(r)) /\ replyLost' = replyLost \cup {r}
      BY <2>1, <2>2, <3>1, <3>2, <3>3
    <3>4. QED
      BY <2>1, <2>2, <3>2, <3>3 DEF SaveRaises
  <2>3. CASE SaveRaises(r, UserMessage(r)) /\ Goto(r, "ended")
    <3>1. \A q \in Request : Owed(q)' <= Owed(q)
      BY <1>0, <1>01, <2>1, <2>3 DEF Goto
    <3>2. QED
      BY <1>0, <2>1, <2>3, <3>1 DEF SaveRaises
  <2>4. /\ pc[r] \in {"saving", "unsaved"} => ~saved[r]
    BY DEF Places, PlaceOf, Started
  <2>5. QED
    BY <2>2, <2>3, <2>4, <1>29, Zenon DEF SaveFails, Finish
<1>30. ASSUME NEW r \in Request, UnlockFails(r) PROVE StoreStep
  BY <1>0, <1>01, <1>30 DEF UnlockFails, Harm, Goto, Tell
<1>31. ASSUME NEW r \in Request, ClientGone(r) PROVE StoreStep
  <2>1. UNCHANGED <<history, saved, pendingSave, adrift, replyLost>>
    BY <1>31 DEF ClientGone, Harm
  <2>2. \/ pc' = [pc EXCEPT ![r] = "ended"] /\ pc[r] \in {"granted", "noted"}
        \/ /\ pc' = [pc EXCEPT ![r] = IF pc[r] \in StreamPlaces THEN "cleanup" ELSE "closing"]
           /\ AtYield(r)
    BY <1>31 DEF ClientGone, ToFinally, Goto, AtYield
  <2>3. QED
    BY <1>0, <1>01, <2>1, <2>2 DEF AtYield, StreamPlaces
<1>32. ASSUME NEW r \in Request, ClientGoneInAwait(r) PROVE StoreStep
  <2>1. /\ UNCHANGED <<history, saved, pendingSave>> /\ replyLost \subseteq replyLost'
        /\ \/ adrift' = adrift
           \/ /\ adrift' = [adrift EXCEPT ![r] = @ + 1] /\ pc[r] = "saving"
    BY <1>32 DEF ClientGoneInAwait, SaveAdrift, Harm
  <2>2. /\ pc' = [pc EXCEPT ![r] = IF pc[r] = "releasing" THEN "releasing"
                                   ELSE IF pc[r] \in StreamPlaces THEN "cleanup" ELSE "closing"]
        /\ InAwait(r)
    BY <1>32 DEF ClientGoneInAwait, ToFinally, Goto
  <2>3. pc[r] = "saving" => ~saved[r]
    BY DEF Places, PlaceOf, Started
  <2>4. QED
    BY <1>0, <1>01, <2>1, <2>2, <2>3 DEF InAwait, StreamPlaces
<1>33. ASSUME NEW r \in Request, WorkerDies(r) PROVE StoreStep
  BY <1>0, <1>01, <1>33 DEF WorkerDies, Harm, Goto, Tell
<1>34. CASE AbortAsked
  BY <1>0, <1>01, <1>34 DEF AbortAsked
<1>35. CASE AbortSet
  BY <1>0, <1>01, <1>35 DEF AbortSet
<1>36. CASE DeleteSession
  BY <1>0, <1>01, <1>36 DEF DeleteSession
<1>37. CASE LockExpires
  BY <1>0, <1>01, <1>37 DEF LockExpires
<1>38. CASE AbortExpires
  BY <1>0, <1>01, <1>38 DEF AbortExpires
<1>39. ASSUME NEW a \in ActionId, DedupExpires(a) PROVE StoreStep
  BY <1>0, <1>01, <1>39 DEF DedupExpires
<1>40. CASE UNCHANGED vars
  BY <1>0, <1>01, <1>40
<1>41. QED
  BY <1>1, <1>2, <1>3, <1>4, <1>5, <1>6, <1>7, <1>8, <1>9, <1>10, <1>11, <1>12,
     <1>13, <1>14, <1>15, <1>16, <1>17, <1>18, <1>19, <1>20, <1>21, <1>22, <1>23,
     <1>24, <1>25, <1>26, <1>27, <1>28, <1>29, <1>30, <1>31, <1>32, <1>33, <1>34,
     <1>35, <1>36, <1>37, <1>38, <1>39, <1>40
     DEF Next, Handle, Fault

\* A message that is appended is a copy of the answer it is, and of no other.
LEMMA AppendCopies ==
  ASSUME TypeOK, NEW m \in Message, history' = Append(history, m), NEW r \in Request
  PROVE  /\ Copies(r)' = IF m = Answer(r) THEN Copies(r) \cup {Len(history) + 1} ELSE Copies(r)
         /\ Len(history) + 1 \notin Copies(r)
<1> DEFINE n == Len(history)
<1>1. /\ n \in Nat /\ DOMAIN history = 1 .. n /\ DOMAIN history' = 1 .. n + 1
      /\ history'[n + 1] = m /\ \A i \in 1 .. n : history'[i] = history[i]
  BY AppendProperties, LenProperties DEF TypeOK
<1>2. \A i : i \in 1 .. n + 1 <=> i = n + 1 \/ i \in 1 .. n
  BY <1>1
<1>3. n + 1 \notin 1 .. n
  BY <1>1
<1> HIDE DEF n
<1>4. \A i : i \in Copies(r) <=> i \in 1 .. n /\ history[i] = Answer(r)
  BY <1>1 DEF Copies
<1>5. \A i : i \in Copies(r)' <=> i \in 1 .. n + 1 /\ history'[i] = Answer(r)
  BY <1>1 DEF Copies, Answer
<1>6. CASE m = Answer(r)
  <2>1. \A i : i \in Copies(r)' <=> i \in Copies(r) \cup {n + 1}
    BY <1>1, <1>2, <1>4, <1>5, <1>6
  <2>2. QED
    BY <1>3, <1>4, <1>6, <2>1 DEF n
<1>7. CASE m # Answer(r)
  <2>1. \A i : i \in Copies(r)' <=> i \in Copies(r)
    BY <1>1, <1>2, <1>4, <1>5, <1>7
  <2>2. QED
    BY <1>3, <1>4, <1>7, <2>1 DEF n
<1>8. QED
  BY <1>6, <1>7

\* What is stored and what can still be stored is two answers at most, and
\* of an answer that no lost reply stands for the flag knows.
CopyInv ==
    \A r \in Request :
        /\ IsFiniteSet(Copies(r))
        /\ Cardinality(Copies(r)) + Owed(r) <= 2
        /\ r \notin replyLost => Cardinality(Copies(r)) <= IF saved[r] THEN 1 ELSE 0

LEMMA CopiesHold == Spec => []CopyInv
<1>1. Init => CopyInv
  <2> SUFFICES ASSUME Init, NEW r \in Request
               PROVE  /\ IsFiniteSet(Copies(r)) /\ Cardinality(Copies(r)) + Owed(r) <= 2
                      /\ Cardinality(Copies(r)) <= IF saved[r] THEN 1 ELSE 0
    BY DEF CopyInv
  <2>1. Copies(r) = {}
    BY EmptySeq DEF Init, Copies
  <2>2. Owed(r) = 2 /\ ~saved[r]
    BY DEF Init, Owed, Tries
  <2>3. QED
    BY <2>1, <2>2, FS_EmptySet
<1>2. TypeOK /\ TypeOK' /\ Places /\ CopyInv /\ [Next]_vars => CopyInv'
  <2> SUFFICES ASSUME TypeOK, TypeOK', StoreStep, CopyInv, NEW r \in Request
               PROVE  /\ IsFiniteSet(Copies(r)') /\ Cardinality(Copies(r)') + Owed(r)' <= 2
                      /\ r \notin replyLost' =>
                           Cardinality(Copies(r)') <= IF saved'[r] THEN 1 ELSE 0
    BY EveryStepStores DEF CopyInv
  <2>1. /\ IsFiniteSet(Copies(r)) /\ Cardinality(Copies(r)) \in Nat
        /\ Cardinality(Copies(r)) + Owed(r) <= 2
        /\ r \notin replyLost => Cardinality(Copies(r)) <= IF saved[r] THEN 1 ELSE 0
        /\ Owed(r) \in Nat /\ Owed(r)' \in Nat
        /\ Owed(r)' <= Owed(r) /\ (saved[r] => saved'[r]) /\ replyLost \subseteq replyLost'
    BY OwedType, OwedTypeNext, FS_CardinalityType DEF CopyInv, StoreStep
  <2>2. CASE Copies(r)' = Copies(r)
    BY <2>1, <2>2
  <2>3. CASE history' = <<>>
    <3>1. Copies(r)' = {}
      BY <2>3, EmptySeq DEF Copies
    <3>2. IsFiniteSet(Copies(r)') /\ Cardinality(Copies(r)') = 0
      BY <3>1, FS_EmptySet
    <3>3. QED
      BY <2>1, <3>2
  <2>4. CASE UNCHANGED history
    BY <2>2, <2>4 DEF Copies, Answer
  <2>5. ASSUME NEW q \in Request, history' = Append(history, UserMessage(q))
        PROVE  Copies(r)' = Copies(r)
    <3>1. UserMessage(q) \in Message /\ UserMessage(q) # Answer(r)
      BY UserIsMessage DEF UserMessage, Answer
    <3>2. QED
      BY <2>5, <3>1, AppendCopies
  <2>6. ASSUME NEW q \in Request, history' = Append(history, Answer(q)), q # r
        PROVE  Copies(r)' = Copies(r)
    <3>1. Answer(q) \in Message /\ Answer(q) # Answer(r)
      BY <2>6, AnswerIsMessage DEF Answer
    <3>2. QED
      BY <2>6, <3>1, AppendCopies
  <2>7. CASE /\ history' = Append(history, Answer(r)) /\ Owed(r)' < Owed(r)
             /\ r \in replyLost' \/ (~saved[r] /\ saved'[r])
    <3>1. /\ Copies(r)' = Copies(r) \cup {Len(history) + 1}
          /\ Len(history) + 1 \notin Copies(r)
      BY <2>7, AnswerIsMessage, AppendCopies
    <3>2. IsFiniteSet(Copies(r)') /\ Cardinality(Copies(r)') = Cardinality(Copies(r)) + 1
      BY <2>1, <3>1, FS_AddElement
    <3>3. QED
      BY <2>1, <2>7, <3>2
  <2>8. QED
    BY <2>2, <2>3, <2>4, <2>5, <2>6, <2>7 DEF StoreStep
<1>3. QED
  BY <1>1, <1>2, TypeCorrect, PlacesHold, PTL DEF Spec

\* save_assistant_history: the answer of a turn is in the history at most once,
\* although every stream calls it before DONE and again in `finally`; a second
\* copy means that a save reached Redis without its handler learning of it, and
\* there is never a third, however saves raise, clients leave and threads lag.
THEOREM OneAnswer == Spec => []AnswerStoredOnce
<1>1. TypeOK /\ CopyInv => AnswerStoredOnce
  <2> SUFFICES ASSUME TypeOK, CopyInv, NEW r \in Request
               PROVE  Cardinality(Copies(r)) <= IF r \in replyLost THEN 2 ELSE 1
    BY DEF AnswerStoredOnce
  <2>1. Owed(r) \in Nat /\ Cardinality(Copies(r)) \in Nat
    BY OwedType, FS_CardinalityType DEF CopyInv
  <2>2. QED
    BY <2>1 DEF CopyInv
<1>2. QED
  BY <1>1, CopiesHold, TypeCorrect, PTL

-----------------------------------------------------------------------------
(* Serial turns.                                                            *)

Late == lost \cap Holders
Recorded == {r \in Request : saved[r] /\ kind[r] = "stream"}

\* What a step can do to the turns: nothing, or let a request begin, leave the
\* session, set its flag or outlive the key.
SameFlags == \A q \in Request : kind[q] = "stream" => saved'[q] = saved[q]
Begins(r) ==
    /\ lock = Free /\ pc[r] \in Before
    /\ Holders' = Holders \cup {r} /\ UNCHANGED lost /\ SameFlags
Leaves(r) ==
    /\ r \in Holders /\ Holders' = Holders \ {r} /\ SameFlags
    /\ UNCHANGED lost \/ Unlock(r)
Records(r) ==
    /\ r \in Holders /\ UNCHANGED <<Holders, lost>>
    /\ ~saved[r] /\ saved' = [saved EXCEPT ![r] = TRUE]
Outlives(r) == lock = r /\ UNCHANGED Holders /\ SameFlags /\ lost' = lost \cup {r}
TurnStep ==
    /\ kind' = kind
    /\ \/ UNCHANGED <<Holders, lost>> /\ SameFlags
       \/ \E r \in Request : Begins(r) \/ Leaves(r) \/ Records(r) \/ Outlives(r)

LEMMA SaveAnswerRecords ==
    ASSUME TypeOK, NEW r \in Request, SaveAnswer(r), kind' = kind,
           UNCHANGED <<Holders, lost>>, r \in Holders
    PROVE  TurnStep
<1>1. CASE captured[r] /\ ~saved[r]
  <2>1. Records(r)
    BY <1>1 DEF SaveAnswer, Records
  <2>2. QED
    BY <2>1 DEF TurnStep
<1>2. CASE ~(captured[r] /\ ~saved[r])
  <2>1. SameFlags
    BY <1>2 DEF SaveAnswer, SameFlags
  <2>2. QED
    BY <2>1 DEF TurnStep
<1>3. QED
  BY <1>1, <1>2

LEMMA EveryStepTurns == TypeOK /\ Places /\ [Next]_vars => TurnStep
<1> SUFFICES ASSUME TypeOK, Places, [Next]_vars PROVE TurnStep
  OBVIOUS
<1> USE DEF TurnStep, SameFlags, Holders, Holding, StreamPlaces, OrderPlaces, Before, Place, After
<1>0. /\ pc \in [Request -> Place] /\ saved \in [Request -> BOOLEAN]
      /\ lock \in Request \cup {Free}
  BY DEF TypeOK
<1>01. ASSUME NEW r \in Request, NEW x \in Place, pc' = [pc EXCEPT ![r] = x],
               UNCHANGED <<kind, saved, lost>>, pc[r] \in Holding \/ x \notin Holding
       PROVE  TurnStep
  <2>1. CASE pc[r] \in Holding /\ x \notin Holding
    <3>1. r \in Holders /\ Holders' = Holders \ {r}
      BY <1>0, <1>01, <2>1
    <3>2. Leaves(r)
      BY <1>01, <3>1 DEF Leaves
    <3>3. QED
      BY <1>01, <3>2
  <2>2. CASE pc[r] \in Holding /\ x \in Holding
    <3>1. Holders' = Holders
      BY <1>0, <1>01, <2>2
    <3>2. QED
      BY <1>01, <3>1
  <2>3. CASE pc[r] \notin Holding /\ x \notin Holding
    <3>1. Holders' = Holders
      BY <1>0, <1>01, <2>3
    <3>2. QED
      BY <1>01, <3>1
  <2>4. QED
    BY <1>01, <2>1, <2>2, <2>3
<1>1. ASSUME NEW r \in Request, SaveUser(r) PROVE TurnStep
  BY <1>0, <1>1 DEF SaveUser, Goto
<1>2. ASSUME NEW r \in Request, ReadHistory(r) PROVE TurnStep
  BY <1>0, <1>2 DEF ReadHistory, Goto
<1>3. ASSUME NEW r \in Request, Acquire(r) PROVE TurnStep
  <2>1. /\ \E x \in Holding : pc' = [pc EXCEPT ![r] = x]
        /\ lock = Free /\ pc[r] \in Before /\ UNCHANGED <<kind, saved, lost>>
    BY <1>3 DEF Acquire, Goto
  <2>2. Holders' = Holders \cup {r}
    BY <1>0, <2>1
  <2>3. Begins(r)
    BY <2>1, <2>2 DEF Begins
  <2>4. QED
    BY <2>1, <2>3
<1>4. ASSUME NEW r \in Request, Busy(r) PROVE TurnStep
  BY <1>0, <1>4 DEF Busy, Finish, Goto, Tell
<1>5. ASSUME NEW r \in Request, AppendMessage(r) PROVE TurnStep
  BY <1>0, <1>5 DEF AppendMessage, Finish, Goto, Tell
<1>6. ASSUME NEW r \in Request, StartStream(r) PROVE TurnStep
  BY <1>0, <1>6 DEF StartStream, Goto
<1>7. ASSUME NEW r \in Request, Chunk(r) PROVE TurnStep
  BY <1>0, <1>7 DEF Chunk
<1>8. ASSUME NEW r \in Request, LastChunk(r) PROVE TurnStep
  BY <1>0, <1>8 DEF LastChunk, Goto
<1>9. ASSUME NEW r \in Request, AbortSeen(r) PROVE TurnStep
  BY <1>0, <1>9 DEF AbortSeen, Goto, Tell
<1>10. ASSUME NEW r \in Request, TurnRaises(r) PROVE TurnStep
  BY <1>0, <1>10 DEF TurnRaises, Goto, Tell
<1>11. ASSUME NEW r \in Request, SaveBeforeDone(r) PROVE TurnStep
  <2>1. /\ pc' = [pc EXCEPT ![r] = "saved"] /\ UNCHANGED <<kind, lost>> /\ SaveAnswer(r)
        /\ pc[r] \in Holding /\ "saved" \in Holding
    BY <1>11 DEF SaveBeforeDone, Goto
  <2>2. UNCHANGED Holders /\ r \in Holders
    BY <1>0, <2>1
  <2>3. QED
    BY <2>1, <2>2, SaveAnswerRecords
<1>12. ASSUME NEW r \in Request, SendDone(r) PROVE TurnStep
  BY <1>0, <1>12 DEF SendDone, Goto, Tell
<1>13. ASSUME NEW r \in Request, CleanupSave(r) PROVE TurnStep
  <2>1. /\ pc' = [pc EXCEPT ![r] = "releasing"] /\ UNCHANGED <<kind, lost>> /\ SaveAnswer(r)
        /\ pc[r] \in Holding /\ "releasing" \in Holding
    BY <1>13 DEF CleanupSave, Goto
  <2>2. UNCHANGED Holders /\ r \in Holders
    BY <1>0, <2>1
  <2>3. QED
    BY <2>1, <2>2, SaveAnswerRecords
<1>14. ASSUME NEW r \in Request, Release(r) PROVE TurnStep
  <2>1. pc' = [pc EXCEPT ![r] = "ended"] /\ UNCHANGED <<kind, saved>> /\ pc[r] \in Holding
    BY <1>14 DEF Release, Goto
  <2>2. r \in Holders /\ Holders' = Holders \ {r}
    BY <1>0, <2>1
  <2>3. UNCHANGED lost \/ Unlock(r)
    BY <1>14 DEF Release
  <2>4. Leaves(r)
    BY <2>1, <2>2, <2>3 DEF Leaves
  <2>5. QED
    BY <2>1, <2>4
<1>15. ASSUME NEW r \in Request, SyncAnswered(r) PROVE TurnStep
  BY <1>0, <1>15 DEF SyncAnswered, Goto
<1>16. ASSUME NEW r \in Request, SyncUnlock(r) PROVE TurnStep
  <2>1. /\ \E x \in After : pc' = [pc EXCEPT ![r] = x]
        /\ UNCHANGED <<kind, saved>> /\ pc[r] \in Holding /\ Unlock(r)
    BY <1>16 DEF SyncUnlock, Finish, Goto, After
  <2>2. r \in Holders /\ Holders' = Holders \ {r}
    BY <1>0, <2>1 DEF After
  <2>3. Leaves(r)
    BY <2>1, <2>2 DEF Leaves
  <2>4. QED
    BY <2>1, <2>3
<1>17. ASSUME NEW r \in Request, SyncSave(r) PROVE TurnStep
  <2>1. /\ pc' = [pc EXCEPT ![r] = "ended"] /\ UNCHANGED <<kind, lost>> /\ SaveAnswer(r)
        /\ pc[r] \notin Holding /\ kind[r] = "sync"
    BY <1>17 DEF SyncSave, Finish, Goto, Places, PlaceOf
  <2>2. UNCHANGED Holders
    BY <1>0, <2>1
  <2>3. \A q \in Request \ {r} : saved'[q] = saved[q]
    BY <2>1, SaveAnswerFlags
  <2>4. QED
    BY <2>1, <2>2, <2>3
<1>18. ASSUME NEW r \in Request, CheckDedup(r) PROVE TurnStep
  BY <1>0, <1>18 DEF CheckDedup, Goto
<1>19. ASSUME NEW r \in Request, RefuseDuplicate(r) PROVE TurnStep
  <2>1. pc' = [pc EXCEPT ![r] = "ended"] /\ UNCHANGED <<kind, saved>> /\ pc[r] \in Holding
    BY <1>19 DEF RefuseDuplicate, Finish, Goto
  <2>2. r \in Holders /\ Holders' = Holders \ {r}
    BY <1>0, <2>1
  <2>3. UNCHANGED lost \/ Unlock(r)
    BY <1>19 DEF RefuseDuplicate
  <2>4. Leaves(r)
    BY <2>1, <2>2, <2>3 DEF Leaves
  <2>5. QED
    BY <2>1, <2>4
<1>20. ASSUME NEW r \in Request, NoteOrder(r) PROVE TurnStep
  BY <1>0, <1>20 DEF NoteOrder, Goto
<1>21. ASSUME NEW r \in Request, ValidateOrder(r) PROVE TurnStep
  BY <1>0, <1>21 DEF ValidateOrder, Goto
<1>22. ASSUME NEW r \in Request, PlaceOrder(r) PROVE TurnStep
  BY <1>0, <1>22 DEF PlaceOrder, Goto
<1>23. ASSUME NEW r \in Request, AnswerOrder(r) PROVE TurnStep
  BY <1>0, <1>23 DEF AnswerOrder, Goto
<1>24. ASSUME NEW r \in Request, SendOrderDone(r) PROVE TurnStep
  BY <1>0, <1>24 DEF SendOrderDone, Goto, Tell
<1>25. ASSUME NEW r \in Request, CloseOrder(r) PROVE TurnStep
  <2>1. pc' = [pc EXCEPT ![r] = "ended"] /\ UNCHANGED <<kind, saved>> /\ pc[r] \in Holding
    BY <1>25 DEF CloseOrder, Goto
  <2>2. r \in Holders /\ Holders' = Holders \ {r}
    BY <1>0, <2>1
  <2>3. UNCHANGED lost \/ Unlock(r)
    BY <1>25 DEF CloseOrder
  <2>4. Leaves(r)
    BY <2>1, <2>2, <2>3 DEF Leaves
  <2>5. QED
    BY <2>1, <2>4
<1>26. ASSUME NEW r \in Request, CutShort(r) PROVE TurnStep
  <2>1. pc' = [pc EXCEPT ![r] = "ended"] /\ UNCHANGED <<kind, saved>> /\ pc[r] \in Holding
    BY <1>26 DEF CutShort, Goto
  <2>2. r \in Holders /\ Holders' = Holders \ {r}
    BY <1>0, <2>1
  <2>3. UNCHANGED lost \/ Unlock(r)
    BY <1>26 DEF CutShort
  <2>4. Leaves(r)
    BY <2>1, <2>2, <2>3 DEF Leaves
  <2>5. QED
    BY <2>1, <2>4
<1>27. ASSUME NEW r \in Request, BackgroundSave(r) PROVE TurnStep
  <2>1. UNCHANGED <<pc, kind, lost>> /\ SaveAnswer(r) /\ kind[r] = "order"
    BY <1>27 DEF BackgroundSave, Places, PlaceOf
  <2>2. \A q \in Request \ {r} : saved'[q] = saved[q]
    BY <2>1, SaveAnswerFlags
  <2>3. QED
    BY <2>1, <2>2
<1>28. ASSUME NEW r \in Request, ThreadSaves(r) PROVE TurnStep
  BY <1>0, <1>28 DEF ThreadSaves
<1>29. ASSUME NEW r \in Request, SaveFails(r) PROVE TurnStep
  <2>1. UNCHANGED <<lost, kind, saved>> /\ (pc[r] \in Before \/ pc[r] \in Holding \/ pc[r] = "unsaved")
    BY <1>29 DEF SaveFails, Harm
  <2>2. pc' = [pc EXCEPT ![r] = "ended"] \/ (pc' = [pc EXCEPT ![r] = "cleanup"] /\ pc[r] = "saving")
    BY ONLY <1>29, Zenon DEF SaveFails, Finish, Goto
  <2>3. QED
    BY <1>0, <2>1, <2>2, <1>01
<1>30. ASSUME NEW r \in Request, UnlockFails(r) PROVE TurnStep
  <2>1. pc' = [pc EXCEPT ![r] = "ended"] /\ UNCHANGED <<kind, saved>> /\ pc[r] \in Holding
    BY <1>30 DEF UnlockFails, Harm, Goto
  <2>2. r \in Holders /\ Holders' = Holders \ {r}
    BY <1>0, <2>1
  <2>3. UNCHANGED lost \/ Unlock(r)
    BY <1>30 DEF UnlockFails, Harm
  <2>4. Leaves(r)
    BY <2>1, <2>2, <2>3 DEF Leaves
  <2>5. QED
    BY <2>1, <2>4
<1>31. ASSUME NEW r \in Request, ClientGone(r) PROVE TurnStep
  <2>1. UNCHANGED <<kind, saved, lost>> /\ pc[r] \in Holding
    BY <1>31 DEF ClientGone, AtYield, Harm
  <2>2. \E x \in Place : pc' = [pc EXCEPT ![r] = x]
    BY <1>31 DEF ClientGone, ToFinally, Goto, Place, After
  <2>3. QED
    BY <1>0, <1>01, <2>1, <2>2
<1>32. ASSUME NEW r \in Request, ClientGoneInAwait(r) PROVE TurnStep
  BY <1>0, <1>32 DEF ClientGoneInAwait, InAwait, ToFinally, SaveAdrift, Harm, Goto, Tell
<1>33. ASSUME NEW r \in Request, WorkerDies(r) PROVE TurnStep
  <2>1. pc' = [pc EXCEPT ![r] = "ended"] /\ UNCHANGED <<kind, saved, lost>>
    BY <1>33 DEF WorkerDies, Harm, Goto
  <2>2. "ended" \in Place /\ "ended" \notin Holding
    OBVIOUS
  <2>3. QED
    BY ONLY <1>01, <2>1, <2>2, r \in Request
<1>34. CASE AbortAsked
  BY <1>0, <1>34 DEF AbortAsked
<1>35. CASE AbortSet
  BY <1>0, <1>35 DEF AbortSet
<1>36. CASE DeleteSession
  BY <1>0, <1>36 DEF DeleteSession
<1>37. CASE LockExpires
  <2>1. UNCHANGED <<pc, kind, saved>>
    BY <1>37 DEF LockExpires
  <2>2. UNCHANGED lost \/ (lock \in Request /\ lost' = lost \cup {lock})
    BY <1>0, <1>37 DEF LockExpires
  <2>3. UNCHANGED Holders /\ SameFlags
    BY <2>1
  <2>4. lock \in Request /\ lost' = lost \cup {lock} => Outlives(lock)
    BY <2>3 DEF Outlives
  <2>5. QED
    BY <2>1, <2>2, <2>3, <2>4
<1>38. CASE AbortExpires
  BY <1>0, <1>38 DEF AbortExpires
<1>39. ASSUME NEW a \in ActionId, DedupExpires(a) PROVE TurnStep
  BY <1>0, <1>39 DEF DedupExpires
<1>40. CASE UNCHANGED vars
  BY <1>0, <1>40
<1>41. QED
  BY <1>1, <1>2, <1>3, <1>4, <1>5, <1>6, <1>7, <1>8, <1>9, <1>10, <1>11, <1>12,
     <1>13, <1>14, <1>15, <1>16, <1>17, <1>18, <1>19, <1>20, <1>21, <1>22, <1>23,
     <1>24, <1>25, <1>26, <1>27, <1>28, <1>29, <1>30, <1>31, <1>32, <1>33, <1>34,
     <1>35, <1>36, <1>37, <1>38, <1>39, <1>40
     DEF Next, Handle, Fault

LEMMA SerialInit == Init => Holders = {} /\ Late = {} /\ Recorded = {}
BY DEF Init, Holders, Late, Recorded, Holding, StreamPlaces, OrderPlaces

\* What a step does to the turns, as SerialTurns sees them.
LEMMA SerialStep ==
  ASSUME TypeOK, Places, KeyInv, TurnStep
  PROVE  \/ UNCHANGED <<Holders, Late, Recorded>>
         \/ \E t \in Request :
               \/ /\ t \notin Holders /\ Holders = Late /\ Holders' = Holders \cup {t}
                  /\ UNCHANGED <<Late, Recorded>>
               \/ /\ t \in Holders \ Late /\ Late' = Late \cup {t}
                  /\ UNCHANGED <<Holders, Recorded>>
               \/ /\ t \in Holders \ Recorded /\ Recorded' = Recorded \cup {t}
                  /\ UNCHANGED <<Holders, Late>>
               \/ /\ t \in Holders \ Late /\ Holders' = Holders \ {t}
                  /\ UNCHANGED <<Late, Recorded>>
               \/ /\ t \in Late /\ Holders' = Holders \ {t} /\ UNCHANGED Recorded
                  /\ Late' \in {Late \ {t}, Holders \ {t}}
<1>1. /\ kind' = kind /\ saved \in [Request -> BOOLEAN] /\ Holders \subseteq Request
      /\ Late = lost \cap Holders /\ Late' = lost' \cap Holders'
  BY DEF TurnStep, TypeOK, Holders, Late
<1>2. SameFlags => Recorded' = Recorded
  BY <1>1 DEF SameFlags, Recorded
<1>3. \A q \in Holders \ lost : lock = q
  BY DEF KeyInv, AtWork, Holders
<1>4. CASE UNCHANGED <<Holders, lost>> /\ SameFlags
  BY <1>1, <1>2, <1>4
<1>5. ASSUME NEW r \in Request, Begins(r)
      PROVE  /\ r \notin Holders /\ Holders = Late /\ Holders' = Holders \cup {r}
             /\ UNCHANGED <<Late, Recorded>>
  <2>1. r \notin lost /\ r \notin Holders
    BY <1>5 DEF Begins, Places, PlaceOf, Holders, Holding, StreamPlaces, OrderPlaces, Before
  <2>2. Holders \subseteq lost
    BY <1>1, <1>3, <1>5, RequestAssumption DEF Begins
  <2>3. QED
    BY <1>1, <1>2, <1>5, <2>1, <2>2 DEF Begins
<1>6. ASSUME NEW r \in Request, Leaves(r)
      PROVE  \/ /\ r \in Holders \ Late /\ Holders' = Holders \ {r}
                /\ UNCHANGED <<Late, Recorded>>
             \/ /\ r \in Late /\ Holders' = Holders \ {r} /\ UNCHANGED Recorded
                /\ Late' \in {Late \ {r}, Holders \ {r}}
  <2>1. r \in Holders /\ Holders' = Holders \ {r} /\ UNCHANGED Recorded
    BY <1>2, <1>6 DEF Leaves
  <2>2. CASE lost' = lost
    BY <1>1, <2>1, <2>2
  <2>3. CASE Unlock(r) /\ lost' # lost
    <3>1. lock \in Request \ {r} /\ lost' = lost \cup {lock}
      BY <2>3 DEF Unlock
    <3>2. Holders \subseteq lost \cup {lock} /\ r \in lost
      BY <1>3, <2>1, <3>1
    <3>3. Late' = (lost \cup {lock}) \cap (Holders \ {r})
      BY <1>1, <2>1, <3>1
    <3>4. Late' = Holders \ {r}
      BY <3>2, <3>3
    <3>5. QED
      BY <1>1, <2>1, <3>2, <3>4
  <2>4. QED
    BY <1>6, <2>2, <2>3 DEF Leaves
<1>7. ASSUME NEW r \in Request, Records(r)
      PROVE  \/ UNCHANGED <<Holders, Late, Recorded>>
             \/ /\ r \in Holders \ Recorded /\ Recorded' = Recorded \cup {r}
                /\ UNCHANGED <<Holders, Late>>
  <2>1. /\ r \in Holders \ Recorded /\ UNCHANGED <<Holders, Late>>
        /\ saved' = [saved EXCEPT ![r] = TRUE]
    BY <1>1, <1>7 DEF Records, Recorded
  <2>2. Recorded' = IF kind[r] = "stream" THEN Recorded \cup {r} ELSE Recorded
    BY <1>1, <2>1 DEF Recorded
  <2>3. QED
    BY <2>1, <2>2
<1>8. ASSUME NEW r \in Request, Outlives(r)
      PROVE  \/ UNCHANGED <<Holders, Late, Recorded>>
             \/ /\ r \in Holders \ Late /\ Late' = Late \cup {r}
                /\ UNCHANGED <<Holders, Recorded>>
  <2>1. UNCHANGED <<Holders, Recorded>> /\ lost' = lost \cup {r}
    BY <1>2, <1>8 DEF Outlives
  <2>2. Late' = (lost \cup {r}) \cap Holders
    BY <1>1, <2>1
  <2>3. CASE r \in Holders \ Late
    BY <1>1, <2>1, <2>2, <2>3
  <2>4. CASE r \notin Holders \ Late
    BY <1>1, <2>1, <2>2, <2>4
  <2>5. QED
    BY <2>3, <2>4
<1>9. QED
  <2>1. CASE \E r \in Request : Begins(r)
    BY <1>5, <2>1
  <2>2. CASE \E r \in Request : Leaves(r)
    BY <1>6, <2>2
  <2>3. CASE \E r \in Request : Records(r)
    BY <1>7, <2>3
  <2>4. CASE \E r \in Request : Outlives(r)
    BY <1>8, <2>4
  <2>5. QED
    BY <1>4, <2>1, <2>2, <2>3, <2>4 DEF TurnStep

\* The handlers implement SerialTurns: what the lock of POST /chat and
\* quick_order_action makes of overlapping requests, faults and deletions is a
\* serial run of turns, each of which records its streamed answer at most once
\* and inside itself; turns overlap only after one has outlived its key.
THEOREM Refinement == Spec => TurnsAreSerial
<1>1. Init => Serial!Init
  BY SerialInit DEF Serial!Init, Late, Recorded
<1>2. TypeOK /\ Places /\ KeyInv /\ [Next]_vars => [Serial!Next]_Serial!vars
  <2> SUFFICES ASSUME TypeOK, Places, KeyInv, [Next]_vars
               PROVE  [Serial!Next]_Serial!vars
    OBVIOUS
  <2>1. TurnStep
    BY EveryStepTurns
  <2>2. \/ UNCHANGED <<Holders, Late, Recorded>>
        \/ \E t \in Request :
              \/ /\ t \notin Holders /\ Holders = Late /\ Holders' = Holders \cup {t}
                 /\ UNCHANGED <<Late, Recorded>>
              \/ /\ t \in Holders \ Late /\ Late' = Late \cup {t}
                 /\ UNCHANGED <<Holders, Recorded>>
              \/ /\ t \in Holders \ Recorded /\ Recorded' = Recorded \cup {t}
                 /\ UNCHANGED <<Holders, Late>>
              \/ /\ t \in Holders \ Late /\ Holders' = Holders \ {t}
                 /\ UNCHANGED <<Late, Recorded>>
              \/ /\ t \in Late /\ Holders' = Holders \ {t} /\ UNCHANGED Recorded
                 /\ Late' \in {Late \ {t}, Holders \ {t}}
    BY <2>1, SerialStep
  <2>3. QED
    BY <2>2, Zenon DEF Serial!Next, Serial!Begin, Serial!Overrun, Serial!Record,
                       Serial!EndInTime, Serial!EndLate, Serial!vars, Late, Recorded
<1>3. QED
  BY <1>1, <1>2, TypeCorrect, PlacesHold, KeyHolds, PTL
     DEF Spec, TurnsAreSerial, Serial!Spec

\* stream_chat_response, and a thread it leaves behind, store a streamed answer
\* only while the session is locked for its own turn, so that no later turn's
\* messages come before it; unless the turn lost its key.
THEOREM StoredUnderLock == Spec => StreamStoresUnderLock
<1>1. TypeOK /\ Places /\ KeyInv /\ [Next]_vars =>
        [\A r \in Request : kind[r] = "stream" /\ ~Stored(Answer(r)) /\ Stored(Answer(r))'
                             => lock = r \/ r \in lost]_vars
  <2> SUFFICES ASSUME TypeOK, Places, KeyInv, [Next]_vars, NEW r \in Request,
                      kind[r] = "stream", ~Stored(Answer(r)), Stored(Answer(r))'
               PROVE  lock = r \/ r \in lost
    OBVIOUS
  <2>1. ASSUME NEW m \in Message, history' = Append(history, m), m # Answer(r) PROVE FALSE
    <3>1. /\ Len(history) \in Nat /\ DOMAIN history = 1 .. Len(history)
          /\ DOMAIN history' = 1 .. Len(history) + 1 /\ history'[Len(history) + 1] = m
          /\ \A i \in 1 .. Len(history) : history'[i] = history[i]
      BY <2>1, AppendProperties, LenProperties DEF TypeOK
    <3>2. PICK i \in DOMAIN history' : history'[i] = Answer(r)
      BY DEF Stored, Answer
    <3>3. i \in 1 .. Len(history)
      <4>1. i # Len(history) + 1
        BY <2>1, <3>1, <3>2
      <4>2. i \in 1 .. Len(history) + 1 /\ Len(history) \in Nat
        BY <3>1, <3>2
      <4>3. QED
        BY <4>1, <4>2
    <3>4. QED
      BY <3>1, <3>2, <3>3 DEF Stored
  <2>2. \A q \in Request : /\ UserMessage(q) \in Message /\ UserMessage(q) # Answer(r)
                           /\ Answer(q) \in Message /\ (q # r => Answer(q) # Answer(r))
    BY UserIsMessage, AnswerIsMessage DEF UserMessage, Answer
  <2>3. history' # history
    BY DEF Stored, Answer
  <2>4. history' # <<>>
    BY EmptySeq DEF Stored, Answer
  <2>5. \E q \in Request : Storing(q) /\ history' = Append(history, Answer(q))
    BY <2>1, <2>2, <2>3, <2>4, EveryStepStores DEF StoreStep
  <2>6. Storing(r)
    BY <2>1, <2>2, <2>5
  <2>7. pc[r] \in {"saving", "cleanup"} \/ adrift[r] > 0
    BY <2>6 DEF Storing, Places, PlaceOf
  <2>8. QED
    BY <2>7 DEF KeyInv, AtWork, Holding, StreamPlaces
<1>2. QED
  BY <1>1, TypeCorrect, PlacesHold, KeyHolds, PTL DEF Spec, StreamStoresUnderLock
=============================================================================
