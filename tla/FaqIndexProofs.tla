--------------------------- MODULE FaqIndexProofs ---------------------------
(***************************************************************************)
(* The index of FaqIndex keeps what it was given, for any number of pushes,*)
(* fetches, errors, kills and restarts, and any division of a write into   *)
(* batches.  First the alias and the collections of full ingestions (Inv); *)
(* then what messages and jobs carry (Loaded), where jobs of the default name*)
(* can be (Placed), and, from both, the file part (Reconciled), the rows of*)
(* the table, and the documents of pushes (Arrived).                       *)
(***************************************************************************)
EXTENDS FaqIndex, FiniteSetTheorems, TLAPS

\* A full ingestion on its own collection, up to the swap.
Building == {"filling", "reading", "swapping"}
Builder(j) == pc[j] \in Building

\* That collection exists, and nobody else knows it.
Owned ==
    \A j \in Job : Builder(j) =>
        /\ work[j].live \in used /\ work[j].live # alias
        /\ colls[work[j].live] # None
        /\ \A k \in Job : work[k].old # work[j].live
        /\ \A k \in Job : k # j /\ Builder(k) => work[k].live # work[j].live

\* What the alias names, and what an ingestion found there, was created once.
Known ==
    /\ alias \in used \cup {None}
    /\ \A j \in Job : work[j].old \in used \cup {None}

\* What is dropped is not live any more.
Replaced == \A j \in Job : pc[j] = "dropping" => work[j].old \notin {alias, None}

Safe == Owned /\ Known /\ Replaced /\ LiveCollectionStands
Inv == TypeOK /\ Safe

-----------------------------------------------------------------------------
(* Types.                                                                   *)

LEMMA OverTyped ==
  ASSUME NEW overlay \in Docs, NEW base \in Docs
  PROVE  Over(overlay, base) \in Docs
BY DEF Over, Docs

LEMMA NoDocsTyped == NoDocs \in Docs
BY DEF NoDocs, Docs

LEMMA BlankTyped == Blank \in WorkType
BY NoDocsTyped DEF Blank, WorkType

LEMMA BootTyped ==
  ASSUME NEW f \in FileSets
  PROVE  /\ BootPlace(f) \in {"resolving", "done"}
         /\ BootWork(f) \in WorkType
         /\ BootWork(f).live = None /\ BootWork(f).old = None
<1>1. f \in Docs
  BY DocsAssumption
<1>2. [Blank EXCEPT !.docs = f, !.scope = {"file"}] \in WorkType
  BY <1>1, BlankTyped DEF WorkType, Source
<1>3. /\ Blank.live = None /\ Blank.old = None
      /\ [Blank EXCEPT !.docs = f, !.scope = {"file"}].live = None
      /\ [Blank EXCEPT !.docs = f, !.scope = {"file"}].old = None
  BY DEF Blank
<1>4. QED
  BY <1>2, <1>3, BlankTyped DEF BootPlace, BootWork

LEMMA PlaceTyped ==
  /\ "idle" \in Place /\ "queued" \in Place /\ "done" \in Place /\ "failed" \in Place
  /\ Running \subseteq Place
BY DEF Place, Running

\* A job that changes some of its local variables.
LEMMA WorkTyped ==
  ASSUME work \in [Job -> WorkType], NEW j \in Job, NEW w \in WorkType
  PROVE  [work EXCEPT ![j] = w] \in [Job -> WorkType]
OBVIOUS

LEMMA FinishTyped ==
  ASSUME TypeOK, NEW j \in Job, NEW place \in {"queued", "done", "failed"}, Finish(j, place)
  PROVE  /\ pc' \in [Job -> Place] /\ work' \in [Job -> WorkType]
         /\ pc' = [pc EXCEPT ![j] = pc'[j]] /\ pc'[j] \in {"idle", "queued", "done", "failed"}
         /\ work' = [work EXCEPT ![j] = Blank]
<1>1. pc' = [pc EXCEPT ![j] = IF j \in Fetch THEN "idle" ELSE place]
  BY DEF Finish, Goto
<1>2. work' = [work EXCEPT ![j] = Blank]
  BY DEF Finish
<1>3. (IF j \in Fetch THEN "idle" ELSE place) \in {"idle", "queued", "done", "failed"}
  OBVIOUS
<1>4. pc \in [Job -> Place] /\ work \in [Job -> WorkType]
  BY DEF TypeOK
<1>5. QED
  BY <1>1, <1>2, <1>3, <1>4, PlaceTyped, BlankTyped, WorkTyped

LEMMA RetryTyped ==
  ASSUME TypeOK, NEW j \in Job, Retry(j)
  PROVE  /\ pc' \in [Job -> Place] /\ work' \in [Job -> WorkType]
         /\ tries' \in [Job -> 0..MaxRetries]
         /\ \E place \in {"idle", "queued", "done", "failed", "resolving"} :
               pc' = [pc EXCEPT ![j] = place]
         /\ \E w \in WorkType : w.live = None /\ w.old = None
                                /\ work' = [work EXCEPT ![j] = w]
<1>1. CASE j = Boot
  <2>1. /\ pc' = [pc EXCEPT ![j] = BootPlace(files)] /\ UNCHANGED tries
        /\ work' = [work EXCEPT ![j] = BootWork(files)]
    BY <1>1 DEF Retry, Goto
  <2>2. files \in FileSets /\ pc \in [Job -> Place] /\ work \in [Job -> WorkType]
        /\ tries \in [Job -> 0..MaxRetries]
    BY DEF TypeOK
  <2>3. BootPlace(files) \in Place
    BY <2>2, BootTyped, PlaceTyped DEF Running
  <2>4. QED
    BY <2>1, <2>2, <2>3, BootTyped, WorkTyped
<1>2. CASE j # Boot
  <2>1. PICK place \in {"queued", "failed"} : Finish(j, place)
    BY <1>2 DEF Retry
  <2>2. tries' = [tries EXCEPT ![j] = IF @ < MaxRetries THEN @ + 1 ELSE @]
    BY <1>2 DEF Retry
  <2>3. tries \in [Job -> 0..MaxRetries] /\ MaxRetries \in Nat
    BY BoundsAssumption DEF TypeOK
  <2>4. tries' \in [Job -> 0..MaxRetries]
    BY <2>2, <2>3
  <2>5. Blank.live = None /\ Blank.old = None
    BY DEF Blank
  <2>6. QED
    BY <2>1, <2>4, <2>5, FinishTyped, BlankTyped
<1>3. QED
  BY <1>1, <1>2

-----------------------------------------------------------------------------
(* Frames.                                                                  *)

\* A step that moves no alias, creates and removes no collection and begins
\* neither an ingestion nor a removal.
LEMMA Calm ==
  ASSUME Inv, UNCHANGED <<alias, used>>,
         \A c \in Coll : colls[c] # None => colls'[c] # None,
         \A k \in Job : pc'[k] \in Building =>
                          pc[k] \in Building /\ work'[k].live = work[k].live,
         \A k \in Job : pc'[k] = "dropping" =>
                          pc[k] = "dropping" /\ work'[k].old = work[k].old,
         \A k \in Job : work'[k].old \in {None, work[k].old}
  PROVE  Safe'
<1>1. used \subseteq Coll /\ None \notin Coll
  BY NamesAssumption DEF Inv, TypeOK
<1>2. Owned'
  BY <1>1 DEF Inv, Safe, Owned, Builder
<1>3. Known'
  BY DEF Inv, Safe, Known
<1>4. Replaced'
  BY DEF Inv, Safe, Replaced
<1>5. LiveCollectionStands'
  BY <1>1 DEF Inv, Safe, LiveCollectionStands, TypeOK
<1>6. QED
  BY <1>2, <1>3, <1>4, <1>5 DEF Safe

\* One job moves, to a place that is neither.
LEMMA CalmMove ==
  ASSUME Inv, UNCHANGED store, NEW j \in Job, NEW place, NEW w,
         place \notin Building \cup {"dropping"},
         pc' = [pc EXCEPT ![j] = place], work' = [work EXCEPT ![j] = w],
         w.old \in {None, work[j].old}
  PROVE  Safe'
<1>1. pc \in [Job -> Place] /\ work \in [Job -> WorkType]
  BY DEF Inv, TypeOK
<1>2. \A k \in Job : k # j => pc'[k] = pc[k] /\ work'[k] = work[k]
  BY <1>1
<1>3. pc'[j] = place /\ work'[j] = w
  BY <1>1
<1>4. QED
  BY <1>2, <1>3, Calm DEF store

\* The message queue alone.
LEMMA CalmWork ==
  ASSUME Inv, UNCHANGED <<store, work>>, NEW j \in Job, NEW place,
         place \notin Building \cup {"dropping"}, pc' = [pc EXCEPT ![j] = place]
  PROVE  Safe'
<1>1. pc \in [Job -> Place]
  BY DEF Inv, TypeOK
<1>2. \A k \in Job : k # j => pc'[k] = pc[k]
  BY <1>1
<1>3. pc'[j] = place
  BY <1>1
<1>4. QED
  BY <1>2, <1>3, Calm DEF store

\* A part of the points of one collection is written.
LEMMA PointsTyped ==
  ASSUME colls \in [Coll -> Docs \cup {None}], NEW c \in Coll, NEW d \in Docs,
         colls' = [colls EXCEPT ![c] = d]
  PROVE  /\ colls' \in [Coll -> Docs \cup {None}]
         /\ \A e \in Coll : colls[e] # None => colls'[e] # None
BY NamesAssumption

LEMMA UpsertTyped ==
  ASSUME TypeOK, NEW j \in Job, NEW batch \in SUBSET Id, Upsert(j, batch),
         work[j].live \in Coll, colls[work[j].live] # None
  PROVE  /\ colls' \in [Coll -> Docs \cup {None}]
         /\ \A e \in Coll : colls[e] # None => colls'[e] # None
<1> DEFINE c == work[j].live
           d == [i \in Id |-> IF i \in batch THEN work[j].docs[i] ELSE colls[c][i]]
<1>1. colls[c] \in Docs /\ colls \in [Coll -> Docs \cup {None}]
  BY DEF TypeOK
<1>2. work[j].docs \in Docs
  BY DEF TypeOK, WorkType
<1>3. d \in Docs
  BY <1>1, <1>2 DEF Docs
<1>4. colls' = [colls EXCEPT ![c] = d]
  BY <1>1 DEF Upsert
<1>5. QED
  BY <1>1, <1>3, <1>4, PointsTyped

-----------------------------------------------------------------------------
(* Every step keeps the invariant.                                          *)

LEMMA InitInv == Init => Inv
<1> SUFFICES ASSUME Init PROVE Inv
  OBVIOUS
<1>1. oracle \in Tables /\ files \in FileSets /\ oracle \in Docs
  BY DocsAssumption DEF Init
<1>2. colls \in [Coll -> Docs \cup {None}]
  <2>1. [i \in Id |-> IF oracle[i] = Absent THEN Absent
                      ELSE [oracle[i] EXCEPT !.source = "unstamped"]] \in Docs
    BY <1>1 DEF Docs, Source
  <2>2. QED
    BY <2>1 DEF Init
<1>3. \A j \in Job : pc[j] \in {"resolving", "done", "idle"}
                     /\ work[j].live = None /\ work[j].old = None
  BY <1>1, BootTyped DEF Init, Blank
<1>4. pc \in [Job -> Place] /\ work \in [Job -> WorkType]
  BY <1>1, BootTyped, BlankTyped, PlaceTyped DEF Init, Running
<1>5. TypeOK
  BY <1>1, <1>2, <1>4, NoDocsTyped, NamesAssumption, BoundsAssumption DEF Init, TypeOK
<1>6. Safe
  BY <1>3 DEF Init, Safe, Owned, Builder, Building, Known, Replaced, LiveCollectionStands
<1>7. QED
  BY <1>5, <1>6 DEF Inv

LEMMA SubmitInv == ASSUME Inv, NEW j \in Job, Submit(j) PROVE Inv'
<1>1. j \in Pusher /\ pc' = [pc EXCEPT ![j] = "queued"]
      /\ UNCHANGED <<world, store, work, tries, budget>>
  BY DEF Submit, Pusher, Goto
<1>2. sent' \in [Pusher -> Docs]
  BY <1>1, DocsAssumption DEF Submit, Inv, TypeOK
<1>3. TypeOK'
  BY <1>1, <1>2, PlaceTyped DEF Inv, TypeOK, world, store, budget
<1>4. QED
  BY <1>1, <1>3, CalmWork DEF Building, Inv

LEMMA BeatInv == ASSUME Inv, Beat PROVE Inv'
<1>1. PICK j \in Fetch : /\ pc' = [pc EXCEPT ![j] = "queued"]
                         /\ tries' = [tries EXCEPT ![j] = 0]
                         /\ UNCHANGED <<world, store, work, sent, budget>>
  BY DEF Beat, Goto
<1>2. j \in Job
  BY DEF Job
<1>3. TypeOK'
  BY <1>1, <1>2, PlaceTyped, BoundsAssumption DEF Inv, TypeOK, world, store, budget
<1>4. QED
  BY <1>1, <1>2, <1>3, CalmWork DEF Building, Inv

LEMMA TakeInv == ASSUME Inv, NEW j \in Job, Take(j) PROVE Inv'
<1>1. /\ j \in Pusher /\ pc' = [pc EXCEPT ![j] = "resolving"]
      /\ work' = [work EXCEPT ![j] = [work[j] EXCEPT !.docs = sent[j]]]
      /\ UNCHANGED <<world, store, sent, tries, budget>>
  BY DEF Take, Goto, Inv, TypeOK
<1>2. [work[j] EXCEPT !.docs = sent[j]] \in WorkType
      /\ [work[j] EXCEPT !.docs = sent[j]].old = work[j].old
  BY <1>1 DEF Inv, TypeOK, WorkType
<1>3. TypeOK'
  BY <1>1, <1>2, PlaceTyped, WorkTyped DEF Inv, TypeOK, world, store, budget, Running
<1>4. QED
  BY <1>1, <1>2, <1>3, CalmMove DEF Building, Inv

\* What a job has after its run ended, as a step.
LEMMA FinishInv ==
  ASSUME Inv, NEW j \in Job, NEW place \in {"queued", "done", "failed"}, Finish(j, place),
         UNCHANGED <<world, store, sent>>, tries' \in [Job -> 0..MaxRetries],
         edits' \in Nat, faults' \in Nat
  PROVE  Inv'
<1>1. /\ pc' \in [Job -> Place] /\ work' \in [Job -> WorkType]
      /\ pc' = [pc EXCEPT ![j] = pc'[j]] /\ pc'[j] \in {"idle", "queued", "done", "failed"}
      /\ work' = [work EXCEPT ![j] = Blank]
  BY FinishTyped DEF Inv
<1>2. TypeOK'
  BY <1>1 DEF Inv, TypeOK, world, store
<1>3. Blank.old = None
  BY DEF Blank
<1>4. QED
  BY <1>1, <1>2, <1>3, CalmMove DEF Building, Inv

LEMMA FetchOracleInv == ASSUME Inv, NEW j \in Job, FetchOracle(j) PROVE Inv'
<1>1. UNCHANGED <<world, store, sent, tries, budget>>
  BY DEF FetchOracle
<1>2. PICK page \in Pages :
          IF page = {} THEN Finish(j, "done")
          ELSE /\ Goto(j, "resolving")
               /\ work' = [work EXCEPT
                     ![j].docs = [i \in Id |-> IF i \in page THEN oracle[i] ELSE Absent],
                     ![j].scope = IF Partial(page) THEN {} ELSE {"oracle"}]
  BY DEF FetchOracle
<1>3. CASE page = {}
  BY <1>1, <1>2, <1>3, FinishInv DEF budget, Inv, TypeOK
<1>4. CASE page # {}
  <2> DEFINE d == [i \in Id |-> IF i \in page THEN oracle[i] ELSE Absent]
             s == IF Partial(page) THEN {} ELSE {"oracle"}
             w == [[work[j] EXCEPT !.docs = d] EXCEPT !.scope = s]
  <2>1. oracle \in Docs
    BY DocsAssumption DEF Inv, TypeOK
  <2>2. d \in Docs /\ s \in SUBSET Source
    BY <2>1 DEF Docs, Source
  <2>3. pc' = [pc EXCEPT ![j] = "resolving"] /\ work' = [work EXCEPT ![j] = w]
    BY <1>2, <1>4 DEF Goto, Inv, TypeOK
  <2> HIDE DEF d, s
  <2>4. w \in WorkType /\ w.old = work[j].old
    BY <2>2 DEF Inv, TypeOK, WorkType
  <2> HIDE DEF w
  <2>5. TypeOK'
    BY <1>1, <2>3, <2>4, PlaceTyped, WorkTyped DEF Inv, TypeOK, world, store, budget, Running
  <2>6. QED
    BY <1>1, <2>3, <2>4, <2>5, CalmMove DEF Building, Inv
<1>5. QED
  BY <1>3, <1>4

\* Finding the collection.
LEMMA FoundInv ==
  ASSUME Inv, NEW j \in Job, NEW place \in {"looking", "comparing", "creating"},
         NEW w \in WorkType, w.old = work[j].old,
         pc' = [pc EXCEPT ![j] = place], work' = [work EXCEPT ![j] = w],
         UNCHANGED <<world, store, sent, tries, budget>>
  PROVE  Inv'
<1>1. TypeOK'
  BY PlaceTyped, WorkTyped DEF Inv, TypeOK, world, store, budget, Running
<1>2. QED
  BY <1>1, CalmMove DEF Building, Inv

LEMMA StayTyped ==
  ASSUME Inv, NEW j \in Job
  PROVE  /\ work[j] \in WorkType /\ work = [work EXCEPT ![j] = work[j]]
         /\ \A c \in Coll : /\ [work[j] EXCEPT !.live = c] \in WorkType
                            /\ [work[j] EXCEPT !.live = c].old = work[j].old
                            /\ [work EXCEPT ![j].live = c]
                                  = [work EXCEPT ![j] = [work[j] EXCEPT !.live = c]]
BY DEF Inv, TypeOK, WorkType

LEMMA ResolveInv == ASSUME Inv, NEW j \in Job, Resolve(j) PROVE Inv'
<1>1. UNCHANGED <<world, store, sent, tries, budget>>
  BY DEF Resolve
<1>2. CASE alias = None
  <2>1. pc' = [pc EXCEPT ![j] = "looking"] /\ work' = [work EXCEPT ![j] = work[j]]
    BY <1>2, StayTyped DEF Resolve, Goto
  <2>2. QED
    BY <1>1, <2>1, StayTyped, FoundInv
<1>3. CASE alias # None
  <2>1. alias \in Coll
    BY <1>3 DEF Inv, TypeOK
  <2>2. /\ pc' = [pc EXCEPT ![j] = "comparing"]
        /\ work' = [work EXCEPT ![j] = [work[j] EXCEPT !.live = alias]]
    BY <1>3, <2>1, StayTyped DEF Resolve, Goto
  <2>3. QED
    BY <1>1, <2>1, <2>2, StayTyped, FoundInv
<1>4. QED
  BY <1>2, <1>3

LEMMA LookInv == ASSUME Inv, NEW j \in Job, Look(j) PROVE Inv'
<1>1. UNCHANGED <<world, store, sent, tries, budget>>
  BY DEF Look
<1>2. CASE colls[Legacy] = None
  <2>1. pc' = [pc EXCEPT ![j] = "creating"] /\ work' = [work EXCEPT ![j] = work[j]]
    BY <1>2, StayTyped DEF Look, Goto
  <2>2. QED
    BY <1>1, <2>1, StayTyped, FoundInv
<1>3. CASE colls[Legacy] # None
  <2>1. Legacy \in Coll
    BY NamesAssumption
  <2>2. /\ pc' = [pc EXCEPT ![j] = "comparing"]
        /\ work' = [work EXCEPT ![j] = [work[j] EXCEPT !.live = Legacy]]
    BY <1>3, <2>1, StayTyped DEF Look, Goto
  <2>3. QED
    BY <1>1, <2>1, <2>2, StayTyped, FoundInv
<1>4. QED
  BY <1>2, <1>3

\* The stages of an incremental sync after the comparison.
LEMMA StagesTyped ==
  ASSUME NEW todo, NEW gone
  PROVE  AfterCompare(todo, gone) \in {"writing", "erasing", "done"}
BY DEF AfterCompare

LEMMA CompareInv == ASSUME Inv, NEW j \in Job, Compare(j) PROVE Inv'
<1> DEFINE incoming == Incoming(j)
           points == colls[work[j].live]
           todo == ToUpsert(incoming, points)
           gone == ToDelete(incoming, points, work[j].scope)
<1>1. UNCHANGED <<world, store, sent, tries, budget>>
  BY DEF Compare
<1>2. CASE todo \cup gone = {}
  <2>1. Finish(j, "done")
    BY <1>2 DEF Compare
  <2>2. QED
    BY <1>1, <2>1, FinishInv DEF budget, Inv, TypeOK
<1>3. CASE todo \cup gone # {}
  <2>1. incoming \in Docs
    <3>1. files \in Docs /\ work[j].docs \in Docs
      BY DocsAssumption DEF Inv, TypeOK, WorkType
    <3>2. QED
      BY <3>1, OverTyped DEF Incoming
  <2>2. todo \in SUBSET Id /\ gone \in SUBSET Id
    BY DEF ToUpsert, ToDelete, Has
  <2> DEFINE w == [[[work[j] EXCEPT !.docs = incoming] EXCEPT !.todo = todo]
                     EXCEPT !.gone = gone]
             place == AfterCompare(todo, gone)
  <2>3. pc' = [pc EXCEPT ![j] = place] /\ work' = [work EXCEPT ![j] = w]
    BY <1>3 DEF Compare, Goto, Inv, TypeOK
  <2>4. place \in {"writing", "erasing", "done"}
    BY StagesTyped
  <2> HIDE DEF incoming, todo, gone, place
  <2>5. w \in WorkType /\ w.old = work[j].old
    BY <2>1, <2>2 DEF Inv, TypeOK, WorkType
  <2> HIDE DEF w
  <2>6. TypeOK'
    BY <1>1, <2>3, <2>4, <2>5, PlaceTyped, WorkTyped
       DEF Inv, TypeOK, world, store, budget, Running
  <2>7. QED
    BY <1>1, <2>3, <2>4, <2>5, <2>6, CalmMove DEF Building, Inv
<1>4. QED
  BY <1>2, <1>3

\* A batch of an incremental sync or of an ingestion.
LEMMA BatchInv ==
  ASSUME Inv, NEW j \in Job, NEW batch \in SUBSET work[j].todo, Upsert(j, batch),
         work[j].live \in Coll, colls[work[j].live] # None,
         UNCHANGED <<world, alias, used, sent, tries, budget>>,
         pc' \in [Job -> Place], work' \in [Job -> WorkType],
         \A k \in Job : work'[k].old \in {None, work[k].old},
         \A k \in Job : pc'[k] \in Building =>
                          pc[k] \in Building /\ work'[k].live = work[k].live,
         \A k \in Job : pc'[k] = "dropping" =>
                          pc[k] = "dropping" /\ work'[k].old = work[k].old
  PROVE  Inv'
<1>1. batch \in SUBSET Id
  BY DEF Inv, TypeOK, WorkType
<1>2. /\ colls' \in [Coll -> Docs \cup {None}]
      /\ \A e \in Coll : colls[e] # None => colls'[e] # None
  BY <1>1, UpsertTyped DEF Inv
<1>3. TypeOK'
  BY <1>2 DEF Inv, TypeOK, world, budget
<1>4. Safe'
  BY <1>2, Calm
<1>5. QED
  BY <1>3, <1>4 DEF Inv

LEMMA WriteInv == ASSUME Inv, NEW j \in Job, Write(j) PROVE Inv'
<1>1. /\ UNCHANGED <<world, alias, used, sent, tries, budget>>
      /\ pc[j] = "writing" /\ colls[work[j].live] # None
  BY DEF Write
<1>2. PICK batch \in SUBSET work[j].todo :
          LET left == work[j].todo \ batch
          IN  /\ Upsert(j, batch)
              /\ IF left \cup work[j].gone = {} THEN Finish(j, "done")
                 ELSE /\ Goto(j, AfterCompare(left, work[j].gone))
                      /\ work' = [work EXCEPT ![j].todo = left]
  BY DEF Write
<1> DEFINE left == work[j].todo \ batch
<1>3. /\ pc \in [Job -> Place] /\ work \in [Job -> WorkType]
      /\ colls \in [Coll -> Docs \cup {None}]
  BY DEF Inv, TypeOK
<1>4. PICK place \in {"idle", "queued", "done", "failed", "writing", "erasing"}, w \in WorkType :
        /\ pc' = [pc EXCEPT ![j] = place] /\ work' = [work EXCEPT ![j] = w]
        /\ w.old \in {None, work[j].old}
  <2>1. CASE left \cup work[j].gone = {}
    <3>1. Finish(j, "done")
      BY <1>2, <2>1
    <3>2. Blank.old = None
      BY DEF Blank
    <3>3. QED
      BY <3>1, <3>2, FinishTyped, BlankTyped DEF Inv
  <2>2. CASE left \cup work[j].gone # {}
    <3>1. [work[j] EXCEPT !.todo = left] \in WorkType
          /\ [work[j] EXCEPT !.todo = left].old = work[j].old
      BY <1>3 DEF WorkType
    <3>2. work' = [work EXCEPT ![j] = [work[j] EXCEPT !.todo = left]]
          /\ pc' = [pc EXCEPT ![j] = AfterCompare(left, work[j].gone)]
      BY <1>2, <1>3, <2>2 DEF Goto
    <3>3. QED
      BY <3>1, <3>2, StagesTyped
  <2>3. QED
    BY <2>1, <2>2
<1>5. pc' \in [Job -> Place] /\ work' \in [Job -> WorkType]
  BY <1>3, <1>4, PlaceTyped, WorkTyped DEF Running
<1>6. /\ \A k \in Job : work'[k].old \in {None, work[k].old}
      /\ \A k \in Job : pc'[k] \in Building =>
                          pc[k] \in Building /\ work'[k].live = work[k].live
      /\ \A k \in Job : pc'[k] = "dropping" =>
                          pc[k] = "dropping" /\ work'[k].old = work[k].old
  <2>1. \A k \in Job : k # j => pc'[k] = pc[k] /\ work'[k] = work[k]
    BY <1>3, <1>4
  <2>2. pc'[j] = place /\ work'[j] = w
    BY <1>3, <1>4
  <2>3. QED
    BY <1>4, <2>1, <2>2 DEF Building
<1>7. CASE work[j].live \in Coll
  BY <1>1, <1>2, <1>5, <1>6, <1>7, BatchInv
<1>8. CASE work[j].live \notin Coll
  <2>1. colls' = colls
    BY <1>2, <1>3, <1>8 DEF Upsert
  <2>2. TypeOK'
    BY <1>1, <1>5, <2>1 DEF Inv, TypeOK, world, budget
  <2>3. Safe'
    BY <1>1, <1>6, <2>1, Calm
  <2>4. QED
    BY <2>2, <2>3 DEF Inv
<1>9. QED
  BY <1>7, <1>8

LEMMA EraseInv == ASSUME Inv, NEW j \in Job, Erase(j) PROVE Inv'
<1> DEFINE c == work[j].live
           d == [i \in Id |-> IF i \in work[j].gone THEN Absent ELSE colls[c][i]]
<1>1. /\ UNCHANGED <<world, alias, used, sent, tries, budget>>
      /\ colls[c] # None /\ Finish(j, "done")
  BY DEF Erase
<1>2. colls \in [Coll -> Docs \cup {None}]
  BY DEF Inv, TypeOK
<1>3. /\ colls' \in [Coll -> Docs \cup {None}]
      /\ \A e \in Coll : colls[e] # None => colls'[e] # None
  <2>1. CASE c \in Coll
    <3>1. d \in Docs
      BY <1>1, <1>2, <2>1 DEF Docs
    <3>2. colls' = [colls EXCEPT ![c] = d]
      BY <1>2, <2>1 DEF Erase
    <3>3. QED
      BY <1>2, <2>1, <3>1, <3>2, PointsTyped
  <2>2. CASE c \notin Coll
    BY <1>2, <2>2 DEF Erase
  <2>3. QED
    BY <2>1, <2>2
<1>4. /\ pc' \in [Job -> Place] /\ work' \in [Job -> WorkType]
      /\ pc' = [pc EXCEPT ![j] = pc'[j]] /\ pc'[j] \in {"idle", "queued", "done", "failed"}
      /\ work' = [work EXCEPT ![j] = Blank]
  BY <1>1, FinishTyped DEF Inv
<1>5. TypeOK'
  BY <1>1, <1>3, <1>4 DEF Inv, TypeOK, world, budget
<1>6. \A k \in Job : k # j => pc'[k] = pc[k] /\ work'[k] = work[k]
  BY <1>4 DEF Inv, TypeOK
<1>7. work'[j].old = None
  BY <1>4 DEF Inv, TypeOK, Blank
<1>8. Safe'
  BY <1>1, <1>3, <1>4, <1>6, <1>7, Calm DEF Building
<1>9. QED
  BY <1>5, <1>8 DEF Inv

-----------------------------------------------------------------------------
(* The full ingestion.                                                      *)

LEMMA CreateInv == ASSUME Inv, NEW j \in Job, Create(j) PROVE Inv'
<1> DEFINE incoming == Incoming(j)
<1>1. PICK c \in Coll \ used :
          /\ colls' = [colls EXCEPT ![c] = NoDocs]
          /\ used' = used \cup {c}
          /\ work' = [work EXCEPT ![j].docs = incoming, ![j].live = c,
                                  ![j].todo = Has(incoming)]
  BY DEF Create
<1>2. /\ pc[j] = "creating" /\ pc' = [pc EXCEPT ![j] = "filling"]
      /\ UNCHANGED <<world, alias, sent, tries, budget>>
  BY DEF Create, Goto
<1>3. /\ pc \in [Job -> Place] /\ work \in [Job -> WorkType]
      /\ colls \in [Coll -> Docs \cup {None}] /\ used \subseteq Coll
  BY DEF Inv, TypeOK
<1>4. incoming \in Docs /\ Has(incoming) \in SUBSET Id
  <2>1. files \in Docs /\ work[j].docs \in Docs
    BY DocsAssumption DEF Inv, TypeOK, WorkType
  <2>2. QED
    BY <2>1, OverTyped DEF Incoming, Has
<1> DEFINE w == [[[work[j] EXCEPT !.docs = incoming] EXCEPT !.live = c]
                   EXCEPT !.todo = Has(incoming)]
<1>5. work' = [work EXCEPT ![j] = w]
  BY <1>1, <1>3
<1> HIDE DEF incoming
<1>6. w \in WorkType /\ w.old = work[j].old /\ w.live = c
  BY <1>1, <1>3, <1>4 DEF WorkType
<1> HIDE DEF w
<1>7. \A k \in Job : k # j => pc'[k] = pc[k] /\ work'[k] = work[k]
  BY <1>2, <1>3, <1>5
<1>8. pc'[j] = "filling" /\ work'[j] = w
  BY <1>2, <1>3, <1>5
<1>9. /\ colls'[c] # None /\ \A e \in Coll : colls[e] # None => colls'[e] # None
      /\ colls' \in [Coll -> Docs \cup {None}]
  <2>1. c \in Coll /\ colls' = [colls EXCEPT ![c] = NoDocs] /\ NoDocs # None
    BY <1>1, NoDocsTyped, NamesAssumption
  <2>2. colls'[c] # None
    BY <1>3, <2>1
  <2>3. QED
    BY <1>3, <2>1, <2>2, NoDocsTyped, PointsTyped
<1>100. used' = used \cup {c} /\ c \in Coll /\ c \notin used
  BY <1>1
<1>10. TypeOK'
  <2>1. pc' \in [Job -> Place]
    BY <1>2, <1>3, PlaceTyped DEF Running
  <2>2. work' \in [Job -> WorkType]
    BY <1>3, <1>5, <1>6, WorkTyped
  <2>3. used' \subseteq Coll
    BY <1>3, <1>100
  <2>4. QED
    BY <1>2, <1>9, <2>1, <2>2, <2>3 DEF Inv, TypeOK, world, budget
<1>11. \A k \in Job : work'[k].old = work[k].old
  BY <1>6, <1>7, <1>8
<1>12. c # alias /\ c # None /\ \A k \in Job : work[k].old # c
  BY <1>1, NamesAssumption DEF Inv, Safe, Known
<1>13. Owned'
  <2> SUFFICES ASSUME NEW k \in Job, Builder(k)'
               PROVE  /\ work'[k].live \in used' /\ work'[k].live # alias'
                      /\ colls'[work'[k].live] # None
                      /\ \A i \in Job : work'[i].old # work'[k].live
                      /\ \A i \in Job : i # k /\ Builder(i)' => work'[i].live # work'[k].live
    BY DEF Owned
  <2>1. CASE k = j
    <3>1. \A i \in Job : i # j /\ Builder(i)' => work'[i].live \in used
      BY <1>7 DEF Builder, Inv, Safe, Owned
    <3>2. QED
      BY <1>2, <1>6, <1>8, <1>9, <1>11, <1>12, <1>100, <2>1, <3>1
  <2>2. CASE k # j
    <3>1. Builder(k) /\ work'[k] = work[k]
      BY <1>7, <2>2 DEF Builder
    <3>2. work[k].live \in used /\ work[k].live # c
      BY <1>1, <3>1 DEF Inv, Safe, Owned
    <3>3. \A i \in Job : i # k /\ Builder(i)' => work'[i].live # work[k].live
      BY <1>6, <1>7, <1>8, <3>1, <3>2 DEF Builder, Inv, Safe, Owned
    <3>4. colls'[work[k].live] # None
      BY <1>3, <1>9, <3>1, <3>2 DEF Inv, Safe, Owned
    <3>5. QED
      BY <1>2, <1>11, <1>100, <3>1, <3>2, <3>3, <3>4 DEF Inv, Safe, Owned
  <2>3. QED
    BY <2>1, <2>2
<1>14. Known'
  BY <1>2, <1>11, <1>100 DEF Inv, Safe, Known
<1>15. Replaced'
  BY <1>2, <1>7, <1>8, <1>11 DEF Inv, Safe, Replaced
<1>16. LiveCollectionStands'
  BY <1>2, <1>9 DEF Inv, Safe, LiveCollectionStands, TypeOK
<1>17. QED
  BY <1>10, <1>13, <1>14, <1>15, <1>16 DEF Inv, Safe

LEMMA FillInv == ASSUME Inv, NEW j \in Job, Fill(j) PROVE Inv'
<1>1. /\ UNCHANGED <<world, alias, used, sent, tries, budget>> /\ pc[j] = "filling"
  BY DEF Fill
<1>2. PICK batch \in SUBSET work[j].todo :
          LET left == work[j].todo \ batch
          IN  /\ Upsert(j, batch)
              /\ work' = [work EXCEPT ![j].todo = left]
              /\ Goto(j, IF left = {} THEN "reading" ELSE "filling")
  BY DEF Fill
<1> DEFINE left == work[j].todo \ batch
           w == [work[j] EXCEPT !.todo = left]
<1>3. pc \in [Job -> Place] /\ work \in [Job -> WorkType]
  BY DEF Inv, TypeOK
<1>4. work' = [work EXCEPT ![j] = w]
      /\ pc' = [pc EXCEPT ![j] = IF left = {} THEN "reading" ELSE "filling"]
  BY <1>2, <1>3 DEF Goto
<1>5. w \in WorkType /\ w.old = work[j].old /\ w.live = work[j].live
  BY <1>3 DEF WorkType
<1> HIDE DEF w
<1>6. pc' \in [Job -> Place] /\ work' \in [Job -> WorkType]
  BY <1>3, <1>4, <1>5, PlaceTyped, WorkTyped DEF Running
<1>7. \A k \in Job : /\ work'[k].old = work[k].old /\ work'[k].live = work[k].live
                     /\ pc'[k] = pc[k] \/ (k = j /\ pc'[k] = "reading")
  BY <1>1, <1>3, <1>4, <1>5
<1>8. work[j].live \in Coll /\ colls[work[j].live] # None
  BY <1>1 DEF Inv, TypeOK, Safe, Owned, Builder, Building
<1>9. \A k \in Job : pc'[k] \in Building => pc[k] \in Building
  BY <1>1, <1>7 DEF Building
<1>10. \A k \in Job : pc'[k] = "dropping" => pc[k] = "dropping"
  BY <1>7
<1>11. QED
  BY <1>1, <1>2, <1>6, <1>7, <1>8, <1>9, <1>10, BatchInv

LEMMA ReadAliasInv == ASSUME Inv, NEW j \in Job, ReadAlias(j) PROVE Inv'
<1> DEFINE w == [work[j] EXCEPT !.old = alias]
<1>1. /\ pc[j] = "reading" /\ pc' = [pc EXCEPT ![j] = "swapping"]
      /\ work' = [work EXCEPT ![j] = w]
      /\ UNCHANGED <<world, store, sent, tries, budget>>
  BY DEF ReadAlias, Goto, Inv, TypeOK
<1>2. w \in WorkType /\ w.old = alias /\ w.live = work[j].live
  BY DEF Inv, TypeOK, WorkType
<1> HIDE DEF w
<1>3. TypeOK'
  BY <1>1, <1>2, PlaceTyped, WorkTyped DEF Inv, TypeOK, world, store, budget, Running
<1>4. \A k \in Job : /\ work'[k].live = work[k].live
                     /\ k # j => work'[k].old = work[k].old /\ pc'[k] = pc[k]
  BY <1>1, <1>2 DEF Inv, TypeOK
<1>5. work'[j].old = alias /\ pc'[j] = "swapping"
  BY <1>1, <1>2 DEF Inv, TypeOK
<1>6. \A k \in Job : Builder(k)' => Builder(k)
  BY <1>1, <1>4 DEF Builder, Building
<1>7. Owned'
  BY <1>1, <1>4, <1>5, <1>6 DEF Inv, Safe, Owned, store
<1>8. Known'
  BY <1>1, <1>4, <1>5 DEF Inv, Safe, Known, store
<1>9. Replaced'
  BY <1>1, <1>4, <1>5 DEF Inv, Safe, Replaced, store
<1>10. LiveCollectionStands'
  BY <1>1 DEF Inv, Safe, LiveCollectionStands, store
<1>11. QED
  BY <1>3, <1>7, <1>8, <1>9, <1>10 DEF Inv, Safe

LEMMA SwapInv == ASSUME Inv, NEW j \in Job, Swap(j) PROVE Inv'
<1>1. /\ pc[j] = "swapping" /\ alias' = work[j].live
      /\ UNCHANGED <<world, colls, used, sent, tries, budget>>
  BY DEF Swap
<1>2. /\ alias' \in used /\ alias' \in Coll /\ colls[alias'] # None
      /\ \A k \in Job : work[k].old # alias'
      /\ \A k \in Job : k # j /\ Builder(k) => work[k].live # alias'
  BY <1>1 DEF Inv, TypeOK, Safe, Owned, Builder, Building
<1>3. PICK place \in {"idle", "queued", "done", "failed", "dropping"}, w \in WorkType :
        /\ pc' = [pc EXCEPT ![j] = place] /\ work' = [work EXCEPT ![j] = w]
        /\ w.old \in {None, work[j].old} /\ (place = "dropping" => w.old # None)
  <2>1. CASE work[j].old = None
    <3>1. Finish(j, "done")
      BY <2>1 DEF Swap
    <3>2. Blank.old = None
      BY DEF Blank
    <3>3. QED
      BY <3>1, <3>2, FinishTyped, BlankTyped DEF Inv
  <2>2. CASE work[j].old # None
    <3>1. pc' = [pc EXCEPT ![j] = "dropping"] /\ work' = [work EXCEPT ![j] = work[j]]
      BY <2>2, StayTyped DEF Swap, Goto
    <3>2. QED
      BY <2>2, <3>1, StayTyped
  <2>3. QED
    BY <2>1, <2>2
<1>4. TypeOK'
  BY <1>1, <1>2, <1>3, PlaceTyped, WorkTyped DEF Inv, TypeOK, world, budget, Running
<1>5. \A k \in Job : k # j => pc'[k] = pc[k] /\ work'[k] = work[k]
  BY <1>3 DEF Inv, TypeOK
<1>6. pc'[j] = place /\ work'[j] = w
  BY <1>3 DEF Inv, TypeOK
<1>7. \A k \in Job : work'[k].old \in {None, work[k].old}
  BY <1>3, <1>5, <1>6
<1>8. \A k \in Job : Builder(k)' => k # j /\ Builder(k) /\ work'[k] = work[k]
  BY <1>3, <1>5, <1>6 DEF Builder, Building
<1>9. Owned'
  BY <1>1, <1>2, <1>7, <1>8, NamesAssumption DEF Inv, TypeOK, Safe, Owned
<1>10. Known'
  BY <1>1, <1>2, <1>7 DEF Inv, Safe, Known
<1>11. Replaced'
  BY <1>2, <1>3, <1>5, <1>6 DEF Inv, Safe, Replaced
<1>12. LiveCollectionStands'
  BY <1>1, <1>2 DEF LiveCollectionStands
<1>13. QED
  BY <1>4, <1>9, <1>10, <1>11, <1>12 DEF Inv, Safe

LEMMA DropOldInv == ASSUME Inv, NEW j \in Job, DropOld(j) PROVE Inv'
<1> DEFINE c == work[j].old
<1>1. /\ pc[j] = "dropping" /\ colls' = [colls EXCEPT ![c] = None] /\ Finish(j, "done")
      /\ UNCHANGED <<world, alias, used, sent, tries, budget>>
  BY DEF DropOld
<1>2. /\ pc' \in [Job -> Place] /\ work' \in [Job -> WorkType]
      /\ pc' = [pc EXCEPT ![j] = pc'[j]] /\ pc'[j] \in {"idle", "queued", "done", "failed"}
      /\ work' = [work EXCEPT ![j] = Blank]
  BY <1>1, FinishTyped DEF Inv
<1>3. colls \in [Coll -> Docs \cup {None}]
  BY DEF Inv, TypeOK
<1>4. TypeOK'
  BY <1>1, <1>2, <1>3 DEF Inv, TypeOK, world, budget
<1>5. c # alias /\ \A k \in Job : Builder(k) => work[k].live # c
  BY <1>1 DEF Inv, Safe, Replaced, Owned
<1>6. \A k \in Job : k # j => pc'[k] = pc[k] /\ work'[k] = work[k]
  BY <1>2 DEF Inv, TypeOK
<1>7. work'[j].old = None
  BY <1>2 DEF Inv, TypeOK, Blank
<1>8. \A k \in Job : Builder(k)' => k # j /\ Builder(k) /\ work'[k] = work[k]
  BY <1>2, <1>6 DEF Builder, Building
<1>9. \A k \in Job : work'[k].old \in {None, work[k].old}
  BY <1>6, <1>7
<1>10. \A d \in Coll : d # c => colls'[d] = colls[d]
  BY <1>1, <1>3
<1>11. used \subseteq Coll /\ alias \in Coll \cup {None} /\ None \notin Coll
  BY NamesAssumption DEF Inv, TypeOK
<1>12. Owned'
  BY <1>1, <1>5, <1>8, <1>9, <1>10, <1>11 DEF Inv, Safe, Owned
<1>13. Known'
  BY <1>1, <1>9 DEF Inv, Safe, Known
<1>14. Replaced'
  BY <1>1, <1>2, <1>6 DEF Inv, Safe, Replaced
<1>15. LiveCollectionStands'
  BY <1>1, <1>5, <1>10, <1>11 DEF Inv, Safe, LiveCollectionStands
<1>16. QED
  BY <1>4, <1>12, <1>13, <1>14, <1>15 DEF Inv, Safe

-----------------------------------------------------------------------------
(* What goes wrong.                                                         *)

LEMMA RetryInv ==
  ASSUME Inv, NEW j \in Job, Retry(j), UNCHANGED <<world, store, sent>>,
         edits' \in Nat, faults' \in Nat
  PROVE  Inv'
<1>1. /\ pc' \in [Job -> Place] /\ work' \in [Job -> WorkType]
      /\ tries' \in [Job -> 0..MaxRetries]
      /\ \E place \in {"idle", "queued", "done", "failed", "resolving"} :
            pc' = [pc EXCEPT ![j] = place]
      /\ \E w \in WorkType : w.live = None /\ w.old = None
                             /\ work' = [work EXCEPT ![j] = w]
  BY RetryTyped DEF Inv
<1>2. TypeOK'
  BY <1>1 DEF Inv, TypeOK, world, store
<1>3. PICK place \in {"idle", "queued", "done", "failed", "resolving"} :
        pc' = [pc EXCEPT ![j] = place]
  BY <1>1
<1>4. PICK w \in WorkType : w.old = None /\ work' = [work EXCEPT ![j] = w]
  BY <1>1
<1>5. place \notin Building \cup {"dropping"}
  BY DEF Building
<1>6. QED
  BY <1>2, <1>3, <1>4, <1>5, CalmMove DEF Inv

LEMMA VanishedInv == ASSUME Inv, NEW j \in Job, Vanished(j) PROVE Inv'
<1>1. Retry(j) /\ UNCHANGED <<world, store, sent, budget>>
  BY DEF Vanished
<1>2. edits' \in Nat /\ faults' \in Nat
  BY <1>1 DEF budget, Inv, TypeOK
<1>3. QED
  BY <1>1, <1>2, RetryInv

LEMMA RaiseInv == ASSUME Inv, NEW j \in Job, Raise(j) PROVE Inv'
<1>1. Retry(j) /\ UNCHANGED <<world, store, sent, edits>> /\ faults' = faults + 1
  BY DEF Raise
<1>2. edits' \in Nat /\ faults' \in Nat
  BY <1>1 DEF Inv, TypeOK
<1>3. QED
  BY <1>1, <1>2, RetryInv

LEMMA LostInv == ASSUME Inv, NEW j \in Job, Lost(j) PROVE Inv'
<1>1. /\ Finish(j, "failed") /\ UNCHANGED <<world, store, sent, tries, edits>>
      /\ faults' = faults + 1
  BY DEF Lost
<1>2. edits' \in Nat /\ faults' \in Nat /\ tries' \in [Job -> 0..MaxRetries]
  BY <1>1 DEF Inv, TypeOK
<1>3. QED
  BY <1>1, <1>2, FinishInv

LEMMA RestartInv == ASSUME Inv, Restart PROVE Inv'
<1>1. /\ faults' = faults + 1 /\ files' \in FileSets
      /\ pc' = [j \in Job |-> IF j = Boot THEN BootPlace(files')
                              ELSE IF pc[j] \in Running THEN "queued" ELSE pc[j]]
      /\ work' = [j \in Job |-> IF j = Boot THEN BootWork(files') ELSE Blank]
      /\ UNCHANGED <<name, counted, oracle, store, sent, tries, edits>>
  BY DEF Restart
<1>2. /\ BootPlace(files') \in {"resolving", "done"} /\ BootWork(files') \in WorkType
      /\ BootWork(files').old = None /\ Blank.old = None
  BY <1>1, BootTyped DEF Blank
<1>3. pc \in [Job -> Place]
  BY DEF Inv, TypeOK
<1>4. \A k \in Job : pc'[k] \in Place /\ pc'[k] \notin Building \cup {"dropping"}
  <2> SUFFICES ASSUME NEW k \in Job
               PROVE  pc'[k] \in Place /\ pc'[k] \notin Building \cup {"dropping"}
    OBVIOUS
  <2>1. CASE k = Boot
    BY <1>1, <1>2, <2>1 DEF Place, Running, Building
  <2>2. CASE k # Boot /\ pc[k] \in Running
    BY <1>1, <2>2 DEF Place, Building
  <2>3. CASE k # Boot /\ pc[k] \notin Running
    BY <1>1, <1>3, <2>3 DEF Place, Building, Running
  <2>4. QED
    BY <2>1, <2>2, <2>3
<1>5. work' \in [Job -> WorkType] /\ \A k \in Job : work'[k].old = None
  BY <1>1, <1>2, BlankTyped
<1>6. pc' \in [Job -> Place]
  BY <1>1, <1>4
<1>7. TypeOK'
  BY <1>1, <1>5, <1>6 DEF Inv, TypeOK, store
<1>8. Safe'
  BY <1>1, <1>4, <1>5, Calm DEF store
<1>9. QED
  BY <1>7, <1>8 DEF Inv

LEMMA EditOracleInv == ASSUME Inv, EditOracle PROVE Inv'
<1>1. /\ oracle' \in Tables /\ edits' = edits + 1
      /\ UNCHANGED <<name, counted, files, store, pc, sent, work, tries, faults>>
  BY DEF EditOracle
<1>2. TypeOK'
  BY <1>1 DEF Inv, TypeOK, store
<1>3. Safe'
  BY <1>1, Calm DEF store
<1>4. QED
  BY <1>2, <1>3 DEF Inv

LEMMA SameInv == ASSUME Inv, UNCHANGED vars PROVE Inv'
<1>1. UNCHANGED <<world, store, pc, sent, work, tries, budget>>
  BY DEF vars
<1>2. TypeOK'
  BY <1>1 DEF Inv, TypeOK, world, store, budget
<1>3. Safe'
  BY <1>1, Calm DEF store
<1>4. QED
  BY <1>2, <1>3 DEF Inv

LEMMA StepInv == ASSUME Inv, NEW j \in Job, Step(j) PROVE Inv'
BY TakeInv, FetchOracleInv, ResolveInv, LookInv, CompareInv, WriteInv, EraseInv,
   CreateInv, FillInv, ReadAliasInv, SwapInv, DropOldInv, VanishedInv DEF Step

LEMMA NextInv == Inv /\ [Next]_vars => Inv'
<1> SUFFICES ASSUME Inv, [Next]_vars PROVE Inv'
  OBVIOUS
<1>1. CASE \E j \in Job : Submit(j) \/ Step(j) \/ Raise(j) \/ Lost(j)
  BY <1>1, SubmitInv, StepInv, RaiseInv, LostInv
<1>2. CASE Beat \/ Restart \/ EditOracle
  BY <1>2, BeatInv, RestartInv, EditOracleInv
<1>3. CASE UNCHANGED vars
  BY <1>3, SameInv
<1>4. QED
  BY <1>1, <1>2, <1>3 DEF Next

\* What the index and its jobs keep at every step, faults included.
LEMMA Invariant == Spec => []Inv
BY InitInv, NextInv, PTL DEF Spec

-----------------------------------------------------------------------------
\* faq_sync_task and faq_fetch_task keep every variable of the index in its
\* type, and a task is sent again at most max_retries times.
THEOREM TypeCorrect == Spec => []TypeOK
<1>1. Inv => TypeOK
  BY DEF Inv
<1>2. QED
  BY <1>1, Invariant, PTL

\* _run_ingestion and swap_alias: however many full ingestions overlap, fail
\* and are run again, the name always leads to a collection that exists; what
\* one of them drops was replaced by an alias that can not come back to it.
THEOREM AliasStands == Spec => []LiveCollectionStands
<1>1. Inv => LiveCollectionStands
  BY DEF Inv, Safe
<1>2. QED
  BY <1>1, Invariant, PTL

-----------------------------------------------------------------------------
(* What the jobs carry, whatever the name and the image.                    *)

\* The ids a job can write besides those of the files, and the source whose
\* points it may delete.
Ours(j) == IF j = Boot THEN {} ELSE IF j \in Fetch THEN OracleId ELSE PushId
Owns(j) == IF j = Boot THEN {"file"} ELSE IF j \in Fetch THEN {"oracle"} ELSE {}

\* The source of a document fits its id, or a push sent it so.
Authored(d) ==
    \A i \in Has(d) :
        \/ d[i] \in Versions(i)
        \/ /\ d[i].source = "file" => (i \in FileId)
           /\ d[i].source \in {"oracle", "unstamped"} => (i \in OracleId)

\* The files lie over the documents; what is of a file is of this image's, or
\* a push called it so.
Laid(d) == \A i \in Has(files) : d[i] = files[i]
OfImage(d) ==
    \A i \in Has(d) : d[i].source = "file" => d[i] = files[i] \/ d[i] \in Versions(i)

\* A fetch that is not told of more rows than it got has the whole table.
Shown == counted = "table" \/ Cardinality(Has(oracle)) <= Limit

\* No version that a push sent is taken back.
Growing == \A i \in Id : Versions(i) \subseteq Versions(i)'

Fresh == {"resolving", "looking", "comparing", "creating"}
Changing == {"writing", "erasing"}

\* The local variables w of job j at the place p.
Docked(j, p, w) ==
    /\ Has(w.docs) \subseteq FileId \cup Ours(j)
    /\ Authored(w.docs) /\ OfImage(w.docs)
    /\ p \in Changing \cup Building => Laid(w.docs)
    /\ p \in Running /\ j \in Pusher => \A i \in Id \ FileId : w.docs[i] = sent[j][i]
    /\ p \in Running /\ j = Boot => w.docs = files /\ w.scope = {"file"}
    /\ "oracle" \in w.scope /\ edits = 0 /\ Shown => Has(oracle) \subseteq Has(w.docs)
Listed(j, p, w) ==
    /\ w.scope \subseteq Owns(j) /\ w.todo \subseteq Has(w.docs)
    /\ \A i \in w.gone : /\ i \notin Has(w.docs)
                         /\ \/ i \in FileId /\ "file" \in w.scope
                            \/ i \in OracleId /\ "oracle" \in w.scope
                            \/ i \in PushId /\ Claimed(i)
    /\ p \in Fresh \cup {"erasing", "reading", "swapping"} => w.todo = {}
    /\ p \in Fresh \cup Building => w.gone = {}
    /\ p \in {"comparing"} \cup Changing \cup Building => w.live \in Coll
    /\ p \notin Running => w = Blank
Load(j, p, w) == Docked(j, p, w) /\ Listed(j, p, w)
Loads == \A j \in Job : Load(j, pc[j], work[j])

\* A push carries documents of its kind, from the request on.
Messages ==
    \A j \in Pusher :
        /\ \A i \in Has(sent[j]) :
              i \in PushId /\ sent[j][i].source \in {"push", "oracle", "file"}
        /\ pc[j] = "idle" => sent[j] = NoDocs

\* A name of its own has no row of the table, and no push to the default name.
Sound(d) == Authored(d) /\ (name = "override" => Has(d) \cap OracleId = {})
Stored ==
    /\ Legacy \in used
    /\ \A c \in Coll : colls[c] # None => Sound(colls[c])
    /\ name = "override" => \A j \in Push \cup Fetch : pc[j] = "idle"

Loaded == Messages /\ Stored /\ Loads

LEMMA FilesAre ==
  ASSUME Inv
  PROVE  /\ files \in Docs /\ Has(files) \subseteq FileId
         /\ \A i \in Has(files) : files[i].source = "file"
         /\ oracle \in Docs /\ Has(oracle) \subseteq OracleId
         /\ \A i \in Has(oracle) : oracle[i].source = "oracle"
         /\ Cardinality(Has(oracle)) \in Nat
<1>1. files \in FileSets /\ oracle \in Tables
  BY DEF Inv, TypeOK
<1>2. Cardinality(Has(oracle)) \in Nat
  BY <1>1, DocsAssumption, FS_CardinalityType
<1>3. QED
  BY <1>1, <1>2, DocsAssumption

\* A version is a push's.
LEMMA VersionIds ==
  ASSUME Loaded, NEW i \in Id, NEW v \in Versions(i)
  PROVE  i \in PushId
BY DEF Versions, Loaded, Messages, Has

LEMMA SentSame == ASSUME UNCHANGED sent PROVE Growing
BY DEF Growing, Versions

LEMMA BlankLoad ==
  ASSUME NEW j \in Job, NEW p, p \notin Running
  PROVE  Load(j, p, Blank)
<1>1. Blank.docs = NoDocs /\ Blank.scope = {} /\ Blank.todo = {} /\ Blank.gone = {}
  BY DEF Blank
<1>2. Has(NoDocs) = {}
  BY DEF Has, NoDocs
<1>3. p \notin Changing \cup Building
  BY DEF Changing, Building, Running
<1>4. Docked(j, p, Blank)
  BY <1>1, <1>2, <1>3 DEF Docked, Authored, OfImage
<1>5. Listed(j, p, Blank)
  <2>1. p # "comparing"
    BY DEF Running
  <2>2. QED
    BY <1>1, <1>2, <1>3, <2>1 DEF Listed
<1>6. QED
  BY <1>4, <1>5 DEF Load

LEMMA BootLoad ==
  files \in FileSets => Load(Boot, BootPlace(files), BootWork(files))
<1> SUFFICES ASSUME files \in FileSets PROVE Load(Boot, BootPlace(files), BootWork(files))
  OBVIOUS
<1>1. Boot \in Job /\ Boot \notin Pusher
  BY JobsAssumption DEF Job
<1>2. CASE name = "default" /\ Has(files) # {}
  <2> DEFINE w == BootWork(files)
  <2>1. /\ w.docs = files /\ w.scope = {"file"} /\ w.todo = {} /\ w.gone = {}
        /\ BootPlace(files) = "resolving"
    BY <1>2 DEF BootWork, BootPlace, Blank
  <2>2. Has(files) \subseteq FileId /\ \A i \in Has(files) : files[i].source = "file"
    BY DocsAssumption
  <2> HIDE DEF w
  <2>3. Docked(Boot, "resolving", w)
    BY <1>1, <2>1, <2>2 DEF Docked, Authored, OfImage, Changing, Building
  <2>4. Listed(Boot, "resolving", w)
    BY <1>1, <2>1 DEF Listed, Owns, Changing, Building, Running
  <2>5. QED
    BY <2>1, <2>3, <2>4 DEF Load, w
<1>3. CASE ~(name = "default" /\ Has(files) # {})
  <2>1. BootPlace(files) = "done" /\ BootWork(files) = Blank
    BY <1>3 DEF BootPlace, BootWork
  <2>2. QED
    BY <1>1, <2>1, BlankLoad DEF Running
<1>4. QED
  BY <1>2, <1>3

\* ... of the step's end.
LEMMA BootAt ==
  /\ Boot \in Job
  /\ files \in FileSets /\ pc[Boot] = BootPlace(files) /\ work[Boot] = BootWork(files)
       => Load(Boot, pc[Boot], work[Boot])
BY BootLoad DEF Job

LEMMA BootNext ==
  ASSUME files' \in FileSets, pc'[Boot] = BootPlace(files)', work'[Boot] = BootWork(files)'
  PROVE  Load(Boot, pc[Boot], work[Boot])'
<1>1. (files \in FileSets /\ pc[Boot] = BootPlace(files) /\ work[Boot] = BootWork(files)
         => Load(Boot, pc[Boot], work[Boot]))'
  BY BootAt, PTL
<1>2. QED
  BY <1>1

LEMMA BlankAt ==
  ASSUME NEW k \in Job
  PROVE  pc[k] \notin Running /\ work[k] = Blank => Load(k, pc[k], work[k])
BY BlankLoad

LEMMA BlankNext ==
  ASSUME NEW k \in Job, pc'[k] \notin Running, work'[k] = Blank
  PROVE  Load(k, pc[k], work[k])'
<1>1. (pc[k] \notin Running /\ work[k] = Blank => Load(k, pc[k], work[k]))'
  BY BlankAt, PTL
<1>2. QED
  BY <1>1

\* A job whose variables stay fits them still.
LEMMA LoadKept ==
  ASSUME NEW k \in Job, NEW p, NEW w, Load(k, p, w), Growing,
         UNCHANGED <<oracle, counted, files, edits>>,
         k \in Pusher /\ p \in Running => sent'[k] = sent[k],
         pc'[k] = p, work'[k] = w
  PROVE  Load(k, pc[k], work[k])'
<1>1. Docked(k, pc[k], work[k])'
  <2>1. Shown' <=> Shown
    BY DEF Shown
  <2>2. QED
    BY <2>1 DEF Load, Docked, Laid, OfImage, Authored, Growing, Has
<1>2. Listed(k, pc[k], work[k])'
  <2>1. \A i \in PushId : Claimed(i) => Claimed(i)'
    BY DEF Growing, Claimed, Id
  <2>2. QED
    BY <2>1 DEF Load, Listed
<1>3. QED
  BY <1>1, <1>2 DEF Load

\* One job under way goes on to another place.
LEMMA Advance ==
  ASSUME Inv, Loaded, NEW j \in Job, pc[j] # "idle", NEW place, NEW w,
         place = "idle" => j \in Fetch,
         pc' = [pc EXCEPT ![j] = place], work' = [work EXCEPT ![j] = w],
         Load(j, place, w), UNCHANGED <<world, sent, edits>>,
         used \subseteq used',
         \A c \in Coll : colls'[c] # None => Sound(colls'[c])
  PROVE  Loaded'
<1>1. /\ \A k \in Job : k # j => pc'[k] = pc[k] /\ work'[k] = work[k]
      /\ pc'[j] = place /\ work'[j] = w
  BY DEF Inv, TypeOK
<1>2. Loads'
  <2> SUFFICES ASSUME NEW k \in Job PROVE Load(k, pc[k], work[k])'
    BY DEF Loads
  <2>1. UNCHANGED <<oracle, counted, files, edits, sent>> /\ Growing
    BY SentSame DEF world
  <2>2. CASE k = j
    BY <1>1, <2>1, <2>2, LoadKept
  <2>3. CASE k # j
    <3>1. Load(k, pc[k], work[k])
      BY DEF Loaded, Loads
    <3>2. QED
      BY <1>1, <2>1, <2>3, <3>1, LoadKept
  <2>4. QED
    BY <2>2, <2>3
<1>3. Messages'
  <2>1. Pusher \subseteq Job /\ Pusher \cap Fetch = {}
    BY JobsAssumption DEF Job
  <2>2. QED
    BY <1>1, <2>1 DEF Loaded, Messages
<1>4. Stored'
  <2>1. \A c \in Coll : (colls[c] # None)' => Sound(colls[c])'
    BY SentSame DEF Sound, Authored, Growing, Has, world
  <2>2. Push \cup Fetch \subseteq Job
    BY DEF Job, Pusher
  <2>3. QED
    BY <1>1, <2>1, <2>2 DEF Loaded, Stored, world
<1>5. QED
  BY <1>2, <1>3, <1>4 DEF Loaded

\* ... and to its end.
LEMMA FinishLoaded ==
  ASSUME Inv, Loaded, NEW j \in Job, pc[j] # "idle",
         NEW place \in {"queued", "done", "failed"}, Finish(j, place),
         UNCHANGED <<world, sent, edits>>, used \subseteq used',
         \A c \in Coll : colls'[c] # None => Sound(colls'[c])
  PROVE  Loaded'
<1> DEFINE p == IF j \in Fetch THEN "idle" ELSE place
<1>1. pc' = [pc EXCEPT ![j] = p] /\ work' = [work EXCEPT ![j] = Blank]
  BY DEF Finish, Goto
<1>2. p \notin Running /\ (p = "idle" => j \in Fetch)
  BY DEF Running
<1>3. Load(j, p, Blank)
  BY <1>2, BlankLoad
<1> HIDE DEF p
<1>4. QED
  BY <1>1, <1>2, <1>3, Advance

\* The collections are left alone.
LEMMA SameSound ==
  ASSUME Loaded, UNCHANGED colls
  PROVE  \A c \in Coll : colls'[c] # None => Sound(colls'[c])
BY DEF Loaded, Stored

LEMMA FreshLoad ==
  ASSUME NEW j, NEW p \in Fresh, NEW q \in Fresh, NEW w, NEW v, Load(j, p, w),
         v.docs = w.docs, v.scope = w.scope, v.todo = w.todo, v.gone = w.gone,
         q = "comparing" => v.live \in Coll
  PROVE  Load(j, q, v)
<1>1. p \in Running /\ q \in Running /\ q \notin Changing \cup Building
  BY DEF Fresh, Running, Changing, Building
<1>2. Docked(j, q, v)
  BY <1>1 DEF Load, Docked
<1>3. Listed(j, q, v)
  BY <1>1 DEF Load, Listed
<1>4. QED
  BY <1>2, <1>3 DEF Load

\* What apply_file_overlays makes of the documents.
LEMMA IncomingLoad ==
  ASSUME Inv, NEW j \in Job, NEW p \in Fresh, Load(j, p, work[j])
  PROVE  LET d == Incoming(j) IN
         /\ d \in Docs /\ Laid(d) /\ OfImage(d) /\ Authored(d)
         /\ Has(d) = Has(files) \cup Has(work[j].docs)
         /\ Has(d) \subseteq FileId \cup Ours(j)
         /\ j \in Pusher => \A i \in Id \ FileId : d[i] = sent[j][i]
         /\ j = Boot => d = files
<1> DEFINE b == work[j].docs
           d == Incoming(j)
<1>1. /\ files \in Docs /\ Has(files) \subseteq FileId
      /\ \A i \in Has(files) : files[i].source = "file"
  BY FilesAre
<1>2. b \in Docs
  BY DEF Inv, TypeOK, WorkType
<1>3. /\ Has(b) \subseteq FileId \cup Ours(j) /\ Authored(b) /\ OfImage(b)
      /\ j \in Pusher => \A i \in Id \ FileId : b[i] = sent[j][i]
      /\ j = Boot => b = files
  BY DEF Load, Docked, Fresh, Running
<1>4. d \in Docs
  BY <1>1, <1>2, OverTyped DEF Incoming
<1>5. \A i \in Id : d[i] = IF files[i] # Absent THEN files[i] ELSE b[i]
  BY DEF Incoming, Over
<1> HIDE DEF b, d
<1>6. Has(d) = Has(files) \cup Has(b)
  BY <1>5 DEF Has
<1>7. Laid(d) /\ OfImage(d) /\ Authored(d)
  BY <1>1, <1>3, <1>5 DEF Laid, OfImage, Authored, Has
<1>8. j \in Pusher => \A i \in Id \ FileId : d[i] = sent[j][i]
  BY <1>1, <1>3, <1>5 DEF Has
<1>9. ASSUME j = Boot PROVE d = files
  <2>1. \A i \in Id : d[i] = files[i]
    BY <1>3, <1>5, <1>9
  <2>2. QED
    BY <1>1, <1>4, <2>1 DEF Docs
<1>10. QED
  BY <1>1, <1>3, <1>4, <1>6, <1>7, <1>8, <1>9 DEF b, d

\* A batch fits the collection.
LEMMA BatchSound ==
  ASSUME Inv, Loaded, NEW j \in Job, NEW batch \in SUBSET work[j].todo, Upsert(j, batch),
         pc[j] # "idle", colls[work[j].live] # None
  PROVE  \A c \in Coll : colls'[c] # None => Sound(colls'[c])
<1> SUFFICES ASSUME NEW c \in Coll, colls'[c] # None PROVE Sound(colls'[c])
  OBVIOUS
<1>1. colls \in [Coll -> Docs \cup {None}]
  BY DEF Inv, TypeOK
<1>2. CASE c # work[j].live
  BY <1>1, <1>2 DEF Upsert, Loaded, Stored
<1>3. CASE c = work[j].live
  <2> DEFINE b == work[j].docs
             d == [i \in Id |-> IF i \in batch THEN b[i] ELSE colls[c][i]]
  <2>1. colls'[c] = d
    BY <1>1, <1>3 DEF Upsert
  <2>2. Sound(colls[c])
    BY <1>3 DEF Loaded, Stored
  <2>3. batch \subseteq Has(b) /\ Authored(b) /\ Has(b) \subseteq FileId \cup Ours(j)
    BY DEF Loaded, Loads, Load, Docked, Listed
  <2>4. \A i \in Id : d[i] = IF i \in batch THEN b[i] ELSE colls[c][i]
    OBVIOUS
  <2> HIDE DEF b, d
  <2>5. Authored(d)
    BY <2>2, <2>3, <2>4 DEF Sound, Authored, Has
  <2>6. ASSUME name = "override" PROVE Has(d) \cap OracleId = {}
    <3>1. j \notin Fetch
      BY <2>6 DEF Loaded, Stored
    <3>2. Has(b) \cap OracleId = {}
      BY <2>3, <3>1, DocsAssumption DEF Ours
    <3>3. Has(colls[c]) \cap OracleId = {}
      BY <2>2, <2>6 DEF Sound
    <3>4. QED
      BY <2>3, <2>4, <3>2, <3>3 DEF Has
  <2>7. QED
    BY <2>1, <2>5, <2>6 DEF Sound
<1>4. QED
  BY <1>2, <1>3

LEMMA InitLoaded == Init => Loaded
<1> SUFFICES ASSUME Init PROVE Loaded
  OBVIOUS
<1>1. Inv /\ files \in FileSets
  BY InitInv DEF Init
<1>2. Messages
  <2>1. \A j \in Pusher : sent[j] = NoDocs
    BY DEF Init
  <2>2. Has(NoDocs) = {}
    BY DEF Has, NoDocs
  <2>3. QED
    BY <2>1, <2>2 DEF Messages
<1>3. Stored
  <2>1. \A j \in Push \cup Fetch : pc[j] = "idle"
    BY JobsAssumption DEF Init, Job, Pusher
  <2>2. Legacy \in used
    BY DEF Init
  <2>3. ASSUME NEW c \in Coll, colls[c] # None PROVE Sound(colls[c])
    <3> DEFINE d == [i \in Id |-> IF oracle[i] = Absent THEN Absent
                                  ELSE [oracle[i] EXCEPT !.source = "unstamped"]]
    <3>1. name = "default" /\ colls[c] = d
      BY <2>3 DEF Init
    <3>2. oracle \in Docs /\ Has(oracle) \subseteq OracleId
      BY <1>1, FilesAre
    <3>3. \A i \in Has(d) : i \in OracleId /\ d[i].source = "unstamped"
      BY <3>2 DEF Has, Docs
    <3> HIDE DEF d
    <3>4. QED
      BY <3>1, <3>3 DEF Sound, Authored
  <2>4. QED
    BY <2>1, <2>2, <2>3 DEF Stored
<1>4. Loads
  <2> SUFFICES ASSUME NEW j \in Job PROVE Load(j, pc[j], work[j])
    BY DEF Loads
  <2>1. CASE j = Boot
    BY <1>1, <2>1, BootLoad DEF Init
  <2>2. CASE j # Boot
    <3>1. pc[j] = "idle" /\ work[j] = Blank
      BY <2>2 DEF Init
    <3>2. QED
      BY <3>1, BlankLoad DEF Running
  <2>3. QED
    BY <2>1, <2>2
<1>5. QED
  BY <1>2, <1>3, <1>4 DEF Loaded

LEMMA SubmitLoaded == ASSUME Inv, Loaded, NEW j \in Job, Submit(j) PROVE Loaded'
<1>1. /\ j \in Pusher /\ pc' = [pc EXCEPT ![j] = "queued"] /\ pc[j] = "idle"
      /\ UNCHANGED <<world, store, work, tries, budget>>
      /\ name = "override" => j \notin Push \cup Fetch
  BY JobsAssumption DEF Submit, Pusher, Goto
<1>2. PICK p \in Pushes : sent' = [sent EXCEPT ![j] = p]
  BY DEF Submit
<1>3. /\ \A k \in Job : k # j => pc'[k] = pc[k]
      /\ pc'[j] = "queued" /\ sent'[j] = p
      /\ \A k \in Pusher : k # j => sent'[k] = sent[k]
  BY <1>1, <1>2 DEF Inv, TypeOK
<1>5. Messages'
  <2>1. \A i \in Has(p) : i \in PushId /\ p[i].source \in {"push", "oracle", "file"}
    BY DocsAssumption
  <2>2. Pusher \subseteq Job
    BY DEF Job
  <2>3. QED
    BY <1>3, <2>1, <2>2 DEF Loaded, Messages
<1>4. Growing
  <2> SUFFICES ASSUME NEW i \in Id, NEW v \in Versions(i) PROVE v \in Versions(i)'
    BY DEF Growing
  <2>1. PICK k \in Pusher : v = sent[k][i] /\ v # Absent
    BY DEF Versions
  <2>2. sent[j] = NoDocs
    BY <1>1 DEF Loaded, Messages
  <2>3. k # j
    BY <2>1, <2>2 DEF NoDocs
  <2>4. QED
    BY <1>3, <2>1, <2>3 DEF Versions
<1>6. Stored'
  <2>1. \A k \in Push \cup Fetch : k \in Job
    BY DEF Job, Pusher
  <2>2. UNCHANGED <<colls, name, used>>
    BY <1>1 DEF store, world
  <2>3. \A c \in Coll : (colls[c] # None)' => Sound(colls[c])'
    BY <1>4, <2>2 DEF Loaded, Stored, Sound, Authored, Growing, Has
  <2>4. QED
    BY <1>1, <1>3, <2>1, <2>2, <2>3 DEF Loaded, Stored
<1>7. Loads'
  <2> SUFFICES ASSUME NEW k \in Job PROVE Load(k, pc[k], work[k])'
    BY DEF Loads
  <2>1. UNCHANGED <<oracle, counted, files, edits>> /\ work'[k] = work[k]
    BY <1>1 DEF world, budget
  <2>2. Load(k, pc[k], work[k])
    BY DEF Loaded, Loads
  <2>3. CASE k = j
    <3>1. work[k] = Blank
      BY <1>1, <2>2, <2>3 DEF Load, Listed, Running
    <3>2. Load(k, "queued", Blank)
      BY BlankLoad DEF Running
    <3>3. QED
      BY <1>3, <2>1, <2>3, <3>1, <3>2, <1>4, LoadKept DEF Running
  <2>4. CASE k # j
    BY <1>3, <2>1, <2>2, <2>4, <1>4, LoadKept
  <2>5. QED
    BY <2>3, <2>4
<1>8. QED
  BY <1>5, <1>6, <1>7 DEF Loaded

LEMMA BeatLoaded == ASSUME Inv, Loaded, Beat PROVE Loaded'
<1>1. \E k \in Fetch : pc[k] = "idle"
  BY DEF Beat
<1>2. PICK j \in Fetch : /\ pc[j] = "idle" /\ pc' = [pc EXCEPT ![j] = "queued"]
                         /\ name = "default" /\ UNCHANGED <<world, store, work, sent, budget>>
  BY <1>1 DEF Beat, Goto
<1>3. j \in Job /\ j \notin Pusher
  BY JobsAssumption DEF Job
<1>4. pc'[j] = "queued" /\ \A k \in Job : k # j => pc'[k] = pc[k]
  BY <1>2, <1>3 DEF Inv, TypeOK
<1>5. Messages'
  <2>1. \A k \in Pusher : k \in Job /\ k # j
    BY <1>3 DEF Job
  <2>2. QED
    BY <1>2, <1>4, <2>1 DEF Loaded, Messages
<1>6. Stored'
  BY <1>2, SentSame DEF Loaded, Stored, Sound, Authored, Growing, Has, world, store
<1>7. Loads'
  <2> SUFFICES ASSUME NEW k \in Job PROVE Load(k, pc[k], work[k])'
    BY DEF Loads
  <2>1. UNCHANGED <<oracle, counted, files, edits, sent>> /\ work'[k] = work[k] /\ Growing
    BY <1>2, SentSame DEF world, budget
  <2>2. Load(k, pc[k], work[k])
    BY DEF Loaded, Loads
  <2>3. CASE k = j
    <3>1. work[k] = Blank
      BY <1>2, <2>2, <2>3 DEF Load, Listed, Running
    <3>2. Load(k, "queued", Blank)
      BY BlankLoad DEF Running
    <3>3. QED
      BY <1>4, <2>1, <2>3, <3>1, <3>2, LoadKept
  <2>4. CASE k # j
    BY <1>4, <2>1, <2>2, <2>4, LoadKept
  <2>5. QED
    BY <2>3, <2>4
<1>8. QED
  BY <1>5, <1>6, <1>7 DEF Loaded

LEMMA TakeLoaded == ASSUME Inv, Loaded, NEW j \in Job, Take(j) PROVE Loaded'
<1> DEFINE w == [work[j] EXCEPT !.docs = sent[j]]
<1>1. /\ j \in Pusher /\ pc[j] = "queued" /\ pc' = [pc EXCEPT ![j] = "resolving"]
      /\ work' = [work EXCEPT ![j] = w]
      /\ UNCHANGED <<world, store, sent, tries, budget>>
  BY DEF Take, Taken, Goto, Inv, TypeOK
<1>2. work[j] = Blank
  BY <1>1 DEF Loaded, Loads, Load, Listed, Running
<1>3. w.docs = sent[j] /\ w.scope = {} /\ w.todo = {} /\ w.gone = {}
  BY <1>2 DEF Blank
<1>4. \A i \in Has(sent[j]) : i \in PushId /\ sent[j][i] \in Versions(i)
  BY <1>1 DEF Loaded, Messages, Versions, Has
<1>5. j # Boot /\ j \notin Fetch
  BY <1>1, JobsAssumption
<1> HIDE DEF w
<1>6. Docked(j, "resolving", w)
  BY <1>1, <1>3, <1>4, <1>5 DEF Docked, Ours, Authored, OfImage, Changing, Building
<1>7. Listed(j, "resolving", w)
  BY <1>3 DEF Listed, Changing, Building, Running
<1>8. QED
  BY <1>1, <1>6, <1>7, Advance, SameSound DEF Load, store, budget

\* An answer not known to be partial is the table, if `total` counts the table
\* or one answer shows it.
LEMMA WholePage ==
  ASSUME Inv, NEW page \in Pages
  PROVE  /\ page \subseteq Has(oracle)
         /\ ~Partial(page) /\ Shown => page = Has(oracle)
<1>1. Cardinality(Has(oracle)) \in Nat /\ Limit \in Nat
  BY FilesAre, BoundsAssumption
<1>2. CASE Cardinality(Has(oracle)) <= Limit
  BY <1>2 DEF Pages
<1>3. CASE ~(Cardinality(Has(oracle)) <= Limit)
  <2>1. page \subseteq Has(oracle) /\ Cardinality(page) = Limit
    BY <1>3 DEF Pages
  <2>2. Shown => counted = "table"
    BY <1>3 DEF Shown
  <2>3. counted = "table" => Partial(page)
    BY <1>1, <1>3, <2>1 DEF Partial
  <2>4. QED
    BY <2>1, <2>2, <2>3
<1>4. QED
  BY <1>2, <1>3

LEMMA FetchOracleLoaded == ASSUME Inv, Loaded, NEW j \in Job, FetchOracle(j) PROVE Loaded'
<1>1. /\ UNCHANGED <<world, store, sent, tries, budget>> /\ j \in Fetch /\ pc[j] = "queued"
      /\ j \notin Pusher /\ j # Boot
  BY JobsAssumption DEF FetchOracle, Taken
<1>2. PICK page \in Pages :
          IF page = {} THEN Finish(j, "done")
          ELSE /\ Goto(j, "resolving")
               /\ work' = [work EXCEPT
                     ![j].docs = [i \in Id |-> IF i \in page THEN oracle[i] ELSE Absent],
                     ![j].scope = IF Partial(page) THEN {} ELSE {"oracle"}]
  BY DEF FetchOracle
<1>3. CASE page = {}
  BY <1>1, <1>2, <1>3, FinishLoaded, SameSound DEF store, budget
<1>4. CASE page # {}
  <2> DEFINE d == [i \in Id |-> IF i \in page THEN oracle[i] ELSE Absent]
             s == IF Partial(page) THEN {} ELSE {"oracle"}
             w == [[work[j] EXCEPT !.docs = d] EXCEPT !.scope = s]
  <2>1. pc' = [pc EXCEPT ![j] = "resolving"] /\ work' = [work EXCEPT ![j] = w]
    BY <1>2, <1>4 DEF Goto, Inv, TypeOK
  <2>2. work[j] = Blank
    BY <1>1 DEF Loaded, Loads, Load, Listed, Running
  <2>3. w.docs = d /\ w.scope = s /\ w.todo = {} /\ w.gone = {}
    BY <2>2 DEF Blank
  <2>4. page \subseteq Has(oracle) /\ (~Partial(page) /\ Shown => page = Has(oracle))
    BY WholePage
  <2>5. /\ \A i \in Has(d) : i \in OracleId /\ d[i].source = "oracle"
        /\ s = {"oracle"} \/ s = {}
        /\ "oracle" \in s /\ Shown => Has(oracle) \subseteq Has(d)
    BY <2>4, FilesAre DEF Has
  <2> HIDE DEF d, s, w
  <2>6. Docked(j, "resolving", w)
    BY <1>1, <2>3, <2>5 DEF Docked, Ours, Authored, OfImage, Changing, Building
  <2>7. Listed(j, "resolving", w)
    BY <1>1, <2>3, <2>5 DEF Listed, Changing, Building, Running, Owns
  <2>8. QED
    BY <1>1, <2>1, <2>6, <2>7, Advance, SameSound DEF Load, store, budget
<1>5. QED
  BY <1>3, <1>4

\* Finding the collection.
LEMMA FoundLoaded ==
  ASSUME Inv, Loaded, NEW j \in Job, NEW c \in Coll \cup {work[j].live},
         NEW place \in Fresh, pc[j] \in Fresh,
         place = "comparing" => c \in Coll,
         pc' = [pc EXCEPT ![j] = place], work' = [work EXCEPT ![j].live = c],
         UNCHANGED <<world, store, sent, tries, budget>>
  PROVE  Loaded'
<1> DEFINE w == [work[j] EXCEPT !.live = c]
<1>1. work' = [work EXCEPT ![j] = w] /\ work[j] \in WorkType
  BY DEF Inv, TypeOK
<1>2. w.docs = work[j].docs /\ w.scope = work[j].scope /\ w.todo = work[j].todo
      /\ w.gone = work[j].gone /\ w.live = c
  BY <1>1 DEF WorkType
<1> HIDE DEF w
<1>3. Load(j, pc[j], work[j])
  BY DEF Loaded, Loads
<1>4. Load(j, place, w)
  BY <1>2, <1>3, FreshLoad
<1>5. pc[j] # "idle" /\ place # "idle"
  BY DEF Fresh
<1>6. QED
  BY <1>1, <1>4, <1>5, Advance, SameSound DEF store, budget

LEMMA StayLive ==
  ASSUME Inv, NEW j \in Job
  PROVE  work = [work EXCEPT ![j].live = work[j].live]
BY DEF Inv, TypeOK, WorkType

LEMMA ResolveLoaded == ASSUME Inv, Loaded, NEW j \in Job, Resolve(j) PROVE Loaded'
<1>1. UNCHANGED <<world, store, sent, tries, budget>> /\ pc[j] = "resolving"
  BY DEF Resolve
<1>2. {"resolving", "looking", "comparing"} \subseteq Fresh
  BY DEF Fresh
<1>3. CASE alias = None
  <2>1. pc' = [pc EXCEPT ![j] = "looking"] /\ work' = [work EXCEPT ![j].live = work[j].live]
    BY <1>3, StayLive DEF Resolve, Goto
  <2>2. QED
    BY <1>1, <1>2, <2>1, FoundLoaded
<1>4. CASE alias # None
  <2>1. pc' = [pc EXCEPT ![j] = "comparing"] /\ work' = [work EXCEPT ![j].live = alias]
    BY <1>4 DEF Resolve, Goto
  <2>2. alias \in Coll
    BY <1>4 DEF Inv, TypeOK
  <2>3. QED
    BY <1>1, <1>2, <2>1, <2>2, FoundLoaded
<1>5. QED
  BY <1>3, <1>4

LEMMA LookLoaded == ASSUME Inv, Loaded, NEW j \in Job, Look(j) PROVE Loaded'
<1>1. UNCHANGED <<world, store, sent, tries, budget>> /\ pc[j] = "looking"
  BY DEF Look
<1>2. {"looking", "comparing", "creating"} \subseteq Fresh /\ Legacy \in Coll
  BY NamesAssumption DEF Fresh
<1>3. CASE colls[Legacy] # None
  <2>1. pc' = [pc EXCEPT ![j] = "comparing"] /\ work' = [work EXCEPT ![j].live = Legacy]
    BY <1>3 DEF Look, Goto
  <2>2. QED
    BY <1>1, <1>2, <2>1, FoundLoaded
<1>4. CASE colls[Legacy] = None
  <2>1. pc' = [pc EXCEPT ![j] = "creating"] /\ work' = [work EXCEPT ![j].live = work[j].live]
    BY <1>4, StayLive DEF Look, Goto
  <2>2. QED
    BY <1>1, <1>2, <2>1, FoundLoaded
<1>5. QED
  BY <1>3, <1>4

\* What there is to delete is the job's own, and not in what it has.
LEMMA GoneIsOwned ==
  ASSUME Loaded, NEW j \in Job, NEW points, Authored(points),
         NEW scope, scope \subseteq Owns(j), NEW d \in Docs
  PROVE  \A i \in ToDelete(d, points, scope) :
            /\ i \notin Has(d)
            /\ \/ i \in FileId /\ "file" \in scope
               \/ i \in OracleId /\ "oracle" \in scope
               \/ i \in PushId /\ Claimed(i)
<1> SUFFICES ASSUME NEW i \in ToDelete(d, points, scope)
             PROVE  /\ i \notin Has(d)
                    /\ \/ i \in FileId /\ "file" \in scope
                       \/ i \in OracleId /\ "oracle" \in scope
                       \/ i \in PushId /\ Claimed(i)
  OBVIOUS
<1>1. i \in Has(points) /\ d[i] = Absent /\ points[i].source \in scope
  BY DEF ToDelete
<1>2. points[i].source \in {"file", "oracle"}
  BY <1>1 DEF Owns
<1>3. CASE points[i] \in Versions(i)
  <2>1. i \in Id
    BY <1>1 DEF Has
  <2>2. Claimed(i) /\ i \in PushId
    BY <1>2, <1>3, <2>1, VersionIds DEF Claimed
  <2>3. QED
    BY <1>1, <2>2 DEF Has
<1>4. CASE points[i] \notin Versions(i)
  BY <1>1, <1>2, <1>4 DEF Authored, Has
<1>5. QED
  BY <1>3, <1>4

LEMMA CompareLoaded == ASSUME Inv, Loaded, NEW j \in Job, Compare(j) PROVE Loaded'
<1> DEFINE d == Incoming(j)
           points == colls[work[j].live]
           scope == work[j].scope
           todo == ToUpsert(d, points)
           gone == ToDelete(d, points, scope)
<1>1. /\ pc[j] = "comparing" /\ points # None
      /\ UNCHANGED <<world, store, sent, tries, budget>>
  BY DEF Compare
<1>2. CASE todo \cup gone = {}
  <2>1. Finish(j, "done")
    BY <1>2 DEF Compare
  <2>2. QED
    BY <1>1, <2>1, FinishLoaded, SameSound DEF store, budget
<1>3. CASE todo \cup gone # {}
  <2> DEFINE w == [[[work[j] EXCEPT !.docs = d] EXCEPT !.todo = todo] EXCEPT !.gone = gone]
             place == AfterCompare(todo, gone)
  <2>1. pc' = [pc EXCEPT ![j] = place] /\ work' = [work EXCEPT ![j] = w]
    BY <1>3 DEF Compare, Goto, Inv, TypeOK
  <2>2. work[j] \in WorkType
    BY DEF Inv, TypeOK
  <2>3. w.docs = d /\ w.todo = todo /\ w.gone = gone /\ w.scope = scope
        /\ w.live = work[j].live
    BY <2>2 DEF WorkType
  <2>4. /\ place \in {"writing", "erasing"}
        /\ place = "erasing" => todo = {}
    BY <1>3 DEF AfterCompare
  <2>5. Load(j, "comparing", work[j])
    BY <1>1 DEF Loaded, Loads
  <2>6. /\ d \in Docs /\ Laid(d) /\ OfImage(d) /\ Authored(d)
        /\ Has(d) = Has(files) \cup Has(work[j].docs)
        /\ Has(d) \subseteq FileId \cup Ours(j)
        /\ j \in Pusher => \A i \in Id \ FileId : d[i] = sent[j][i]
        /\ j = Boot => d = files
    BY <2>5, IncomingLoad DEF Fresh
  <2>7. scope \subseteq Owns(j)
    BY <2>5 DEF Load, Listed
  <2>8. /\ "oracle" \in scope /\ edits = 0 /\ Shown => Has(oracle) \subseteq Has(work[j].docs)
        /\ j = Boot => scope = {"file"}
    BY <2>5 DEF Load, Docked, Running
  <2>9. Authored(points) /\ work[j].live \in Coll
    <3>1. work[j].live \in Coll
      BY <2>5 DEF Load, Listed
    <3>2. QED
      BY <1>1, <3>1 DEF Loaded, Stored, Sound
  <2>10. todo \subseteq Has(d)
    BY DEF ToUpsert
  <2>11. \A i \in gone : /\ i \notin Has(d)
                         /\ \/ i \in FileId /\ "file" \in scope
                            \/ i \in OracleId /\ "oracle" \in scope
                            \/ i \in PushId /\ Claimed(i)
    BY <2>6, <2>7, <2>9, GoneIsOwned
  <2> HIDE DEF d, points, scope, todo, gone, w, place
  <2>12. Docked(j, place, w)
    BY <2>3, <2>6, <2>8 DEF Docked
  <2>13. Listed(j, place, w)
    BY <2>3, <2>4, <2>7, <2>9, <2>10, <2>11 DEF Listed, Fresh, Building, Running
  <2>14. place # "idle" /\ pc[j] # "idle"
    BY <1>1, <2>4
  <2>15. QED
    BY <1>1, <2>1, <2>12, <2>13, <2>14, Advance, SameSound DEF Load, store, budget
<1>4. QED
  BY <1>2, <1>3

LEMMA WriteLoaded == ASSUME Inv, Loaded, NEW j \in Job, Write(j) PROVE Loaded'
<1>1. /\ UNCHANGED <<world, alias, used, sent, tries, budget>>
      /\ pc[j] = "writing" /\ colls[work[j].live] # None
  BY DEF Write
<1>2. PICK batch \in SUBSET work[j].todo :
          LET left == work[j].todo \ batch
          IN  /\ Upsert(j, batch)
              /\ IF left \cup work[j].gone = {} THEN Finish(j, "done")
                 ELSE /\ Goto(j, AfterCompare(left, work[j].gone))
                      /\ work' = [work EXCEPT ![j].todo = left]
  BY DEF Write
<1>3. \A c \in Coll : colls'[c] # None => Sound(colls'[c])
  BY <1>1, <1>2, BatchSound
<1> DEFINE left == work[j].todo \ batch
           w == [work[j] EXCEPT !.todo = left]
           place == AfterCompare(left, work[j].gone)
<1>4. CASE left \cup work[j].gone = {}
  BY <1>1, <1>2, <1>3, <1>4, FinishLoaded DEF budget
<1>5. CASE left \cup work[j].gone # {}
  <2>1. pc' = [pc EXCEPT ![j] = place] /\ work' = [work EXCEPT ![j] = w]
    BY <1>2, <1>5 DEF Goto, Inv, TypeOK
  <2>2. /\ w.docs = work[j].docs /\ w.scope = work[j].scope /\ w.gone = work[j].gone
        /\ w.todo = left /\ left \subseteq work[j].todo /\ w.live = work[j].live
    BY DEF Inv, TypeOK, WorkType
  <2>3. place \in {"writing", "erasing"} /\ (place = "erasing" => left = {})
    BY <1>5 DEF AfterCompare
  <2>4. Docked(j, "writing", work[j]) /\ Listed(j, "writing", work[j])
    BY <1>1 DEF Loaded, Loads, Load
  <2> HIDE DEF left, w, place
  <2>5. Docked(j, place, w)
    BY <2>2, <2>3, <2>4 DEF Docked, Changing, Running
  <2>6. Listed(j, place, w)
    BY <2>2, <2>3, <2>4 DEF Listed, Fresh, Changing, Building, Running
  <2>7. place # "idle"
    BY <2>3
  <2>8. QED
    BY <1>1, <1>3, <2>1, <2>5, <2>6, <2>7, Advance DEF Load, budget
<1>6. QED
  BY <1>4, <1>5

LEMMA EraseLoaded == ASSUME Inv, Loaded, NEW j \in Job, Erase(j) PROVE Loaded'
<1>1. /\ UNCHANGED <<world, alias, used, sent, tries, budget>>
      /\ pc[j] = "erasing" /\ colls[work[j].live] # None /\ Finish(j, "done")
      /\ colls' = [colls EXCEPT ![work[j].live] =
                      [i \in Id |-> IF i \in work[j].gone THEN Absent ELSE @[i]]]
  BY DEF Erase
<1>2. ASSUME NEW c \in Coll, colls'[c] # None PROVE Sound(colls'[c])
  <2>1. colls \in [Coll -> Docs \cup {None}]
    BY DEF Inv, TypeOK
  <2>2. CASE c # work[j].live
    BY <1>1, <1>2, <2>1, <2>2 DEF Loaded, Stored
  <2>3. CASE c = work[j].live
    <3> DEFINE d == [i \in Id |-> IF i \in work[j].gone THEN Absent ELSE colls[c][i]]
    <3>1. colls'[c] = d
      BY <1>1, <2>1, <2>3
    <3>2. Sound(colls[c])
      BY <1>1, <2>3 DEF Loaded, Stored
    <3>3. \A i \in Has(d) : i \in Has(colls[c]) /\ d[i] = colls[c][i]
      BY DEF Has
    <3> HIDE DEF d
    <3>4. QED
      BY <3>1, <3>2, <3>3 DEF Sound, Authored
  <2>4. QED
    BY <2>2, <2>3
<1>3. QED
  BY <1>1, <1>2, FinishLoaded DEF budget

LEMMA CreateLoaded == ASSUME Inv, Loaded, NEW j \in Job, Create(j) PROVE Loaded'
<1> DEFINE d == Incoming(j)
<1>1. PICK c \in Coll \ used :
          /\ colls' = [colls EXCEPT ![c] = NoDocs]
          /\ used' = used \cup {c}
          /\ work' = [work EXCEPT ![j].docs = d, ![j].live = c, ![j].todo = Has(d)]
  BY DEF Create
<1>2. /\ pc[j] = "creating" /\ pc' = [pc EXCEPT ![j] = "filling"]
      /\ UNCHANGED <<world, alias, sent, tries, budget>>
  BY DEF Create, Goto
<1> DEFINE w == [[[work[j] EXCEPT !.docs = d] EXCEPT !.live = c] EXCEPT !.todo = Has(d)]
<1>3. work' = [work EXCEPT ![j] = w] /\ work[j] \in WorkType
  BY <1>1 DEF Inv, TypeOK
<1>4. w.docs = d /\ w.todo = Has(d) /\ w.gone = work[j].gone /\ w.scope = work[j].scope
      /\ w.live = c
  BY <1>3 DEF WorkType
<1>5. Load(j, "creating", work[j])
  BY <1>2 DEF Loaded, Loads
<1>6. /\ d \in Docs /\ Laid(d) /\ OfImage(d) /\ Authored(d)
      /\ Has(d) = Has(files) \cup Has(work[j].docs)
      /\ Has(d) \subseteq FileId \cup Ours(j)
      /\ j \in Pusher => \A i \in Id \ FileId : d[i] = sent[j][i]
      /\ j = Boot => d = files
  BY <1>5, IncomingLoad DEF Fresh
<1>7. work[j].gone = {} /\ work[j].scope \subseteq Owns(j)
  BY <1>5 DEF Load, Listed, Fresh
<1>8. /\ "oracle" \in work[j].scope /\ edits = 0 /\ Shown => Has(oracle) \subseteq Has(work[j].docs)
      /\ j = Boot => work[j].scope = {"file"}
  BY <1>5 DEF Load, Docked, Running
<1> HIDE DEF d, w
<1>9. Docked(j, "filling", w)
  BY <1>4, <1>6, <1>8 DEF Docked
<1>10. Listed(j, "filling", w)
  BY <1>1, <1>4, <1>7 DEF Listed, Fresh, Running
<1>11. \A e \in Coll : colls'[e] # None => Sound(colls'[e])
  <2>1. Has(NoDocs) = {}
    BY DEF Has, NoDocs
  <2>2. Sound(NoDocs)
    BY <2>1 DEF Sound, Authored
  <2>3. \A e \in Coll : colls'[e] = IF e = c THEN NoDocs ELSE colls[e]
    BY <1>1 DEF Inv, TypeOK
  <2>4. QED
    BY <2>2, <2>3 DEF Loaded, Stored
<1>12. used \subseteq used'
  BY <1>1
<1>13. QED
  BY <1>2, <1>3, <1>9, <1>10, <1>11, <1>12, Advance DEF Load, budget

LEMMA FillLoaded == ASSUME Inv, Loaded, NEW j \in Job, Fill(j) PROVE Loaded'
<1>1. /\ UNCHANGED <<world, alias, used, sent, tries, budget>> /\ pc[j] = "filling"
  BY DEF Fill
<1>2. PICK batch \in SUBSET work[j].todo :
          LET left == work[j].todo \ batch
          IN  /\ Upsert(j, batch)
              /\ work' = [work EXCEPT ![j].todo = left]
              /\ Goto(j, IF left = {} THEN "reading" ELSE "filling")
  BY DEF Fill
<1> DEFINE left == work[j].todo \ batch
           w == [work[j] EXCEPT !.todo = left]
           place == IF left = {} THEN "reading" ELSE "filling"
<1>3. colls[work[j].live] # None
  BY <1>1 DEF Inv, Safe, Owned, Builder, Building
<1>4. \A c \in Coll : colls'[c] # None => Sound(colls'[c])
  BY <1>1, <1>2, <1>3, BatchSound
<1>5. pc' = [pc EXCEPT ![j] = place] /\ work' = [work EXCEPT ![j] = w]
  BY <1>2 DEF Goto, Inv, TypeOK
<1>6. /\ w.docs = work[j].docs /\ w.scope = work[j].scope /\ w.gone = work[j].gone
      /\ w.todo = left /\ left \subseteq work[j].todo /\ w.live = work[j].live
  BY DEF Inv, TypeOK, WorkType
<1>7. place \in {"reading", "filling"} /\ (place = "reading" => left = {})
  OBVIOUS
<1>8. Docked(j, "filling", work[j]) /\ Listed(j, "filling", work[j])
  BY <1>1 DEF Loaded, Loads, Load
<1> HIDE DEF left, w, place
<1>9. Docked(j, place, w)
  BY <1>6, <1>7, <1>8 DEF Docked, Building, Running
<1>10. Listed(j, place, w)
  BY <1>6, <1>7, <1>8 DEF Listed, Fresh, Building, Running
<1>11. place # "idle"
  BY <1>7
<1>12. QED
  BY <1>1, <1>4, <1>5, <1>9, <1>10, <1>11, Advance DEF Load, budget

\* Among the places of the swap a job keeps what it carries.
LEMMA SwapLoad ==
  ASSUME NEW j, NEW p \in {"reading", "swapping"}, NEW q \in {"swapping", "dropping"},
         NEW w, NEW v, Load(j, p, w), v.docs = w.docs, v.scope = w.scope,
         v.todo = w.todo, v.gone = w.gone, v.live = w.live
  PROVE  Load(j, q, v)
<1>1. Docked(j, q, v)
  BY DEF Load, Docked, Running, Changing, Building
<1>2. Listed(j, q, v)
  BY DEF Load, Listed, Running, Fresh, Changing, Building
<1>3. QED
  BY <1>1, <1>2 DEF Load

LEMMA ReadAliasLoaded == ASSUME Inv, Loaded, NEW j \in Job, ReadAlias(j) PROVE Loaded'
<1> DEFINE w == [work[j] EXCEPT !.old = alias]
<1>1. /\ pc[j] = "reading" /\ pc' = [pc EXCEPT ![j] = "swapping"]
      /\ work' = [work EXCEPT ![j] = w]
      /\ UNCHANGED <<world, store, sent, tries, budget>>
  BY DEF ReadAlias, Goto, Inv, TypeOK
<1>2. /\ w.docs = work[j].docs /\ w.scope = work[j].scope /\ w.gone = work[j].gone
      /\ w.todo = work[j].todo /\ w.live = work[j].live
  BY DEF Inv, TypeOK, WorkType
<1> HIDE DEF w
<1>3. Load(j, "reading", work[j])
  BY <1>1 DEF Loaded, Loads
<1>4. Load(j, "swapping", w)
  BY <1>2, <1>3, SwapLoad
<1>5. QED
  BY <1>1, <1>4, Advance, SameSound DEF store, budget

LEMMA SwapLoaded == ASSUME Inv, Loaded, NEW j \in Job, Swap(j) PROVE Loaded'
<1>1. /\ pc[j] = "swapping" /\ UNCHANGED <<world, colls, used, sent, tries, budget>>
  BY DEF Swap
<1>2. CASE work[j].old = None
  <2>1. Finish(j, "done")
    BY <1>2 DEF Swap
  <2>2. QED
    BY <1>1, <2>1, FinishLoaded, SameSound DEF budget
<1>3. CASE work[j].old # None
  <2>1. pc' = [pc EXCEPT ![j] = "dropping"] /\ work' = [work EXCEPT ![j] = work[j]]
    BY <1>3, StayTyped DEF Swap, Goto
  <2>2. Load(j, "swapping", work[j])
    BY <1>1 DEF Loaded, Loads
  <2>3. Load(j, "dropping", work[j])
    BY <2>2, SwapLoad
  <2>4. QED
    BY <1>1, <2>1, <2>3, Advance, SameSound DEF budget
<1>4. QED
  BY <1>2, <1>3

LEMMA DropOldLoaded == ASSUME Inv, Loaded, NEW j \in Job, DropOld(j) PROVE Loaded'
<1>1. /\ pc[j] = "dropping" /\ colls' = [colls EXCEPT ![work[j].old] = None]
      /\ Finish(j, "done") /\ UNCHANGED <<world, alias, used, sent, tries, budget>>
  BY DEF DropOld
<1>2. \A c \in Coll : colls'[c] # None => Sound(colls'[c])
  BY <1>1 DEF Inv, TypeOK, Loaded, Stored
<1>3. QED
  BY <1>1, <1>2, FinishLoaded DEF budget

LEMMA RetryLoaded ==
  ASSUME Inv, Loaded, NEW j \in Job, pc[j] # "idle", Retry(j),
         UNCHANGED <<world, store, sent, edits>>
  PROVE  Loaded'
<1>1. CASE j = Boot
  <2>1. /\ pc' = [pc EXCEPT ![j] = BootPlace(files)]
        /\ work' = [work EXCEPT ![j] = BootWork(files)]
    BY <1>1 DEF Retry, Goto
  <2>2. files \in FileSets
    BY DEF Inv, TypeOK
  <2>3. Load(j, BootPlace(files), BootWork(files)) /\ BootPlace(files) # "idle"
    BY <1>1, <2>2, BootLoad, BootTyped
  <2>4. QED
    BY <2>1, <2>3, Advance, SameSound DEF store
<1>2. CASE j # Boot
  <2>1. PICK place \in {"queued", "failed"} : Finish(j, place)
    BY <1>2 DEF Retry
  <2>2. QED
    BY <2>1, FinishLoaded, SameSound DEF store
<1>3. QED
  BY <1>1, <1>2

LEMMA VanishedLoaded == ASSUME Inv, Loaded, NEW j \in Job, Vanished(j) PROVE Loaded'
<1>1. /\ pc[j] # "idle" /\ Retry(j) /\ UNCHANGED <<world, store, sent, edits>>
  BY DEF Vanished, budget
<1>2. QED
  BY <1>1, RetryLoaded

LEMMA RaiseLoaded == ASSUME Inv, Loaded, NEW j \in Job, Raise(j) PROVE Loaded'
<1>1. /\ pc[j] # "idle" /\ Retry(j) /\ UNCHANGED <<world, store, sent, edits>>
  BY DEF Raise, Running, Taken
<1>2. QED
  BY <1>1, RetryLoaded

LEMMA LostLoaded == ASSUME Inv, Loaded, NEW j \in Job, Lost(j) PROVE Loaded'
<1>1. /\ pc[j] # "idle" /\ Finish(j, "failed") /\ UNCHANGED <<world, store, sent, edits>>
  BY DEF Lost, Running
<1>2. QED
  BY <1>1, FinishLoaded, SameSound DEF store

LEMMA RestartLoaded == ASSUME Inv, Loaded, Restart PROVE Loaded'
<1>1. /\ files' \in FileSets
      /\ pc' = [j \in Job |-> IF j = Boot THEN BootPlace(files')
                              ELSE IF pc[j] \in Running THEN "queued" ELSE pc[j]]
      /\ work' = [j \in Job |-> IF j = Boot THEN BootWork(files') ELSE Blank]
      /\ UNCHANGED <<name, counted, oracle, store, sent, tries, edits>>
  BY DEF Restart
<1>2. \A k \in Job \ {Boot} : /\ pc'[k] = IF pc[k] \in Running THEN "queued" ELSE pc[k]
                              /\ work'[k] = Blank
  BY <1>1
<1>3. Loads'
  <2> SUFFICES ASSUME NEW k \in Job PROVE Load(k, pc[k], work[k])'
    BY DEF Loads
  <2>1. CASE k = Boot
    <3>1. pc'[Boot] = BootPlace(files') /\ work'[Boot] = BootWork(files')
      BY <1>1, <2>1
    <3>2. pc'[Boot] = BootPlace(files)' /\ work'[Boot] = BootWork(files)'
      BY <1>1, <3>1 DEF BootPlace, BootWork
    <3>3. QED
      BY <1>1, <2>1, <3>2, BootNext
  <2>2. CASE k # Boot
    <3>1. pc'[k] \notin Running /\ work'[k] = Blank
      BY <1>2, <2>2 DEF Running
    <3>2. QED
      BY <3>1, BlankNext
  <2>3. QED
    BY <2>1, <2>2
<1>4. Messages'
  <2>1. \A j \in Pusher : j \in Job \ {Boot}
    BY JobsAssumption DEF Job
  <2>2. \A j \in Pusher : pc'[j] = "idle" => pc[j] = "idle"
    BY <1>2, <2>1
  <2>3. QED
    BY <1>1, <2>2 DEF Loaded, Messages
<1>5. Stored'
  <2>1. \A j \in Push \cup Fetch : j \in Job \ {Boot}
    BY JobsAssumption DEF Job, Pusher
  <2>2. \A j \in Push \cup Fetch : pc[j] = "idle" => pc'[j] = "idle"
    BY <1>2, <2>1 DEF Running
  <2>3. QED
    BY <1>1, <2>2, SentSame DEF Loaded, Stored, Sound, Authored, Growing, Has, store
<1>6. QED
  BY <1>3, <1>4, <1>5 DEF Loaded

LEMMA EditOracleLoaded == ASSUME Inv, Loaded, EditOracle PROVE Loaded'
<1>1. /\ edits' = edits + 1 /\ UNCHANGED <<name, files, store, pc, sent, work>>
      /\ edits \in Nat /\ Growing
  BY SentSame DEF EditOracle, Inv, TypeOK
<1>2. Loads'
  <2> SUFFICES ASSUME NEW k \in Job PROVE Load(k, pc[k], work[k])'
    BY DEF Loads
  <2>1. Load(k, pc[k], work[k]) /\ edits' # 0
    BY <1>1 DEF Loaded, Loads
  <2>2. Docked(k, pc[k], work[k])'
    BY <1>1, <2>1 DEF Load, Docked, Laid, OfImage, Authored, Growing, Has
  <2>3. \A i \in PushId : Claimed(i) => Claimed(i)'
    BY <1>1 DEF Growing, Claimed, Id
  <2>4. Listed(k, pc[k], work[k])'
    BY <1>1, <2>1, <2>3 DEF Load, Listed
  <2>5. QED
    BY <2>2, <2>4 DEF Load
<1>3. Messages' /\ Stored'
  BY <1>1 DEF Loaded, Messages, Stored, Sound, Authored, Growing, Has, store
<1>4. QED
  BY <1>2, <1>3 DEF Loaded

LEMMA SameLoaded == ASSUME Inv, Loaded, UNCHANGED vars PROVE Loaded'
<1>1. UNCHANGED <<name, counted, oracle, files, colls, used, pc, sent, work, edits>> /\ Growing
  BY SentSame DEF vars, world, store, budget
<1>2. Loads'
  BY <1>1, LoadKept DEF Loaded, Loads
<1>3. Messages' /\ Stored'
  BY <1>1 DEF Loaded, Messages, Stored, Sound, Authored, Growing, Has
<1>4. QED
  BY <1>2, <1>3 DEF Loaded

LEMMA StepLoaded == ASSUME Inv, Loaded, NEW j \in Job, Step(j) PROVE Loaded'
BY TakeLoaded, FetchOracleLoaded, ResolveLoaded, LookLoaded, CompareLoaded, WriteLoaded,
   EraseLoaded, CreateLoaded, FillLoaded, ReadAliasLoaded, SwapLoaded, DropOldLoaded,
   VanishedLoaded DEF Step

LEMMA NextLoaded == Inv /\ Loaded /\ [Next]_vars => Loaded'
<1> SUFFICES ASSUME Inv, Loaded, [Next]_vars PROVE Loaded'
  OBVIOUS
<1>1. CASE \E j \in Job : Submit(j) \/ Step(j) \/ Raise(j) \/ Lost(j)
  BY <1>1, SubmitLoaded, StepLoaded, RaiseLoaded, LostLoaded
<1>2. CASE Beat \/ Restart \/ EditOracle
  BY <1>2, BeatLoaded, RestartLoaded, EditOracleLoaded
<1>3. CASE UNCHANGED vars
  BY <1>3, SameLoaded
<1>4. QED
  BY <1>1, <1>2, <1>3 DEF Next

-----------------------------------------------------------------------------
(* Where the jobs on the default name are, while its image has files: only  *)
(* start-up ever builds a collection for the name, before the worker runs.  *)

Full == name = "default" /\ Has(files) # {}

\* The name leads to a collection, and to which.
Based == alias # None \/ colls[Legacy] # None
LiveName == IF alias # None THEN alias ELSE Legacy

Site(p, w) ==
    /\ p = "looking" => alias = None
    /\ p \in {"comparing"} \cup Changing => Based /\ w.live = LiveName
    /\ p \in {"creating"} \cup Building => ~Based
    /\ p = "swapping" => w.old = None
    /\ p # "dropping"

Placed == Full =>
    /\ Booted => Based
    /\ pc[Boot] \in Running \cup {"done"}
    /\ ~Booted => \A k \in Job : pc[k] \in Running => k = Boot
    /\ \A j \in Job : Site(pc[j], work[j])

Outside == {"idle", "queued", "done", "failed", "resolving"}

LEMMA OutsideSite ==
  ASSUME NEW p \in Outside, NEW w
  PROVE  Site(p, w)
BY DEF Site, Outside, Changing, Building

LEMMA BasedKept ==
  ASSUME UNCHANGED alias, colls'[Legacy] # None <=> colls[Legacy] # None
  PROVE  (Based <=> Based') /\ LiveName' = LiveName
BY DEF Based, LiveName

\* One job moves; what the name leads to stays.
LEMMA SiteMove ==
  ASSUME Inv, Placed, NEW j \in Job, NEW place, NEW w,
         pc' = [pc EXCEPT ![j] = place], work' = [work EXCEPT ![j] = w],
         UNCHANGED <<world, alias>>, colls'[Legacy] # None <=> colls[Legacy] # None,
         Full => /\ Site(place, w)
                 /\ j = Boot => /\ pc[j] \in Running
                                /\ place \in Running \/ (place = "done" /\ Based)
                 /\ j # Boot /\ place \in Running => Booted
  PROVE  Placed'
<1> SUFFICES ASSUME Full'
             PROVE  /\ Booted' => Based'
                    /\ pc'[Boot] \in Running \cup {"done"}
                    /\ ~Booted' => \A k \in Job : pc'[k] \in Running => k = Boot
                    /\ \A k \in Job : Site(pc[k], work[k])'
  BY DEF Placed
<1>1. Full
  BY DEF Full, world
<1>2. /\ Booted => Based
      /\ pc[Boot] \in Running \cup {"done"}
      /\ ~Booted => \A k \in Job : pc[k] \in Running => k = Boot
      /\ \A k \in Job : Site(pc[k], work[k])
  BY <1>1 DEF Placed
<1>3. /\ \A k \in Job : k # j => pc'[k] = pc[k] /\ work'[k] = work[k]
      /\ pc'[j] = place /\ work'[j] = w /\ Boot \in Job
  BY DEF Inv, TypeOK, Job
<1>4. (Based <=> Based') /\ LiveName' = LiveName
  BY BasedKept
<1>5. "done" \notin Running
  BY DEF Running
<1>6. ASSUME NEW k \in Job PROVE Site(pc[k], work[k])'
  <2>1. CASE k = j
    <3>1. Site(place, w)
      BY <1>1
    <3>2. QED
      BY <1>3, <1>4, <2>1, <3>1 DEF Site
  <2>2. CASE k # j
    <3>1. Site(pc[k], work[k])
      BY <1>2
    <3>2. QED
      BY <1>3, <1>4, <2>2, <3>1 DEF Site
  <2>3. QED
    BY <2>1, <2>2
<1>7. CASE j = Boot
  BY <1>1, <1>2, <1>3, <1>4, <1>5, <1>6, <1>7 DEF Booted
<1>8. CASE j # Boot
  <2>1. Booted' <=> Booted
    BY <1>3, <1>8 DEF Booted
  <2>2. QED
    BY <1>1, <1>2, <1>3, <1>4, <1>6, <1>8, <2>1
<1>9. QED
  BY <1>7, <1>8

\* A run ends; that of start-up only over a collection.
LEMMA FinishPlaced ==
  ASSUME Inv, Placed, NEW j \in Job, NEW place \in {"queued", "done", "failed"},
         Finish(j, place), UNCHANGED <<world, alias>>,
         colls'[Legacy] # None <=> colls[Legacy] # None,
         Full /\ j = Boot => pc[j] \in Running /\ place = "done" /\ Based
  PROVE  Placed'
<1> DEFINE p == IF j \in Fetch THEN "idle" ELSE place
<1>1. pc' = [pc EXCEPT ![j] = p] /\ work' = [work EXCEPT ![j] = Blank]
  BY DEF Finish, Goto
<1>2. /\ p \in Outside /\ p \notin Running /\ Site(p, Blank)
      /\ j = Boot => p = place
  <2>1. p \in Outside /\ p \notin Running
    BY DEF Outside, Running
  <2>2. QED
    BY <2>1, OutsideSite, JobsAssumption
<1> HIDE DEF p
<1>3. QED
  BY <1>1, <1>2, SiteMove

\* A running job is start-up, or start-up is through.
LEMMA Turns ==
  ASSUME Placed, Full, NEW j \in Job, pc[j] \in Running
  PROVE  /\ j = Boot \/ Booted
         /\ Site(pc[j], work[j])
BY DEF Placed

LEMMA SameStore ==
  ASSUME UNCHANGED store
  PROVE  UNCHANGED alias /\ (colls'[Legacy] # None <=> colls[Legacy] # None)
BY DEF store

LEMMA InitPlaced == Init => Placed
<1> SUFFICES ASSUME Init, Full
             PROVE  /\ Booted => Based
                    /\ pc[Boot] \in Running \cup {"done"}
                    /\ ~Booted => \A k \in Job : pc[k] \in Running => k = Boot
                    /\ \A j \in Job : Site(pc[j], work[j])
  BY DEF Placed
<1>1. pc[Boot] = "resolving"
  BY DEF Init, Job, BootPlace, Full
<1>2. \A j \in Job : j # Boot => pc[j] = "idle"
  BY DEF Init
<1>3. \A j \in Job : Site(pc[j], work[j])
  BY <1>1, <1>2, OutsideSite DEF Outside
<1>4. QED
  BY <1>1, <1>2, <1>3 DEF Booted, Running

LEMMA SubmitPlaced == ASSUME Inv, Placed, NEW j \in Job, Submit(j) PROVE Placed'
<1>1. /\ j \in Pusher /\ pc' = [pc EXCEPT ![j] = "queued"] /\ work' = work
      /\ UNCHANGED <<world, store>>
  BY DEF Submit, Pusher, Goto
<1>2. j # Boot /\ work' = [work EXCEPT ![j] = work[j]]
  BY <1>1, JobsAssumption, StayTyped
<1>3. Site("queued", work[j]) /\ "queued" \notin Running
  BY OutsideSite DEF Outside, Running
<1>4. QED
  BY <1>1, <1>2, <1>3, SiteMove, SameStore

LEMMA BeatPlaced == ASSUME Inv, Placed, Beat PROVE Placed'
<1>1. \E k \in Fetch : pc[k] = "idle"
  BY DEF Beat
<1>2. PICK j \in Fetch : /\ pc' = [pc EXCEPT ![j] = "queued"] /\ work' = work
                         /\ UNCHANGED <<world, store>>
  BY <1>1 DEF Beat, Goto
<1>3. j \in Job /\ j # Boot
  BY JobsAssumption DEF Job
<1>4. work' = [work EXCEPT ![j] = work[j]]
  BY <1>2, <1>3, StayTyped
<1>5. Site("queued", work[j]) /\ "queued" \notin Running
  BY OutsideSite DEF Outside, Running
<1>6. QED
  BY <1>2, <1>3, <1>4, <1>5, SiteMove, SameStore

LEMMA TakePlaced == ASSUME Inv, Placed, NEW j \in Job, Take(j) PROVE Placed'
<1> DEFINE w == [work[j] EXCEPT !.docs = sent[j]]
<1>1. /\ j \in Pusher /\ Booted /\ pc' = [pc EXCEPT ![j] = "resolving"]
      /\ work' = [work EXCEPT ![j] = w] /\ UNCHANGED <<world, store>>
  BY DEF Take, Taken, Goto, Inv, TypeOK
<1> HIDE DEF w
<1>2. j # Boot /\ Site("resolving", w)
  BY <1>1, JobsAssumption, OutsideSite DEF Outside
<1>3. QED
  BY <1>1, <1>2, SiteMove, SameStore

LEMMA FetchOraclePlaced == ASSUME Inv, Placed, NEW j \in Job, FetchOracle(j) PROVE Placed'
<1>1. UNCHANGED <<world, store>> /\ j \in Fetch /\ Booted /\ j # Boot
  BY JobsAssumption DEF FetchOracle, Taken
<1>2. PICK page \in Pages :
          IF page = {} THEN Finish(j, "done")
          ELSE /\ Goto(j, "resolving")
               /\ work' = [work EXCEPT
                     ![j].docs = [i \in Id |-> IF i \in page THEN oracle[i] ELSE Absent],
                     ![j].scope = IF Partial(page) THEN {} ELSE {"oracle"}]
  BY DEF FetchOracle
<1>3. CASE page = {}
  BY <1>1, <1>2, <1>3, FinishPlaced, SameStore
<1>4. CASE page # {}
  <2> DEFINE d == [i \in Id |-> IF i \in page THEN oracle[i] ELSE Absent]
             s == IF Partial(page) THEN {} ELSE {"oracle"}
             w == [[work[j] EXCEPT !.docs = d] EXCEPT !.scope = s]
  <2>1. pc' = [pc EXCEPT ![j] = "resolving"] /\ work' = [work EXCEPT ![j] = w]
    BY <1>2, <1>4 DEF Goto, Inv, TypeOK
  <2> HIDE DEF w
  <2>2. Site("resolving", w)
    BY OutsideSite DEF Outside
  <2>3. QED
    BY <1>1, <2>1, <2>2, SiteMove, SameStore
<1>5. QED
  BY <1>3, <1>4

\* A running job goes on in the same store.
LEMMA GoesOn ==
  ASSUME Inv, Placed, NEW j \in Job, pc[j] \in Running, NEW place \in Running, NEW w,
         pc' = [pc EXCEPT ![j] = place], work' = [work EXCEPT ![j] = w],
         UNCHANGED <<world, alias>>, colls'[Legacy] # None <=> colls[Legacy] # None,
         Full => Site(place, w)
  PROVE  Placed'
BY SiteMove, Turns

LEMMA ResolvePlaced == ASSUME Inv, Placed, NEW j \in Job, Resolve(j) PROVE Placed'
<1>1. UNCHANGED <<world, store>> /\ pc[j] \in Running
  BY DEF Resolve, Running
<1>2. CASE alias = None
  <2>1. pc' = [pc EXCEPT ![j] = "looking"] /\ work' = [work EXCEPT ![j] = work[j]]
    BY <1>2, StayTyped DEF Resolve, Goto
  <2>2. Site("looking", work[j]) /\ "looking" \in Running
    BY <1>2 DEF Site, Changing, Building, Running
  <2>3. QED
    BY <1>1, <2>1, <2>2, GoesOn, SameStore
<1>3. CASE alias # None
  <2> DEFINE w == [work[j] EXCEPT !.live = alias]
  <2>1. pc' = [pc EXCEPT ![j] = "comparing"] /\ work' = [work EXCEPT ![j] = w]
    BY <1>3 DEF Resolve, Goto, Inv, TypeOK
  <2>2. w.live = alias
    BY StayTyped DEF WorkType
  <2> HIDE DEF w
  <2>3. Site("comparing", w) /\ "comparing" \in Running
    BY <1>3, <2>2 DEF Site, Building, Running, Based, LiveName
  <2>4. QED
    BY <1>1, <2>1, <2>3, GoesOn, SameStore
<1>4. QED
  BY <1>2, <1>3

LEMMA LookPlaced == ASSUME Inv, Placed, NEW j \in Job, Look(j) PROVE Placed'
<1>1. UNCHANGED <<world, store>> /\ pc[j] = "looking" /\ pc[j] \in Running
  BY DEF Look, Running
<1>2. Full => alias = None
  BY <1>1, Turns DEF Site
<1>3. CASE colls[Legacy] # None
  <2> DEFINE w == [work[j] EXCEPT !.live = Legacy]
  <2>1. pc' = [pc EXCEPT ![j] = "comparing"] /\ work' = [work EXCEPT ![j] = w]
    BY <1>3 DEF Look, Goto, Inv, TypeOK
  <2>2. w.live = Legacy
    BY StayTyped DEF WorkType
  <2> HIDE DEF w
  <2>3. Full => Site("comparing", w)
    BY <1>2, <1>3, <2>2 DEF Site, Building, Based, LiveName
  <2>4. "comparing" \in Running
    BY DEF Running
  <2>5. QED
    BY <1>1, <2>1, <2>3, <2>4, GoesOn, SameStore
<1>4. CASE colls[Legacy] = None
  <2>1. pc' = [pc EXCEPT ![j] = "creating"] /\ work' = [work EXCEPT ![j] = work[j]]
    BY <1>4, StayTyped DEF Look, Goto
  <2>2. Full => Site("creating", work[j])
    BY <1>2, <1>4 DEF Site, Changing, Based
  <2>3. "creating" \in Running
    BY DEF Running
  <2>4. QED
    BY <1>1, <2>1, <2>2, <2>3, GoesOn, SameStore
<1>5. QED
  BY <1>3, <1>4

LEMMA ComparePlaced == ASSUME Inv, Placed, NEW j \in Job, Compare(j) PROVE Placed'
<1> DEFINE d == Incoming(j)
           points == colls[work[j].live]
           todo == ToUpsert(d, points)
           gone == ToDelete(d, points, work[j].scope)
<1>1. pc[j] = "comparing" /\ pc[j] \in Running /\ UNCHANGED <<world, store>>
  BY DEF Compare, Running
<1>2. Full => Based /\ work[j].live = LiveName
  BY <1>1, Turns DEF Site
<1>3. CASE todo \cup gone = {}
  <2>1. Finish(j, "done")
    BY <1>3 DEF Compare
  <2>2. QED
    BY <1>1, <1>2, <2>1, FinishPlaced, SameStore
<1>4. CASE todo \cup gone # {}
  <2> DEFINE w == [[[work[j] EXCEPT !.docs = d] EXCEPT !.todo = todo] EXCEPT !.gone = gone]
             place == AfterCompare(todo, gone)
  <2>1. pc' = [pc EXCEPT ![j] = place] /\ work' = [work EXCEPT ![j] = w]
    BY <1>4 DEF Compare, Goto, Inv, TypeOK
  <2>2. w.live = work[j].live
    BY StayTyped DEF WorkType
  <2>3. place \in {"writing", "erasing"}
    BY <1>4 DEF AfterCompare
  <2> HIDE DEF d, points, todo, gone, w, place
  <2>4. Full => Site(place, w)
    BY <1>2, <2>2, <2>3 DEF Site, Changing, Building
  <2>5. place \in Running
    BY <2>3 DEF Running
  <2>6. QED
    BY <1>1, <2>1, <2>4, <2>5, GoesOn, SameStore
<1>5. QED
  BY <1>3, <1>4

\* Points are written to a collection that is there.
LEMMA PointsThere ==
  ASSUME Inv, NEW c, colls[c] # None, NEW d, d # None, colls' = [colls EXCEPT ![c] = d]
  PROVE  colls'[Legacy] # None <=> colls[Legacy] # None
BY NamesAssumption DEF Inv, TypeOK

LEMMA FunctionsAreThere ==
  ASSUME Inv, NEW c \in Coll, colls[c] # None, NEW s, NEW d \in Docs
  PROVE  [i \in Id |-> IF i \in s THEN d[i] ELSE colls[c][i]] # None
<1>1. colls[c] \in Docs
  BY DEF Inv, TypeOK
<1>2. [i \in Id |-> IF i \in s THEN d[i] ELSE colls[c][i]] \in Docs
  BY <1>1 DEF Docs
<1>3. QED
  BY <1>2, NamesAssumption

LEMMA UpsertThere ==
  ASSUME Inv, NEW j \in Job, NEW batch, Upsert(j, batch),
         work[j].live \in Coll, colls[work[j].live] # None
  PROVE  colls'[Legacy] # None <=> colls[Legacy] # None
<1> DEFINE c == work[j].live
           d == [i \in Id |-> IF i \in batch THEN work[j].docs[i] ELSE colls[c][i]]
<1>1. work[j].docs \in Docs
  BY DEF Inv, TypeOK, WorkType
<1>2. d # None
  BY <1>1, FunctionsAreThere
<1>3. colls' = [colls EXCEPT ![c] = d]
  BY DEF Upsert, Inv, TypeOK
<1> HIDE DEF d
<1>4. QED
  BY <1>2, <1>3, PointsThere

LEMMA WritePlaced == ASSUME Inv, Loaded, Placed, NEW j \in Job, Write(j) PROVE Placed'
<1>1. /\ UNCHANGED <<world, alias>> /\ pc[j] = "writing" /\ pc[j] \in Running
      /\ colls[work[j].live] # None
  BY DEF Write, Running
<1>2. PICK batch \in SUBSET work[j].todo :
          LET left == work[j].todo \ batch
          IN  /\ Upsert(j, batch)
              /\ IF left \cup work[j].gone = {} THEN Finish(j, "done")
                 ELSE /\ Goto(j, AfterCompare(left, work[j].gone))
                      /\ work' = [work EXCEPT ![j].todo = left]
  BY DEF Write
<1>3. work[j].live \in Coll
  BY <1>1 DEF Loaded, Loads, Load, Listed, Changing
<1>4. colls'[Legacy] # None <=> colls[Legacy] # None
  BY <1>1, <1>2, <1>3, UpsertThere
<1>5. Full => Based /\ work[j].live = LiveName
  BY <1>1, Turns DEF Site, Changing
<1> DEFINE left == work[j].todo \ batch
           w == [work[j] EXCEPT !.todo = left]
           place == AfterCompare(left, work[j].gone)
<1>6. CASE left \cup work[j].gone = {}
  BY <1>1, <1>2, <1>4, <1>5, <1>6, FinishPlaced
<1>7. CASE left \cup work[j].gone # {}
  <2>1. pc' = [pc EXCEPT ![j] = place] /\ work' = [work EXCEPT ![j] = w]
    BY <1>2, <1>7 DEF Goto, Inv, TypeOK
  <2>2. w.live = work[j].live
    BY StayTyped DEF WorkType
  <2>3. place \in {"writing", "erasing"}
    BY <1>7 DEF AfterCompare
  <2> HIDE DEF left, w, place
  <2>4. Full => Site(place, w)
    BY <1>5, <2>2, <2>3 DEF Site, Changing, Building
  <2>5. place \in Running
    BY <2>3 DEF Running
  <2>6. QED
    BY <1>1, <1>4, <2>1, <2>4, <2>5, GoesOn
<1>8. QED
  BY <1>6, <1>7

LEMMA ErasePlaced == ASSUME Inv, Loaded, Placed, NEW j \in Job, Erase(j) PROVE Placed'
<1> DEFINE c == work[j].live
           d == [i \in Id |-> IF i \in work[j].gone THEN NoDocs[i] ELSE colls[c][i]]
<1>1. /\ UNCHANGED <<world, alias>> /\ pc[j] = "erasing" /\ pc[j] \in Running
      /\ colls[c] # None /\ Finish(j, "done")
  BY DEF Erase, Running
<1>2. c \in Coll
  BY <1>1 DEF Loaded, Loads, Load, Listed, Changing
<1>3. d = [i \in Id |-> IF i \in work[j].gone THEN Absent ELSE colls[c][i]]
  BY DEF NoDocs
<1>4. colls' = [colls EXCEPT ![c] = d]
  BY <1>3 DEF Erase, Inv, TypeOK
<1>5. d # None
  BY <1>1, <1>2, FunctionsAreThere, NoDocsTyped
<1> HIDE DEF d
<1>6. colls'[Legacy] # None <=> colls[Legacy] # None
  BY <1>1, <1>4, <1>5, PointsThere
<1>7. Full => Based
  BY <1>1, Turns DEF Site, Changing
<1>8. QED
  BY <1>1, <1>6, <1>7, FinishPlaced

LEMMA CreatePlaced == ASSUME Inv, Loaded, Placed, NEW j \in Job, Create(j) PROVE Placed'
<1> DEFINE d == Incoming(j)
<1>1. PICK c \in Coll \ used :
          /\ colls' = [colls EXCEPT ![c] = NoDocs]
          /\ work' = [work EXCEPT ![j].docs = d, ![j].live = c, ![j].todo = Has(d)]
  BY DEF Create
<1>2. /\ pc[j] = "creating" /\ pc' = [pc EXCEPT ![j] = "filling"] /\ pc[j] \in Running
      /\ UNCHANGED <<world, alias>>
  BY DEF Create, Goto, Running
<1> DEFINE w == [[[work[j] EXCEPT !.docs = d] EXCEPT !.live = c] EXCEPT !.todo = Has(d)]
<1>3. work' = [work EXCEPT ![j] = w]
  BY <1>1 DEF Inv, TypeOK
<1> HIDE DEF d, w
<1>4. colls'[Legacy] = colls[Legacy]
  BY <1>1 DEF Loaded, Stored, Inv, TypeOK
<1>5. Full => ~Based
  BY <1>2, Turns DEF Site
<1>6. Full => Site("filling", w)
  BY <1>5 DEF Site, Changing
<1>7. "filling" \in Running
  BY DEF Running
<1>8. QED
  BY <1>2, <1>3, <1>4, <1>6, <1>7, GoesOn

LEMMA FillPlaced == ASSUME Inv, Loaded, Placed, NEW j \in Job, Fill(j) PROVE Placed'
<1>1. UNCHANGED <<world, alias>> /\ pc[j] = "filling" /\ pc[j] \in Running
  BY DEF Fill, Running
<1>2. PICK batch \in SUBSET work[j].todo :
          LET left == work[j].todo \ batch
          IN  /\ Upsert(j, batch)
              /\ work' = [work EXCEPT ![j].todo = left]
              /\ Goto(j, IF left = {} THEN "reading" ELSE "filling")
  BY DEF Fill
<1> DEFINE left == work[j].todo \ batch
           w == [work[j] EXCEPT !.todo = left]
           place == IF left = {} THEN "reading" ELSE "filling"
<1>3. work[j].live \in Coll /\ colls[work[j].live] # None
  BY <1>1 DEF Inv, Safe, Owned, Builder, TypeOK, Building
<1>4. colls'[Legacy] # None <=> colls[Legacy] # None
  BY <1>2, <1>3, UpsertThere
<1>5. pc' = [pc EXCEPT ![j] = place] /\ work' = [work EXCEPT ![j] = w]
  BY <1>2 DEF Goto, Inv, TypeOK
<1>6. place \in {"reading", "filling"}
  OBVIOUS
<1> HIDE DEF left, w, place
<1>7. Full => ~Based
  BY <1>1, Turns DEF Site, Building
<1>8. Full => Site(place, w)
  BY <1>6, <1>7 DEF Site, Changing
<1>9. place \in Running
  BY <1>6 DEF Running
<1>10. QED
  BY <1>1, <1>4, <1>5, <1>8, <1>9, GoesOn

LEMMA ReadAliasPlaced == ASSUME Inv, Placed, NEW j \in Job, ReadAlias(j) PROVE Placed'
<1> DEFINE w == [work[j] EXCEPT !.old = alias]
<1>1. /\ pc[j] = "reading" /\ pc' = [pc EXCEPT ![j] = "swapping"] /\ pc[j] \in Running
      /\ work' = [work EXCEPT ![j] = w] /\ UNCHANGED <<world, store>>
  BY DEF ReadAlias, Goto, Inv, TypeOK, Running
<1>2. w.old = alias
  BY StayTyped DEF WorkType
<1> HIDE DEF w
<1>3. Full => ~Based
  BY <1>1, Turns DEF Site, Building
<1>4. Full => Site("swapping", w)
  BY <1>2, <1>3 DEF Site, Changing, Based
<1>5. "swapping" \in Running
  BY DEF Running
<1>6. QED
  BY <1>1, <1>4, <1>5, GoesOn, SameStore

\* Only start-up swaps, and it is through with that.
LEMMA SwapFull ==
  ASSUME Inv, Placed, Full, NEW j \in Job, pc[j] = "swapping"
  PROVE  j = Boot /\ ~Booted /\ ~Based /\ work[j].old = None
<1>1. pc[j] \in Running
  BY DEF Running
<1>2. Site("swapping", work[j]) /\ (j = Boot \/ Booted)
  BY <1>1, Turns
<1>3. ~Based /\ work[j].old = None
  BY <1>2 DEF Site, Building
<1>4. ~Booted
  BY <1>3 DEF Placed
<1>5. QED
  BY <1>2, <1>3, <1>4

LEMMA SwapPlaced == ASSUME Inv, Loaded, Placed, NEW j \in Job, Swap(j) PROVE Placed'
<1>1. pc[j] = "swapping" /\ alias' = work[j].live /\ UNCHANGED <<world, colls>>
  BY DEF Swap
<1> SUFFICES ASSUME Full'
             PROVE  /\ Booted' => Based'
                    /\ pc'[Boot] \in Running \cup {"done"}
                    /\ ~Booted' => \A k \in Job : pc'[k] \in Running => k = Boot
                    /\ \A k \in Job : Site(pc[k], work[k])'
  BY DEF Placed
<1>2. Full
  BY <1>1 DEF Full, world
<1>3. j = Boot /\ ~Booted /\ ~Based /\ work[j].old = None
  BY <1>1, <1>2, SwapFull
<1>4. /\ pc' = [pc EXCEPT ![j] = "done"] /\ work' = [work EXCEPT ![j] = Blank]
  BY <1>3, JobsAssumption DEF Swap, Finish, Goto
<1>5. \A k \in Job : k # j => pc[k] \notin Running
  BY <1>2, <1>3 DEF Placed
<1>6. \A k \in Job : pc'[k] \in {"idle", "queued", "done", "failed"}
  BY <1>4, <1>5 DEF Inv, TypeOK, Place
<1>7. \A k \in Job : Site(pc[k], work[k])'
  BY <1>6 DEF Site, Changing, Building
<1>8. alias' # None
  <2>1. work[j].live \in Coll
    BY <1>1 DEF Loaded, Loads, Load, Listed, Building
  <2>2. QED
    BY <1>1, <2>1, NamesAssumption
<1>9. pc'[Boot] = "done"
  BY <1>3, <1>4 DEF Inv, TypeOK
<1>10. QED
  BY <1>7, <1>8, <1>9 DEF Based, Booted

LEMMA DropOldPlaced == ASSUME Inv, Placed, NEW j \in Job, DropOld(j) PROVE Placed'
<1>1. pc[j] = "dropping" /\ UNCHANGED world
  BY DEF DropOld
<1>2. ~Full
  <2>1. pc[j] \in Running
    BY <1>1 DEF Running
  <2>2. QED
    BY <1>1, <2>1, Turns DEF Site
<1>3. QED
  BY <1>1, <1>2 DEF Placed, Full, world

LEMMA RetryPlaced ==
  ASSUME Inv, Placed, NEW j \in Job, Retry(j), UNCHANGED <<world, store>>,
         j = Boot => pc[j] \in Running
  PROVE  Placed'
<1>1. CASE j = Boot
  <2>1. /\ pc' = [pc EXCEPT ![j] = BootPlace(files)]
        /\ work' = [work EXCEPT ![j] = BootWork(files)]
    BY <1>1 DEF Retry, Goto
  <2>2. Full => BootPlace(files) = "resolving"
    BY DEF Full, BootPlace
  <2>3. \A w : Site("resolving", w)
    BY OutsideSite DEF Outside
  <2>4. "resolving" \in Running
    BY DEF Running
  <2>5. QED
    BY <1>1, <2>1, <2>2, <2>3, <2>4, SiteMove, SameStore
<1>2. CASE j # Boot
  <2>1. PICK place \in {"queued", "failed"} : Finish(j, place)
    BY <1>2 DEF Retry
  <2>2. QED
    BY <1>2, <2>1, FinishPlaced, SameStore
<1>3. QED
  BY <1>1, <1>2

LEMMA VanishedPlaced == ASSUME Inv, Placed, NEW j \in Job, Vanished(j) PROVE Placed'
<1>1. pc[j] \in Running /\ Retry(j) /\ UNCHANGED <<world, store>>
  BY DEF Vanished, Running
<1>2. QED
  BY <1>1, RetryPlaced

LEMMA RaisePlaced == ASSUME Inv, Placed, NEW j \in Job, Raise(j) PROVE Placed'
<1>1. Retry(j) /\ UNCHANGED <<world, store>> /\ (j = Boot => pc[j] \in Running)
  BY DEF Raise, Taken, Booted
<1>2. QED
  BY <1>1, RetryPlaced

LEMMA LostPlaced == ASSUME Inv, Placed, NEW j \in Job, Lost(j) PROVE Placed'
<1>1. Finish(j, "failed") /\ UNCHANGED <<world, store>> /\ j # Boot
  BY DEF Lost
<1>2. QED
  BY <1>1, FinishPlaced, SameStore

LEMMA RestartPlaced == ASSUME Inv, Placed, Restart PROVE Placed'
<1> SUFFICES ASSUME Full'
             PROVE  /\ Booted' => Based'
                    /\ pc'[Boot] \in Running \cup {"done"}
                    /\ ~Booted' => \A k \in Job : pc'[k] \in Running => k = Boot
                    /\ \A k \in Job : Site(pc[k], work[k])'
  BY DEF Placed
<1>1. pc' = [j \in Job |-> IF j = Boot THEN BootPlace(files')
                           ELSE IF pc[j] \in Running THEN "queued" ELSE pc[j]]
      /\ name' = name
  BY DEF Restart
<1>2. pc'[Boot] = "resolving"
  BY <1>1 DEF Full, BootPlace, Job
<1>3. \A k \in Job : k # Boot => pc'[k] \in {"idle", "queued", "done", "failed"}
  <2>1. pc \in [Job -> Place]
    BY DEF Inv, TypeOK
  <2>2. QED
    BY <1>1, <2>1 DEF Place
<1>4. \A k \in Job : Site(pc[k], work[k])'
  BY <1>2, <1>3 DEF Site, Changing, Building
<1>5. QED
  BY <1>2, <1>3, <1>4 DEF Booted, Running

LEMMA SamePlaced ==
  ASSUME Placed, UNCHANGED <<name, files, alias, colls, pc, work>>
  PROVE  Placed'
<1>1. (Full' <=> Full) /\ (Based' <=> Based) /\ (Booted' <=> Booted) /\ LiveName' = LiveName
  BY DEF Full, Based, Booted, LiveName
<1>2. \A j \in Job : Site(pc[j], work[j]) => Site(pc[j], work[j])'
  BY <1>1 DEF Site
<1>3. QED
  BY <1>1, <1>2 DEF Placed

LEMMA StepPlaced == ASSUME Inv, Loaded, Placed, NEW j \in Job, Step(j) PROVE Placed'
BY TakePlaced, FetchOraclePlaced, ResolvePlaced, LookPlaced, ComparePlaced, WritePlaced,
   ErasePlaced, CreatePlaced, FillPlaced, ReadAliasPlaced, SwapPlaced, DropOldPlaced,
   VanishedPlaced DEF Step

LEMMA NextPlaced == Inv /\ Loaded /\ Placed /\ [Next]_vars => Placed'
<1> SUFFICES ASSUME Inv, Loaded, Placed, [Next]_vars PROVE Placed'
  OBVIOUS
<1>1. CASE \E j \in Job : Submit(j) \/ Step(j) \/ Raise(j) \/ Lost(j)
  BY <1>1, SubmitPlaced, StepPlaced, RaisePlaced, LostPlaced
<1>2. CASE Beat \/ Restart
  BY <1>2, BeatPlaced, RestartPlaced
<1>3. CASE EditOracle \/ UNCHANGED vars
  BY <1>3, SamePlaced DEF EditOracle, vars, world, store
<1>4. QED
  BY <1>1, <1>2, <1>3 DEF Next

-----------------------------------------------------------------------------
(* What searches of the name find, step by step.                            *)

Laying(points, batch, d) == [i \in Id |-> IF i \in batch THEN d[i] ELSE points[i]]
Less(points, gone) == [i \in Id |-> IF i \in gone THEN Absent ELSE points[i]]

LEMMA LiveIs == Live = IF colls[LiveName] # None THEN colls[LiveName] ELSE NoDocs
BY DEF Live, LiveName

LEMMA LiveSame ==
  ASSUME UNCHANGED alias, colls'[LiveName] = colls[LiveName]
  PROVE  Live' = Live /\ (Based => Based')
<1>1. Live' = Live
  BY DEF Live, LiveName
<1>2. Based => Based'
  BY DEF Based, LiveName
<1>3. QED
  BY <1>1, <1>2

LEMMA LiveSameStore == ASSUME UNCHANGED store PROVE Live' = Live /\ (Based => Based')
BY LiveSame DEF store

\* The place where a job works on the live collection.
LEMMA AtLive ==
  ASSUME Inv, Loaded, Placed, Full, NEW j \in Job, pc[j] \in {"comparing"} \cup Changing,
         colls[work[j].live] # None
  PROVE  /\ work[j].live = LiveName /\ LiveName \in Coll /\ Live = colls[LiveName]
         /\ Live \in Docs /\ (j = Boot \/ Booted)
<1>1. pc[j] \in Running
  BY DEF Running, Changing
<1>2. work[j].live = LiveName /\ (j = Boot \/ Booted)
  BY <1>1, Turns DEF Site
<1>3. work[j].live \in Coll
  BY DEF Loaded, Loads, Load, Listed
<1>4. Live = colls[LiveName]
  BY <1>2, LiveIs
<1>5. QED
  BY <1>2, <1>3, <1>4 DEF Inv, TypeOK

LEMMA WriteLive ==
  ASSUME Inv, Loaded, Placed, Full, NEW j \in Job, Write(j)
  PROVE  /\ pc[j] = "writing" /\ (Based => Based')
         /\ \E batch \in SUBSET work[j].todo :
              LET left == work[j].todo \ batch
              IN  /\ Live' = Laying(Live, batch, work[j].docs)
                  /\ IF left \cup work[j].gone = {} THEN Finish(j, "done")
                     ELSE /\ Goto(j, AfterCompare(left, work[j].gone))
                          /\ work' = [work EXCEPT ![j].todo = left]
<1>1. /\ pc[j] = "writing" /\ UNCHANGED alias /\ colls[work[j].live] # None
  BY DEF Write
<1>2. PICK batch \in SUBSET work[j].todo :
          LET left == work[j].todo \ batch
          IN  /\ Upsert(j, batch)
              /\ IF left \cup work[j].gone = {} THEN Finish(j, "done")
                 ELSE /\ Goto(j, AfterCompare(left, work[j].gone))
                      /\ work' = [work EXCEPT ![j].todo = left]
  BY DEF Write
<1>3. work[j].live = LiveName /\ LiveName \in Coll /\ Live = colls[LiveName]
  BY <1>1, AtLive DEF Changing
<1> DEFINE d == Laying(Live, batch, work[j].docs)
<1>4. colls' = [colls EXCEPT ![LiveName] = d]
  BY <1>2, <1>3 DEF Upsert, Laying, Inv, TypeOK
<1>5. d # None
  <2>1. work[j].docs \in Docs
    BY DEF Inv, TypeOK, WorkType
  <2>2. colls[LiveName] # None
    BY <1>1, <1>3
  <2>3. [i \in Id |-> IF i \in batch THEN work[j].docs[i] ELSE colls[LiveName][i]] # None
    BY <1>3, <2>1, <2>2, FunctionsAreThere
  <2>4. QED
    BY <1>3, <2>3 DEF Laying
<1> HIDE DEF d
<1>6. colls'[LiveName] = d
  BY <1>3, <1>4 DEF Inv, TypeOK
<1>7. LiveName' = LiveName
  BY <1>1 DEF LiveName
<1>8. Live' = d
  BY <1>5, <1>6, <1>7, <1>1 DEF Live, LiveName
<1>9. Based => Based'
  BY <1>1, <1>5, <1>6 DEF Based, LiveName
<1>10. QED
  BY <1>1, <1>2, <1>8, <1>9 DEF d

LEMMA EraseLive ==
  ASSUME Inv, Loaded, Placed, Full, NEW j \in Job, Erase(j)
  PROVE  /\ pc[j] = "erasing" /\ (Based => Based') /\ Finish(j, "done")
         /\ Live' = Less(Live, work[j].gone)
<1>1. /\ pc[j] = "erasing" /\ UNCHANGED alias /\ colls[work[j].live] # None
      /\ Finish(j, "done")
  BY DEF Erase
<1>2. work[j].live = LiveName /\ LiveName \in Coll /\ Live = colls[LiveName] /\ Live \in Docs
  BY <1>1, AtLive DEF Changing
<1> DEFINE d == Less(Live, work[j].gone)
<1>3. colls' = [colls EXCEPT ![LiveName] = d]
  BY <1>2 DEF Erase, Less, Inv, TypeOK
<1>4. d # None
  <2>1. d \in Docs
    BY <1>2 DEF Less, Docs
  <2>2. QED
    BY <2>1, NamesAssumption
<1> HIDE DEF d
<1>5. colls'[LiveName] = d
  BY <1>2, <1>3 DEF Inv, TypeOK
<1>6. Live' = d
  BY <1>1, <1>4, <1>5 DEF Live, LiveName
<1>7. Based => Based'
  BY <1>1, <1>4, <1>5 DEF Based, LiveName
<1>8. QED
  BY <1>1, <1>6, <1>7 DEF d

\* A job in a full ingestion is start-up, over no collection yet.
LEMMA Builds ==
  ASSUME Inv, Loaded, Placed, Full, NEW j \in Job, pc[j] \in {"creating"} \cup Building
  PROVE  j = Boot /\ ~Booted /\ ~Based /\ Live = NoDocs
<1>1. pc[j] \in Running
  BY DEF Running, Building
<1>2. ~Based /\ (j = Boot \/ Booted)
  BY <1>1, Turns DEF Site
<1>3. ~Booted
  BY <1>2 DEF Placed
<1>4. QED
  BY <1>2, <1>3 DEF Based, Live

LEMMA CreateLive ==
  ASSUME Inv, Loaded, Placed, Full, NEW j \in Job, Create(j)
  PROVE  Live' = Live /\ (Based => Based')
<1>1. PICK c \in Coll \ used : colls' = [colls EXCEPT ![c] = NoDocs]
  BY DEF Create
<1>2. UNCHANGED alias /\ LiveName \in used
  BY DEF Create, LiveName, Loaded, Stored, Inv, Safe, Known
<1>3. colls'[LiveName] = colls[LiveName]
  BY <1>1, <1>2 DEF Inv, TypeOK
<1>4. QED
  BY <1>2, <1>3, LiveSame

LEMMA FillLive ==
  ASSUME Inv, Loaded, Placed, Full, NEW j \in Job, Fill(j)
  PROVE  Live' = Live /\ (Based => Based')
<1>1. pc[j] = "filling" /\ UNCHANGED alias
  BY DEF Fill
<1>2. PICK batch \in SUBSET work[j].todo : Upsert(j, batch)
  BY DEF Fill
<1>3. LiveName # work[j].live
  <2>1. ~Based
    BY <1>1, Builds DEF Building
  <2>2. colls[work[j].live] # None
    BY <1>1 DEF Inv, Safe, Owned, Builder, Building
  <2>3. QED
    BY <2>1, <2>2 DEF Based, LiveName
<1>4. colls'[LiveName] = colls[LiveName]
  <2>1. LiveName \in Coll
    BY NamesAssumption DEF LiveName, Inv, TypeOK
  <2>2. QED
    BY <1>2, <1>3, <2>1 DEF Upsert, Inv, TypeOK
<1>5. QED
  BY <1>1, <1>4, LiveSame

LEMMA SwapLive ==
  ASSUME Inv, Loaded, Placed, Full, NEW j \in Job, Swap(j)
  PROVE  /\ j = Boot /\ ~Based /\ Live' = colls[work[j].live] /\ pc[j] = "swapping"
         /\ Live = NoDocs /\ pc'[j] = "done"
<1>1. pc[j] = "swapping" /\ alias' = work[j].live /\ UNCHANGED colls
  BY DEF Swap
<1>2. j = Boot /\ ~Booted /\ ~Based /\ work[j].old = None /\ Live = NoDocs
  BY <1>1, SwapFull, Builds DEF Building
<1>3. pc'[j] = "done"
  BY <1>2, JobsAssumption DEF Swap, Finish, Goto, Inv, TypeOK
<1>4. work[j].live \in Coll /\ colls[work[j].live] # None
  BY <1>1 DEF Inv, Safe, Owned, Builder, Building, TypeOK
<1>5. Live' = colls[work[j].live]
  BY <1>1, <1>4, NamesAssumption DEF Live
<1>6. QED
  BY <1>1, <1>2, <1>3, <1>5

LEMMA NoDrop ==
  ASSUME Inv, Placed, Full, NEW j \in Job
  PROVE  ~DropOld(j)
<1>1. "dropping" \in Running
  BY DEF Running
<1>2. QED
  BY <1>1, Turns DEF DropOld, Site

\* The steps that touch Qdrant's collections.
LEMMA StoreSteps ==
  ASSUME [Next]_vars
  PROVE  \/ UNCHANGED store
         \/ \E j \in Job : Write(j) \/ Erase(j) \/ Create(j) \/ Fill(j) \/ Swap(j) \/ DropOld(j)
<1>1. CASE \E j \in Job : Submit(j) \/ Raise(j) \/ Lost(j)
  BY <1>1 DEF Submit, Raise, Lost
<1>2. CASE Beat \/ Restart \/ EditOracle
  BY <1>2 DEF Beat, Restart, EditOracle
<1>3. CASE \E j \in Job : Step(j)
  BY <1>3 DEF Step, Take, FetchOracle, Resolve, Look, Compare, ReadAlias, Vanished
<1>4. CASE UNCHANGED vars
  BY <1>4 DEF vars
<1>5. QED
  BY <1>1, <1>2, <1>3, <1>4 DEF Next

\* Once the name leads to a collection only batches of incremental syncs and
\* their deletions change what searches find.
LEMMA LiveStep ==
  ASSUME Inv, Loaded, Placed, Full, [Next]_vars
  PROVE  /\ Based => Based'
         /\ \/ Live' = Live
            \/ \E j \in Job : \E batch \in SUBSET work[j].todo :
                  pc[j] = "writing" /\ Live' = Laying(Live, batch, work[j].docs)
            \/ \E j \in Job : pc[j] = "erasing" /\ Live' = Less(Live, work[j].gone)
            \/ ~Based /\ Live = NoDocs
<1>1. CASE UNCHANGED store
  BY <1>1, LiveSameStore
<1>2. ASSUME NEW j \in Job, Write(j) \/ Erase(j) \/ Create(j) \/ Fill(j) \/ Swap(j) \/ DropOld(j)
      PROVE  /\ Based => Based'
             /\ \/ Live' = Live
                \/ \E batch \in SUBSET work[j].todo :
                      pc[j] = "writing" /\ Live' = Laying(Live, batch, work[j].docs)
                \/ pc[j] = "erasing" /\ Live' = Less(Live, work[j].gone)
                \/ ~Based /\ Live = NoDocs
  <2>1. CASE Write(j)
    BY <2>1, WriteLive
  <2>2. CASE Erase(j)
    BY <2>2, EraseLive
  <2>3. CASE Create(j) \/ Fill(j)
    BY <2>3, CreateLive, FillLive
  <2>4. CASE Swap(j)
    BY <2>4, SwapLive
  <2>5. QED
    BY <1>2, <2>1, <2>2, <2>3, <2>4, NoDrop
<1>3. QED
  BY <1>1, <1>2, StoreSteps

\* What a job of the queue sent is not taken back.
LEMMA SentStays ==
  ASSUME Inv, Loaded, [Next]_vars, NEW j \in Pusher
  PROVE  sent'[j] = sent[j] \/ (pc[j] = "idle" /\ sent[j] = NoDocs /\ pc'[j] = "queued")
<1>1. ASSUME NEW k \in Job, Submit(k)
      PROVE  sent'[j] = sent[j] \/ (pc[j] = "idle" /\ pc'[j] = "queued")
  BY <1>1 DEF Submit, Goto, Inv, TypeOK
<1>2. CASE \E k \in Job : Raise(k) \/ Lost(k)
  BY <1>2 DEF Raise, Lost
<1>3. CASE Beat \/ Restart \/ EditOracle \/ UNCHANGED vars
  BY <1>3 DEF Beat, Restart, EditOracle, vars
<1>4. CASE \E k \in Job : Step(k)
  BY <1>4 DEF Step, Take, FetchOracle, Resolve, Look, Compare, Write, Erase, Create, Fill,
              ReadAlias, Swap, DropOld, Vanished
<1>5. pc[j] = "idle" => sent[j] = NoDocs
  BY DEF Loaded, Messages
<1>6. QED
  BY <1>1, <1>2, <1>3, <1>4, <1>5 DEF Next

LEMMA VersionsGrow == ASSUME Inv, Loaded, [Next]_vars PROVE Growing
<1> SUFFICES ASSUME NEW i \in Id, NEW v \in Versions(i) PROVE v \in Versions(i)'
  BY DEF Growing
<1>1. PICK k \in Pusher : v = sent[k][i] /\ v # Absent
  BY DEF Versions
<1>2. sent[k] # NoDocs
  BY <1>1 DEF NoDocs
<1>3. sent'[k][i] = v
  BY <1>1, <1>2, SentStays
<1>4. QED
  BY <1>1, <1>3 DEF Versions

-----------------------------------------------------------------------------
(* The file part of the index.                                              *)

\* The points have the files but for what is still to write, and of files
\* nothing else but what is still to delete, and what a push called so.
Filed(points, todo, gone) ==
    \A i \in Id :
       /\ i \in Has(files) \ todo => points[i] = files[i]
       /\ i \in Has(points) \ (todo \cup gone) /\ points[i].source = "file"
             => points[i] = files[i] \/ points[i] \in Versions(i)

Reconciled == Full =>
    /\ pc[Boot] \in Changing => Filed(Live, work[Boot].todo, work[Boot].gone)
    /\ pc[Boot] \in Building => Filed(colls[work[Boot].live], work[Boot].todo, {})
    /\ Booted => Filed(Live, {}, {})

\* get_all_point_metadata and the two lists of start-up.
LEMMA FiledByLists ==
  ASSUME NEW points
  PROVE  Filed(points, ToUpsert(files, points), ToDelete(files, points, {"file"}))
BY DEF Filed, ToUpsert, ToDelete, Has

LEMMA FiledByBatch ==
  ASSUME NEW points, NEW todo, NEW gone, NEW batch, NEW d,
         Filed(points, todo, gone), batch \subseteq Has(d), Laid(d), OfImage(d)
  PROVE  Filed(Laying(points, batch, d), todo \ batch, gone)
<1> DEFINE new == Laying(points, batch, d)
<1>1. \A i \in Id : new[i] = IF i \in batch THEN d[i] ELSE points[i]
  BY DEF Laying
<1> HIDE DEF new
<1>2. Filed(new, todo \ batch, gone)
  BY <1>1 DEF Filed, Laid, OfImage, Has
<1>3. QED
  BY <1>2 DEF new

LEMMA FiledByDeletion ==
  ASSUME NEW points, NEW owed, NEW gone, Filed(points, {}, owed), owed \subseteq gone,
         gone \cap Has(files) = {}
  PROVE  Filed(Less(points, gone), {}, {})
<1> DEFINE new == Less(points, gone)
<1>1. \A i \in Id : new[i] = IF i \in gone THEN Absent ELSE points[i]
  BY DEF Less
<1> HIDE DEF new
<1>2. Filed(new, {}, {})
  BY <1>1 DEF Filed, Has
<1>3. QED
  BY <1>2 DEF new

\* Start-up is where it was, and so is what it works on.
LEMMA ReconciledSame ==
  ASSUME Reconciled, UNCHANGED <<name, files>>, Growing,
         Full => /\ Live' = Live /\ pc'[Boot] = pc[Boot] /\ work'[Boot] = work[Boot]
                 /\ pc[Boot] \in Building =>
                       colls'[work[Boot].live] = colls[work[Boot].live]
  PROVE  Reconciled'
<1>1. Full' <=> Full
  BY DEF Full
<1>2. QED
  BY <1>1 DEF Reconciled, Filed, Booted, Growing, Has

\* Start-up is before its comparison.
LEMMA ReconciledLater ==
  ASSUME UNCHANGED <<name, files>>,
         Full => pc'[Boot] \in Fresh
  PROVE  Reconciled'
<1>1. Full' <=> Full
  BY DEF Full
<1>2. QED
  BY <1>1 DEF Reconciled, Booted, Fresh, Changing, Building

\* A job's step leaves the others where they are.
LEMMA Elsewhere ==
  ASSUME Inv, NEW j \in Job, NEW k \in Job, k # j,
         Submit(j) \/ Step(j) \/ Raise(j) \/ Lost(j)
  PROVE  pc'[k] = pc[k] /\ work'[k] = work[k]
<1>1. pc \in [Job -> Place] /\ work \in [Job -> WorkType]
  BY DEF Inv, TypeOK
<1>2. CASE Submit(j) \/ Take(j) \/ Resolve(j) \/ Look(j)
  BY <1>1, <1>2 DEF Submit, Take, Resolve, Look, Goto
<1>3. CASE FetchOracle(j)
  BY <1>1, <1>3 DEF FetchOracle, Goto, Finish
<1>4. CASE Compare(j)
  BY <1>1, <1>4 DEF Compare, Goto, Finish
<1>5. CASE Write(j) \/ Erase(j)
  BY <1>1, <1>5 DEF Write, Erase, Goto, Finish
<1>6. CASE Create(j) \/ Fill(j) \/ ReadAlias(j)
  BY <1>1, <1>6 DEF Create, Fill, ReadAlias, Goto
<1>7. CASE Swap(j) \/ DropOld(j) \/ Lost(j)
  BY <1>1, <1>7 DEF Swap, DropOld, Lost, Goto, Finish
<1>8. CASE Vanished(j) \/ Raise(j)
  BY <1>1, <1>8 DEF Vanished, Raise, Retry, Goto, Finish
<1>9. QED
  BY <1>2, <1>3, <1>4, <1>5, <1>6, <1>7, <1>8 DEF Step

\* A worker's step, while start-up is through.
LEMMA WorkerReconciled ==
  ASSUME Inv, Loaded, Placed, Reconciled, Growing, NEW j \in Job, j # Boot,
         Submit(j) \/ Step(j) \/ Raise(j) \/ Lost(j)
  PROVE  Reconciled'
<1>1. pc'[Boot] = pc[Boot] /\ work'[Boot] = work[Boot]
  BY Elsewhere DEF Job
<1>2. UNCHANGED <<name, files>>
  BY DEF Submit, Step, Raise, Lost, Take, FetchOracle, Resolve, Look, Compare, Write, Erase,
         Create, Fill, ReadAlias, Swap, DropOld, Vanished, world
<1>3. CASE ~Full
  BY <1>1, <1>2, <1>3, ReconciledSame
<1>4. CASE Full /\ Write(j)
  <2>1. /\ pc[j] = "writing"
        /\ \E batch \in SUBSET work[j].todo : Live' = Laying(Live, batch, work[j].docs)
    BY <1>4, WriteLive
  <2>2. PICK batch \in SUBSET work[j].todo : Live' = Laying(Live, batch, work[j].docs)
    BY <2>1
  <2>3. Booted
    BY <1>4, <2>1, Turns DEF Running
  <2>4. Laid(work[j].docs) /\ OfImage(work[j].docs) /\ work[j].todo \subseteq Has(work[j].docs)
    BY <2>1 DEF Loaded, Loads, Load, Docked, Listed, Changing
  <2>5. Filed(Live, {}, {})
    BY <1>4, <2>3 DEF Reconciled
  <2>6. Filed(Live', {} \ batch, {})
    BY <2>2, <2>4, <2>5, FiledByBatch
  <2>7. Filed(Live', {}, {})
    BY <2>6 DEF Filed
  <2>8. QED
    BY <1>1, <1>2, <2>3, <2>7 DEF Reconciled, Booted, Changing, Building, Filed, Growing, Has
<1>5. CASE Full /\ Erase(j)
  <2>1. pc[j] = "erasing" /\ Live' = Less(Live, work[j].gone)
    BY <1>5, EraseLive
  <2>2. Booted
    BY <1>5, <2>1, Turns DEF Running
  <2>3. work[j].gone \cap Has(files) = {}
    <3>1. /\ Laid(work[j].docs)
          /\ \A i \in work[j].gone : i \notin Has(work[j].docs)
      BY <2>1 DEF Loaded, Loads, Load, Docked, Listed, Changing
    <3>2. work[j].gone \subseteq Id
      BY DEF Inv, TypeOK, WorkType
    <3>3. QED
      BY <3>1, <3>2 DEF Laid, Has
  <2>4. Filed(Live, {}, {})
    BY <1>5, <2>2 DEF Reconciled
  <2>5. Filed(Live', {}, {})
    BY <2>1, <2>3, <2>4, FiledByDeletion
  <2>6. QED
    BY <1>1, <1>2, <2>2, <2>5 DEF Reconciled, Booted, Changing, Building, Filed, Growing, Has
<1>6. CASE Full /\ (Create(j) \/ Fill(j) \/ Swap(j) \/ DropOld(j))
  <2>1. Create(j) => pc[j] = "creating"
    BY DEF Create
  <2>2. Fill(j) => pc[j] = "filling"
    BY DEF Fill
  <2>3. Swap(j) => pc[j] = "swapping"
    BY DEF Swap
  <2>4. QED
    BY <1>6, <2>1, <2>2, <2>3, NoDrop, Builds DEF Building
<1>7. CASE Full /\ ~(Write(j) \/ Erase(j) \/ Create(j) \/ Fill(j) \/ Swap(j) \/ DropOld(j))
  <2>1. UNCHANGED store
    BY <1>7 DEF Step, Submit, Raise, Lost, Take, FetchOracle, Resolve, Look, Compare,
                ReadAlias, Vanished
  <2>2. QED
    BY <1>1, <1>2, <2>1, LiveSameStore, ReconciledSame DEF store
<1>8. QED
  BY <1>3, <1>4, <1>5, <1>6, <1>7

\* A step of start-up itself.
LEMMA BootFinishes ==
  ASSUME Inv, Growing, Finish(Boot, "done"), UNCHANGED <<name, files>>,
         Full => Filed(Live', {}, {})
  PROVE  Reconciled'
<1>1. pc'[Boot] = "done"
  BY JobsAssumption DEF Finish, Goto, Inv, TypeOK, Job
<1>2. Full' <=> Full
  BY DEF Full
<1>3. QED
  BY <1>1, <1>2 DEF Reconciled, Filed, Changing, Building, Growing, Has

LEMMA BootCompares ==
  ASSUME Inv, Loaded, Placed, Growing, Compare(Boot)
  PROVE  Reconciled'
<1> DEFINE d == Incoming(Boot)
           points == colls[work[Boot].live]
           todo == ToUpsert(d, points)
           gone == ToDelete(d, points, work[Boot].scope)
<1>1. /\ pc[Boot] = "comparing" /\ points # None /\ UNCHANGED <<world, store>> /\ Boot \in Job
  BY DEF Compare, Job
<1>2. d = files /\ work[Boot].scope = {"file"}
  <2>1. Load(Boot, "comparing", work[Boot])
    BY <1>1 DEF Loaded, Loads
  <2>2. QED
    BY <1>1, <2>1, IncomingLoad DEF Load, Docked, Fresh, Running
<1>3. Filed(points, todo, gone)
  BY <1>2, FiledByLists
<1>4. Full => Live = points
  BY <1>1, AtLive
<1>5. Live' = Live /\ UNCHANGED <<name, files>>
  BY <1>1, LiveSameStore DEF world
<1>6. CASE todo \cup gone = {}
  <2>1. Finish(Boot, "done")
    BY <1>6 DEF Compare
  <2>2. todo = {} /\ gone = {}
    BY <1>6
  <2>3. Full => Filed(Live', {}, {})
    BY <1>3, <1>4, <1>5, <2>2
  <2>4. QED
    BY <1>5, <2>1, <2>3, BootFinishes
<1>7. CASE todo \cup gone # {}
  <2> DEFINE w == [[[work[Boot] EXCEPT !.docs = d] EXCEPT !.todo = todo] EXCEPT !.gone = gone]
             place == AfterCompare(todo, gone)
  <2>1. pc' = [pc EXCEPT ![Boot] = place] /\ work' = [work EXCEPT ![Boot] = w]
    BY <1>7 DEF Compare, Goto, Inv, TypeOK
  <2>2. w.todo = todo /\ w.gone = gone
    BY <1>1, StayTyped DEF WorkType
  <2>3. place \in {"writing", "erasing"}
    BY <1>7 DEF AfterCompare
  <2> HIDE DEF d, points, todo, gone, w, place
  <2>4. pc'[Boot] \in {"writing", "erasing"} /\ work'[Boot].todo = todo /\ work'[Boot].gone = gone
    BY <1>1, <2>1, <2>2, <2>3 DEF Inv, TypeOK
  <2>5. Full => Filed(Live', todo, gone)
    BY <1>3, <1>4, <1>5
  <2>6. Full' <=> Full
    BY <1>5 DEF Full
  <2>7. QED
    BY <1>5, <2>4, <2>5, <2>6 DEF Reconciled, Filed, Booted, Building, Growing, Has
<1>8. QED
  BY <1>6, <1>7

LEMMA BootWrites ==
  ASSUME Inv, Loaded, Placed, Reconciled, Growing, Full, Write(Boot)
  PROVE  Reconciled'
<1>1. Boot \in Job /\ UNCHANGED <<name, files>> /\ (Full' <=> Full)
  BY DEF Write, Job, world, Full
<1>2. pc[Boot] = "writing"
  BY DEF Write
<1>3. PICK batch \in SUBSET work[Boot].todo :
          LET left == work[Boot].todo \ batch
          IN  /\ Live' = Laying(Live, batch, work[Boot].docs)
              /\ IF left \cup work[Boot].gone = {} THEN Finish(Boot, "done")
                 ELSE /\ Goto(Boot, AfterCompare(left, work[Boot].gone))
                      /\ work' = [work EXCEPT ![Boot].todo = left]
  BY <1>1, WriteLive
<1> DEFINE left == work[Boot].todo \ batch
           w == [work[Boot] EXCEPT !.todo = left]
<1>4. /\ Laid(work[Boot].docs) /\ OfImage(work[Boot].docs)
      /\ work[Boot].todo \subseteq Has(work[Boot].docs)
  BY <1>1, <1>2 DEF Loaded, Loads, Load, Docked, Listed, Changing
<1>5. Filed(Live, work[Boot].todo, work[Boot].gone)
  BY <1>2 DEF Reconciled, Changing
<1>6. Filed(Live', left, work[Boot].gone)
  BY <1>3, <1>4, <1>5, FiledByBatch
<1>7. CASE left \cup work[Boot].gone = {}
  <2>1. left = {} /\ work[Boot].gone = {}
    BY <1>7
  <2>2. Filed(Live', {}, {})
    BY <1>6, <2>1
  <2>3. QED
    BY <1>1, <1>3, <1>7, <2>2, BootFinishes
<1>8. CASE left \cup work[Boot].gone # {}
  <2>1. /\ pc'[Boot] = AfterCompare(left, work[Boot].gone)
        /\ work'[Boot] = w
    BY <1>1, <1>3, <1>8 DEF Goto, Inv, TypeOK
  <2>2. pc'[Boot] \in {"writing", "erasing"}
    BY <1>8, <2>1 DEF AfterCompare
  <2>3. w.todo = left /\ w.gone = work[Boot].gone
    BY <1>1, StayTyped DEF WorkType
  <2> HIDE DEF left, w
  <2>4. QED
    BY <1>1, <1>6, <2>1, <2>2, <2>3 DEF Reconciled, Filed, Booted, Building, Growing, Has
<1>9. QED
  BY <1>7, <1>8

LEMMA BootErases ==
  ASSUME Inv, Loaded, Placed, Reconciled, Growing, Full, Erase(Boot)
  PROVE  Reconciled'
<1>1. Boot \in Job /\ UNCHANGED <<name, files>>
  BY DEF Erase, Job, world
<1>2. pc[Boot] = "erasing" /\ Finish(Boot, "done") /\ Live' = Less(Live, work[Boot].gone)
  BY <1>1, EraseLive
<1>3. Load(Boot, "erasing", work[Boot])
  BY <1>1, <1>2 DEF Loaded, Loads
<1>4. work[Boot].todo = {} /\ \A i \in work[Boot].gone : i \notin Has(work[Boot].docs)
  BY <1>3 DEF Load, Listed
<1>5. work[Boot].docs = files
  BY <1>3 DEF Load, Docked, Running
<1>6. Filed(Live, {}, work[Boot].gone)
  BY <1>2, <1>4 DEF Reconciled, Changing
<1>7. Filed(Live', {}, {})
  BY <1>2, <1>4, <1>5, <1>6, FiledByDeletion
<1>8. QED
  BY <1>1, <1>2, <1>7, BootFinishes

LEMMA BootCreates ==
  ASSUME Inv, Loaded, Placed, Growing, Create(Boot)
  PROVE  Reconciled'
<1> DEFINE d == Incoming(Boot)
<1>1. PICK c \in Coll \ used :
          /\ colls' = [colls EXCEPT ![c] = NoDocs]
          /\ work' = [work EXCEPT ![Boot].docs = d, ![Boot].live = c, ![Boot].todo = Has(d)]
  BY DEF Create
<1>2. /\ pc[Boot] = "creating" /\ pc' = [pc EXCEPT ![Boot] = "filling"] /\ Boot \in Job
      /\ UNCHANGED <<name, files>>
  BY DEF Create, Goto, Job, world
<1>3. d = files
  BY <1>2, IncomingLoad DEF Loaded, Loads, Fresh
<1> HIDE DEF d
<1>4. pc'[Boot] = "filling" /\ work'[Boot].live = c /\ work'[Boot].todo = Has(files)
  BY <1>1, <1>2, <1>3 DEF Inv, TypeOK, WorkType
<1>5. colls'[c] = NoDocs
  BY <1>1 DEF Inv, TypeOK
<1>6. Filed(NoDocs, Has(files), {})
  BY DEF Filed, Has, NoDocs
<1>7. QED
  BY <1>2, <1>4, <1>5, <1>6 DEF Reconciled, Filed, Booted, Changing, Growing, Has

LEMMA BootFills ==
  ASSUME Inv, Loaded, Placed, Reconciled, Growing, Full, Fill(Boot)
  PROVE  Reconciled'
<1>1. Boot \in Job /\ pc[Boot] = "filling" /\ UNCHANGED <<name, files>>
  BY DEF Fill, Job, world
<1>2. PICK batch \in SUBSET work[Boot].todo :
          LET left == work[Boot].todo \ batch
          IN  /\ Upsert(Boot, batch)
              /\ work' = [work EXCEPT ![Boot].todo = left]
              /\ Goto(Boot, IF left = {} THEN "reading" ELSE "filling")
  BY DEF Fill
<1> DEFINE left == work[Boot].todo \ batch
           c == work[Boot].live
<1>3. c \in Coll
  BY <1>1 DEF Loaded, Loads, Load, Listed, Building
<1>4. colls'[c] = Laying(colls[c], batch, work[Boot].docs)
  BY <1>2, <1>3 DEF Upsert, Laying, Inv, TypeOK
<1>5. /\ Laid(work[Boot].docs) /\ OfImage(work[Boot].docs)
      /\ work[Boot].todo \subseteq Has(work[Boot].docs)
  BY <1>1 DEF Loaded, Loads, Load, Docked, Listed, Building
<1>6. Filed(colls[c], work[Boot].todo, {})
  BY <1>1 DEF Reconciled, Building
<1>7. Filed(colls'[c], left, {})
  BY <1>4, <1>5, <1>6, FiledByBatch
<1>8. work'[Boot].live = c /\ work'[Boot].todo = left
  BY <1>1, <1>2 DEF Inv, TypeOK, WorkType
<1>9. pc'[Boot] \in {"reading", "filling"}
  BY <1>1, <1>2 DEF Goto, Inv, TypeOK
<1> HIDE DEF left, c
<1>10. QED
  BY <1>1, <1>7, <1>8, <1>9 DEF Reconciled, Filed, Booted, Changing, Growing, Has

LEMMA BootReads ==
  ASSUME Inv, Loaded, Placed, Reconciled, Growing, Full, ReadAlias(Boot)
  PROVE  Reconciled'
<1>1. /\ Boot \in Job /\ pc[Boot] = "reading" /\ UNCHANGED <<name, files, colls>>
      /\ pc' = [pc EXCEPT ![Boot] = "swapping"] /\ work' = [work EXCEPT ![Boot].old = alias]
  BY DEF ReadAlias, Goto, Job, world, store
<1>2. /\ pc'[Boot] = "swapping" /\ work'[Boot].live = work[Boot].live
      /\ work'[Boot].todo = work[Boot].todo
  BY <1>1 DEF Inv, TypeOK, WorkType
<1>3. Filed(colls[work[Boot].live], work[Boot].todo, {})
  BY <1>1 DEF Reconciled, Building
<1>4. QED
  BY <1>1, <1>2, <1>3 DEF Reconciled, Filed, Booted, Changing, Growing, Has

LEMMA BootSwaps ==
  ASSUME Inv, Loaded, Placed, Reconciled, Growing, Full, Swap(Boot)
  PROVE  Reconciled'
<1>1. Boot \in Job /\ UNCHANGED <<name, files>>
  BY DEF Swap, Job, world
<1>2. /\ pc[Boot] = "swapping" /\ pc'[Boot] = "done" /\ Live' = colls[work[Boot].live]
  BY <1>1, SwapLive
<1>3. work[Boot].todo = {}
  BY <1>1, <1>2 DEF Loaded, Loads, Load, Listed
<1>4. Filed(Live', {}, {})
  BY <1>2, <1>3 DEF Reconciled, Building
<1>5. QED
  BY <1>1, <1>2, <1>4 DEF Reconciled, Filed, Changing, Building, Growing, Has

LEMMA BootRetries ==
  ASSUME Inv, Retry(Boot), UNCHANGED <<name, files>>
  PROVE  Reconciled'
<1>1. pc'[Boot] = BootPlace(files)
  BY DEF Retry, Goto, Inv, TypeOK, Job
<1>2. QED
  BY <1>1, ReconciledLater DEF BootPlace, Full, Fresh

LEMMA BootReconciled ==
  ASSUME Inv, Loaded, Placed, Reconciled, Growing,
         Submit(Boot) \/ Step(Boot) \/ Raise(Boot) \/ Lost(Boot)
  PROVE  Reconciled'
<1>1. UNCHANGED <<name, files>>
  BY DEF Submit, Step, Raise, Lost, Take, FetchOracle, Resolve, Look, Compare, Write, Erase,
         Create, Fill, ReadAlias, Swap, DropOld, Vanished, world
<1>2. ~Submit(Boot) /\ ~Take(Boot) /\ ~FetchOracle(Boot) /\ ~Lost(Boot)
  BY JobsAssumption DEF Submit, Take, FetchOracle, Lost, Pusher
<1>3. CASE ~Full
  BY <1>1, <1>3 DEF Reconciled, Full
<1>4. CASE Resolve(Boot) \/ Look(Boot)
  <2>1. pc'[Boot] \in Fresh
    BY <1>4 DEF Resolve, Look, Goto, Fresh, Inv, TypeOK, Job
  <2>2. QED
    BY <1>1, <2>1, ReconciledLater
<1>5. CASE Vanished(Boot) \/ Raise(Boot)
  BY <1>1, <1>5, BootRetries DEF Vanished, Raise
<1>6. CASE Full
  BY <1>2, <1>4, <1>5, <1>6, BootCompares, BootWrites, BootErases, BootCreates, BootFills,
     BootReads, BootSwaps, NoDrop DEF Step, Job
<1>7. QED
  BY <1>3, <1>6

LEMMA InitReconciled == Init => Reconciled
<1> SUFFICES ASSUME Init PROVE Reconciled
  OBVIOUS
<1>1. pc[Boot] = BootPlace(files)
  BY DEF Init, Job
<1>2. QED
  BY <1>1 DEF Reconciled, Full, BootPlace, Changing, Building, Booted

LEMMA NextReconciled == Inv /\ Loaded /\ Placed /\ Reconciled /\ [Next]_vars => Reconciled'
<1> SUFFICES ASSUME Inv, Loaded, Placed, Reconciled, [Next]_vars PROVE Reconciled'
  OBVIOUS
<1>1. Growing
  BY VersionsGrow
<1>2. CASE \E j \in Job : Submit(j) \/ Step(j) \/ Raise(j) \/ Lost(j)
  BY <1>1, <1>2, WorkerReconciled, BootReconciled
<1>3. CASE Beat
  <2>1. \E k \in Fetch : pc[k] = "idle"
    BY <1>3 DEF Beat
  <2>2. PICK j \in Fetch : pc' = [pc EXCEPT ![j] = "queued"]
    BY <1>3, <2>1 DEF Beat, Goto
  <2>3. pc'[Boot] = pc[Boot] /\ UNCHANGED <<name, files, store, work, colls>>
    BY <1>3, <2>2, JobsAssumption DEF Inv, TypeOK, Job, Beat, world, store
  <2>4. QED
    BY <1>1, <2>3, LiveSameStore, ReconciledSame
<1>4. CASE Restart
  <2>1. pc'[Boot] = BootPlace(files') /\ name' = name
    BY <1>4 DEF Restart, Job
  <2>2. QED
    BY <2>1 DEF Reconciled, Full, BootPlace, Changing, Building, Booted
<1>5. CASE EditOracle \/ UNCHANGED vars
  <2>1. UNCHANGED <<name, files, store, work, pc, colls>>
    BY <1>5 DEF EditOracle, vars, world, store
  <2>2. QED
    BY <1>1, <2>1, LiveSameStore, ReconciledSame
<1>6. QED
  BY <1>2, <1>3, <1>4, <1>5 DEF Next

\* What the default name keeps besides, at every step.
LEMMA Reconciliation == Spec => [](Inv /\ Loaded /\ Placed /\ Reconciled)
<1>1. Init => Inv /\ Loaded /\ Placed /\ Reconciled
  BY InitInv, InitLoaded, InitPlaced, InitReconciled
<1>2. (Inv /\ Loaded /\ Placed /\ Reconciled) /\ [Next]_vars
        => (Inv /\ Loaded /\ Placed /\ Reconciled)'
  BY NextInv, NextLoaded, NextPlaced, NextReconciled
<1>3. QED
  BY <1>1, <1>2, PTL DEF Spec

\* _run_incremental_sync with apply_file_overlays, run by start-up and by the
\* worker's jobs: while the worker runs, the default name has the files of its
\* image, and what else is stamped as theirs is what a push stamped so,
\* whichever jobs overlap, fail or are killed.
THEOREM FilesAreServed == Spec => []FilePartIsTheFiles
<1>1. Inv /\ Reconciled => FilePartIsTheFiles
  BY DEF Reconciled, Full, Filed, FilePartIsTheFiles, Has
<1>2. QED
  BY <1>1, Reconciliation, PTL

-----------------------------------------------------------------------------
(* Nothing that arrived is lost.                                            *)

\* Every image has FAQ entries, as the repository's data files do.  (An image
\* without any starts nothing up: the first jobs of the worker may then build
\* a collection each, and the last swap drops the others.)
Furnished == \A f \in FileSets : Has(f) # {}

LEMMA DefaultIsFull ==
  ASSUME Furnished, Inv, name = "default"
  PROVE  Full
BY DEF Furnished, Inv, TypeOK, Full

LEMMA EditsCount ==
  ASSUME Inv, [Next]_vars, edits' = 0
  PROVE  edits = 0 /\ UNCHANGED <<name, oracle>>
<1>1. edits \in Nat
  BY DEF Inv, TypeOK
<1>2. CASE \E j \in Job : Submit(j) \/ Raise(j) \/ Lost(j)
  BY <1>2 DEF Submit, Raise, Lost, world, budget
<1>3. CASE Beat \/ Restart \/ UNCHANGED vars
  BY <1>3 DEF Beat, Restart, vars, world, budget
<1>4. CASE EditOracle
  BY <1>1, <1>4 DEF EditOracle
<1>5. CASE \E j \in Job : Step(j)
  BY <1>5 DEF Step, Take, FetchOracle, Resolve, Look, Compare, Write, Erase, Create, Fill,
              ReadAlias, Swap, DropOld, Vanished, world, budget
<1>6. QED
  BY <1>2, <1>3, <1>4, <1>5 DEF Next

\* A name of its own shows no row of the table.
LEMMA OverrideHasNoRows ==
  ASSUME Inv, Loaded, name = "override", NEW i \in OracleId
  PROVE  Live[i] = Absent
<1>1. i \in Id
  BY DEF Id
<1>2. CASE colls[LiveName] = None
  BY <1>1, <1>2, LiveIs DEF NoDocs
<1>3. CASE colls[LiveName] # None
  <2>1. LiveName \in Coll
    BY NamesAssumption DEF LiveName, Inv, TypeOK
  <2>2. Has(colls[LiveName]) \cap OracleId = {}
    BY <1>3, <2>1 DEF Loaded, Stored, Sound
  <2>3. QED
    BY <1>1, <1>3, <2>2, LiveIs DEF Has
<1>4. QED
  BY <1>2, <1>3

LEMMA RowsStep ==
  ASSUME Furnished, Inv, Loaded, Placed, [Next]_vars, edits' = 0, Shown,
         NEW i \in Has(oracle), Live[i] # Absent
  PROVE  Live'[i] # Absent
<1>1. i \in OracleId /\ i \in Id /\ i \notin FileId \cup PushId /\ edits = 0
  BY FilesAre, EditsCount, DocsAssumption DEF Id
<1>2. name = "default"
  BY <1>1, OverrideHasNoRows DEF Inv, TypeOK
<1>3. \/ Live' = Live
      \/ \E j \in Job : \E batch \in SUBSET work[j].todo :
            pc[j] = "writing" /\ Live' = Laying(Live, batch, work[j].docs)
      \/ \E j \in Job : pc[j] = "erasing" /\ Live' = Less(Live, work[j].gone)
      \/ ~Based /\ Live = NoDocs
  BY <1>2, DefaultIsFull, LiveStep
<1>4. CASE Live' = Live
  BY <1>4
<1>5. ASSUME NEW j \in Job, NEW batch \in SUBSET work[j].todo,
             Live' = Laying(Live, batch, work[j].docs)
      PROVE  Live'[i] # Absent
  <2>1. batch \subseteq Has(work[j].docs)
    BY DEF Loaded, Loads, Load, Listed
  <2>2. Live'[i] = IF i \in batch THEN work[j].docs[i] ELSE Live[i]
    BY <1>1, <1>5 DEF Laying
  <2>3. QED
    BY <2>1, <2>2 DEF Has
<1>6. ASSUME NEW j \in Job, Live' = Less(Live, work[j].gone)
      PROVE  Live'[i] # Absent
  <2>1. i \notin work[j].gone
    <3>1. Load(j, pc[j], work[j])
      BY DEF Loaded, Loads
    <3>2. i \in work[j].gone => i \notin Has(work[j].docs) /\ "oracle" \in work[j].scope
      BY <1>1, <3>1 DEF Load, Listed
    <3>3. "oracle" \in work[j].scope => i \in Has(work[j].docs)
      BY <1>1, <3>1 DEF Load, Docked
    <3>4. QED
      BY <3>2, <3>3
  <2>2. QED
    BY <1>1, <1>6, <2>1 DEF Less
<1>7. CASE Live = NoDocs
  BY <1>1, <1>7 DEF NoDocs
<1>8. QED
  BY <1>3, <1>4, <1>5, <1>6, <1>7

\* faq_fetch_task with _FAQ_FETCH_LIMIT: while nobody edits the Oracle table
\* no sync takes a row of it out of the index, although the backend may show
\* a fetch only a part of them; if its `total` counts the table or one answer
\* shows the table, and if every image has FAQ entries.
THEOREM RowsRemain == ASSUME Furnished PROVE Spec => RowsStay
<1>1. Inv /\ Loaded /\ Placed /\ [Next]_vars
        => [edits' = 0 /\ Shown
              => \A i \in Has(oracle) : Live[i] # Absent => Live'[i] # Absent]_vars
  BY RowsStep
<1>2. QED
  BY <1>1, Reconciliation, PTL DEF Spec, RowsStay, Shown

-----------------------------------------------------------------------------
(* The pushes to the default name.                                          *)

Arrived == Furnished /\ name = "default" =>
    \A j \in Push :
       /\ pc[j] = "done" => Based /\ \A i \in PushOnly(j) : Live[i] \in Versions(i)
       /\ pc[j] \in Changing => \A i \in PushOnly(j) :
                                   i \in work[j].todo \/ Live[i] \in Versions(i)

LEMMA PushIds ==
  ASSUME Inv, Loaded, NEW j \in Pusher, NEW i \in Has(sent[j]) \ FileId
  PROVE  /\ i \in Id /\ i \in PushId /\ i \notin OracleId /\ sent[j][i] # Absent
         /\ sent[j][i] \in Versions(i)
<1>1. i \in Id /\ sent[j][i] # Absent
  BY DEF Has
<1>2. i \in PushId
  BY DEF Loaded, Messages
<1>3. QED
  BY <1>1, <1>2, DocsAssumption DEF Versions

\* A document of the pushes stays one of their versions.
LEMMA VersionStays ==
  ASSUME Inv, Loaded, Placed, Full, [Next]_vars, Based,
         NEW i \in PushId, i \notin FileId \cup OracleId, ~Claimed(i), Live[i] \in Versions(i)
  PROVE  Live'[i] \in Versions(i)'
<1>1. i \in Id
  BY DEF Id
<1>2. \/ Live' = Live
      \/ \E j \in Job : \E batch \in SUBSET work[j].todo :
            pc[j] = "writing" /\ Live' = Laying(Live, batch, work[j].docs)
      \/ \E j \in Job : pc[j] = "erasing" /\ Live' = Less(Live, work[j].gone)
  BY LiveStep
<1>3. ASSUME NEW j \in Job, NEW batch \in SUBSET work[j].todo, pc[j] = "writing",
             Live' = Laying(Live, batch, work[j].docs)
      PROVE  Live'[i] \in Versions(i)
  <2>1. Load(j, "writing", work[j])
    BY <1>3 DEF Loaded, Loads
  <2>2. batch \subseteq Has(work[j].docs) /\ Has(work[j].docs) \subseteq FileId \cup Ours(j)
    BY <2>1 DEF Load, Listed, Docked
  <2>3. ASSUME i \in batch PROVE work[j].docs[i] \in Versions(i)
    <3>1. i \in Ours(j) /\ work[j].docs[i] # Absent
      BY <2>2, <2>3 DEF Has
    <3>2. j \in Pusher
      BY <3>1 DEF Ours, Job
    <3>3. work[j].docs[i] = sent[j][i]
      BY <1>1, <2>1, <3>2 DEF Load, Docked, Running
    <3>4. QED
      BY <3>1, <3>2, <3>3 DEF Versions
  <2>4. Live'[i] = IF i \in batch THEN work[j].docs[i] ELSE Live[i]
    BY <1>1, <1>3 DEF Laying
  <2>5. QED
    BY <2>3, <2>4
<1>4. ASSUME NEW j \in Job, Live' = Less(Live, work[j].gone)
      PROVE  Live'[i] \in Versions(i)
  <2>1. i \notin work[j].gone
    BY DEF Loaded, Loads, Load, Listed
  <2>2. QED
    BY <1>1, <1>4, <2>1 DEF Less
<1>5. Live'[i] \in Versions(i)
  BY <1>2, <1>3, <1>4
<1>6. QED
  BY <1>1, <1>5, VersionsGrow DEF Growing

\* How a push comes to be written: its comparison.
LEMMA PushCompares ==
  ASSUME Inv, Loaded, Placed, Full, NEW j \in Push, Compare(j)
  PROVE  /\ Live' = Live /\ UNCHANGED sent /\ Based /\ Based'
         /\ \A i \in PushOnly(j) :
               \/ pc'[j] \in Changing /\ i \in work'[j].todo
               \/ Live[i] \in Versions(i)
<1> DEFINE d == Incoming(j)
           points == colls[work[j].live]
           todo == ToUpsert(d, points)
           gone == ToDelete(d, points, work[j].scope)
<1>1. /\ pc[j] = "comparing" /\ points # None /\ UNCHANGED <<world, store, sent>>
      /\ j \in Job /\ j \in Pusher /\ j # Boot
  BY JobsAssumption DEF Compare, Job, Pusher
<1>2. Live = points /\ Booted
  BY <1>1, AtLive
<1>3. Based
  BY <1>2 DEF Placed
<1>4. /\ Has(d) = Has(files) \cup Has(work[j].docs)
      /\ \A i \in Id \ FileId : d[i] = sent[j][i]
  BY <1>1, IncomingLoad DEF Loaded, Loads, Fresh
<1>5. ASSUME NEW i \in PushOnly(j), i \notin todo
      PROVE  Live[i] \in Versions(i)
  <2>1. i \in Id /\ sent[j][i] # Absent /\ sent[j][i] \in Versions(i) /\ i \notin FileId
    BY <1>1, PushIds DEF PushOnly
  <2>2. d[i] = sent[j][i]
    BY <1>4, <2>1
  <2>3. points[i] = d[i]
    BY <1>5, <2>1, <2>2 DEF ToUpsert, Has
  <2>4. QED
    BY <1>2, <2>1, <2>2, <2>3
<1>6. ASSUME todo # {} PROVE pc'[j] \in Changing /\ work'[j].todo = todo
  <2>1. /\ pc' = [pc EXCEPT ![j] = AfterCompare(todo, gone)]
        /\ work' = [work EXCEPT ![j].docs = d, ![j].todo = todo, ![j].gone = gone]
    BY <1>6 DEF Compare, Goto
  <2> HIDE DEF d, points, todo, gone
  <2>2. work'[j].todo = todo
    BY <1>1, <2>1 DEF Inv, TypeOK, WorkType
  <2>3. pc'[j] = "writing"
    BY <1>1, <1>6, <2>1 DEF AfterCompare, Inv, TypeOK
  <2>4. QED
    BY <2>2, <2>3 DEF Changing
<1>7. Live' = Live /\ Based'
  BY <1>1, <1>3, LiveSameStore
<1> HIDE DEF d, points, todo, gone
<1>8. QED
  BY <1>1, <1>3, <1>5, <1>6, <1>7

LEMMA PushWrites ==
  ASSUME Inv, Loaded, Placed, Arrived, Furnished, name = "default", NEW j \in Push, Write(j)
  PROVE  /\ UNCHANGED sent /\ Based /\ Based'
         /\ \A i \in PushOnly(j) :
               \/ pc'[j] \in Changing /\ i \in work'[j].todo
               \/ Live'[i] \in Versions(i)
<1>1. j \in Job /\ j \in Pusher /\ j # Boot /\ UNCHANGED sent /\ Full
  BY JobsAssumption, DefaultIsFull DEF Write, Job, Pusher
<1>2. pc[j] = "writing" /\ (Based => Based')
  BY <1>1, WriteLive
<1>3. PICK batch \in SUBSET work[j].todo :
          LET left == work[j].todo \ batch
          IN  /\ Live' = Laying(Live, batch, work[j].docs)
              /\ IF left \cup work[j].gone = {} THEN Finish(j, "done")
                 ELSE /\ Goto(j, AfterCompare(left, work[j].gone))
                      /\ work' = [work EXCEPT ![j].todo = left]
  BY <1>1, WriteLive
<1> DEFINE left == work[j].todo \ batch
<1>4. Based
  BY <1>1, <1>2, Turns DEF Placed, Running
<1>5. ASSUME NEW i \in PushOnly(j), i \notin left
      PROVE  Live'[i] \in Versions(i)
  <2>1. i \in Id /\ sent[j][i] \in Versions(i) /\ i \notin FileId
    BY <1>1, PushIds DEF PushOnly
  <2>2. work[j].docs[i] = sent[j][i]
    BY <1>1, <1>2, <2>1 DEF Loaded, Loads, Load, Docked, Running
  <2>3. Live'[i] = IF i \in batch THEN work[j].docs[i] ELSE Live[i]
    BY <1>3, <2>1 DEF Laying
  <2>4. i \in work[j].todo \/ Live[i] \in Versions(i)
    BY <1>2 DEF Arrived, Changing
  <2>5. QED
    BY <1>5, <2>1, <2>2, <2>3, <2>4
<1>6. ASSUME left # {} PROVE pc'[j] \in Changing /\ work'[j].todo = left
  <2>1. /\ pc' = [pc EXCEPT ![j] = AfterCompare(left, work[j].gone)]
        /\ work' = [work EXCEPT ![j].todo = left]
    BY <1>3, <1>6 DEF Goto
  <2> HIDE DEF left
  <2>2. QED
    BY <1>1, <1>6, <2>1 DEF AfterCompare, Changing, Inv, TypeOK, WorkType
<1> HIDE DEF left
<1>7. QED
  BY <1>1, <1>2, <1>4, <1>5, <1>6

\* What the next state says of a push, by what its last step was.
LEMMA ArrivedBy ==
  ASSUME Inv, Loaded, [Next]_vars, NEW j \in Push, Based', UNCHANGED sent,
         \A i \in PushOnly(j) :
            (pc'[j] \in Changing /\ i \in work'[j].todo) \/ Live'[i] \in Versions(i)
  PROVE  /\ pc'[j] = "done" => Based' /\ \A i \in PushOnly(j)' : Live'[i] \in Versions(i)'
         /\ pc'[j] \in Changing => \A i \in PushOnly(j)' :
                                     i \in work'[j].todo \/ Live'[i] \in Versions(i)'
<1>1. \A i \in Id : Versions(i)' = Versions(i) /\ (Claimed(i)' <=> Claimed(i))
  BY DEF Versions, Claimed
<1>2. PushOnly(j)' = PushOnly(j) /\ PushOnly(j) \subseteq Id
  BY <1>1 DEF PushOnly, Has
<1>3. QED
  BY <1>1, <1>2 DEF Changing

LEMMA PushErases ==
  ASSUME Inv, Loaded, Placed, Arrived, Furnished, name = "default", [Next]_vars,
         NEW j \in Push, Erase(j)
  PROVE  /\ UNCHANGED sent /\ Based /\ Based'
         /\ \A i \in PushOnly(j) : Live'[i] \in Versions(i)
<1>1. j \in Job /\ j \in Pusher /\ j # Boot /\ UNCHANGED sent /\ Full
  BY JobsAssumption, DefaultIsFull DEF Erase, Job, Pusher
<1>2. pc[j] = "erasing" /\ (Based => Based')
  BY <1>1, EraseLive
<1>3. Based
  BY <1>1, <1>2, Turns DEF Placed, Running
<1>4. work[j].todo = {}
  BY <1>1, <1>2 DEF Loaded, Loads, Load, Listed
<1>5. ASSUME NEW i \in PushOnly(j) PROVE Live'[i] \in Versions(i)
  <2>1. i \in PushId /\ i \notin FileId \cup OracleId /\ ~Claimed(i)
    BY <1>1, PushIds DEF PushOnly
  <2>2. Live[i] \in Versions(i)
    BY <1>2, <1>4 DEF Arrived, Changing
  <2>3. Live'[i] \in Versions(i)'
    BY <1>1, <1>3, <2>1, <2>2, VersionStays
  <2>4. QED
    BY <1>1, <2>3 DEF Versions
<1>6. QED
  BY <1>1, <1>2, <1>3, <1>5

\* The other steps of a push end neither in a success nor with points to write.
LEMMA PushElse ==
  ASSUME Inv, Loaded, Placed, Full, NEW j \in Push,
         Submit(j) \/ Step(j) \/ Raise(j) \/ Lost(j), ~(Compare(j) \/ Write(j) \/ Erase(j))
  PROVE  pc'[j] \notin {"done"} \cup Changing
<1>1. j \in Job /\ j \in Pusher /\ j # Boot /\ j \notin Fetch /\ pc \in [Job -> Place]
  BY JobsAssumption DEF Job, Pusher, Inv, TypeOK
<1>2. CASE Submit(j) \/ Take(j) \/ Resolve(j) \/ Look(j)
  BY <1>1, <1>2 DEF Submit, Take, Resolve, Look, Goto, Changing
<1>3. CASE Vanished(j) \/ Raise(j) \/ Lost(j)
  BY <1>1, <1>3 DEF Vanished, Raise, Lost, Retry, Finish, Goto, Changing
<1>4. ~FetchOracle(j)
  BY <1>1 DEF FetchOracle
<1>5. ~Create(j) /\ ~Fill(j) /\ ~ReadAlias(j) /\ ~Swap(j)
  BY <1>1, Builds DEF Create, Fill, ReadAlias, Swap, Building
<1>6. QED
  BY <1>1, <1>2, <1>3, <1>4, <1>5, NoDrop DEF Step

\* A push that another step passes by.
LEMMA PushPassed ==
  ASSUME Inv, Loaded, Placed, Arrived, Furnished, name = "default", [Next]_vars,
         NEW j \in Push, pc'[j] = pc[j], work'[j] = work[j]
  PROVE  /\ pc'[j] = "done" => Based' /\ (\A i \in PushOnly(j)' : Live'[i] \in Versions(i)')
         /\ pc'[j] \in Changing => \A i \in PushOnly(j)' :
                                     i \in work'[j].todo \/ Live'[i] \in Versions(i)'
<1>1. j \in Job /\ j \in Pusher /\ j # Boot /\ Full
  BY JobsAssumption, DefaultIsFull DEF Job, Pusher
<1> SUFFICES ASSUME pc[j] \in {"done"} \cup Changing
             PROVE  /\ pc'[j] = "done" => Based' /\ (\A i \in PushOnly(j)' : Live'[i] \in Versions(i)')
                    /\ pc'[j] \in Changing => \A i \in PushOnly(j)' :
                                     i \in work'[j].todo \/ Live'[i] \in Versions(i)'
  OBVIOUS
<1>2. PushOnly(j)' \subseteq PushOnly(j)
  <2>1. sent'[j] = sent[j]
    BY <1>1, SentStays DEF Changing
  <2>2. \A i \in Id : Claimed(i) => Claimed(i)'
    BY VersionsGrow DEF Growing, Claimed
  <2>3. QED
    BY <2>1, <2>2 DEF PushOnly, Has
<1>3. Based
  <2>1. CASE pc[j] = "done"
    BY <2>1 DEF Arrived
  <2>2. CASE pc[j] \in Changing
    BY <1>1, <2>2, Turns DEF Placed, Running, Changing
  <2>3. QED
    BY <2>1, <2>2
<1>4. Based'
  BY <1>1, <1>3, LiveStep
<1>5. ASSUME NEW i \in PushOnly(j), Live[i] \in Versions(i)
      PROVE  Live'[i] \in Versions(i)'
  <2>1. i \in PushId /\ i \notin FileId \cup OracleId /\ ~Claimed(i)
    BY <1>1, PushIds DEF PushOnly
  <2>2. QED
    BY <1>1, <1>3, <1>5, <2>1, VersionStays
<1>6. ASSUME pc[j] = "done", NEW i \in PushOnly(j)' PROVE Live'[i] \in Versions(i)'
  BY <1>2, <1>5, <1>6 DEF Arrived
<1>7. ASSUME pc[j] \in Changing, NEW i \in PushOnly(j)'
      PROVE  i \in work'[j].todo \/ Live'[i] \in Versions(i)'
  BY <1>2, <1>5, <1>7 DEF Arrived
<1>8. QED
  BY <1>4, <1>6, <1>7

LEMMA InitArrived == Init => Arrived
<1> SUFFICES ASSUME Init, NEW j \in Push
             PROVE  pc[j] \notin {"done"} \cup Changing
  BY DEF Arrived
<1>1. pc[j] = "idle"
  BY JobsAssumption DEF Init, Job, Pusher
<1>2. QED
  BY <1>1 DEF Changing

LEMMA NameStays == ASSUME [Next]_vars PROVE name' = name
<1>1. CASE \E j \in Job : Submit(j) \/ Raise(j) \/ Lost(j)
  BY <1>1 DEF Submit, Raise, Lost, world
<1>2. CASE Beat \/ Restart \/ EditOracle \/ UNCHANGED vars
  BY <1>2 DEF Beat, Restart, EditOracle, vars, world
<1>3. CASE \E j \in Job : Step(j)
  BY <1>3 DEF Step, Take, FetchOracle, Resolve, Look, Compare, Write, Erase, Create, Fill,
              ReadAlias, Swap, DropOld, Vanished, world
<1>4. QED
  BY <1>1, <1>2, <1>3 DEF Next

LEMMA NextArrived == Inv /\ Loaded /\ Placed /\ Arrived /\ [Next]_vars => Arrived'
<1> SUFFICES ASSUME Inv, Loaded, Placed, Arrived, [Next]_vars, Furnished, name' = "default",
                    NEW j \in Push
             PROVE  /\ pc'[j] = "done" => Based' /\ (\A i \in PushOnly(j)' : Live'[i] \in Versions(i)')
                    /\ pc'[j] \in Changing => \A i \in PushOnly(j)' :
                                     i \in work'[j].todo \/ Live'[i] \in Versions(i)'
  BY DEF Arrived
<1>1. name = "default" /\ Full /\ j \in Job
  BY NameStays, DefaultIsFull DEF Job, Pusher
<1>2. CASE Compare(j)
  <2>1. /\ Live' = Live /\ UNCHANGED sent /\ Based'
        /\ \A i \in PushOnly(j) :
              \/ pc'[j] \in Changing /\ i \in work'[j].todo
              \/ Live[i] \in Versions(i)
    BY <1>1, <1>2, PushCompares
  <2>2. QED
    BY <2>1, ArrivedBy
<1>3. CASE Write(j)
  BY <1>1, <1>3, PushWrites, ArrivedBy
<1>4. CASE Erase(j)
  BY <1>1, <1>4, PushErases, ArrivedBy
<1>5. CASE (Submit(j) \/ Step(j) \/ Raise(j) \/ Lost(j)) /\ ~(Compare(j) \/ Write(j) \/ Erase(j))
  BY <1>1, <1>5, PushElse
<1>6. ASSUME NEW k \in Job, k # j, Submit(k) \/ Step(k) \/ Raise(k) \/ Lost(k)
      PROVE  pc'[j] = pc[j] /\ work'[j] = work[j]
  BY <1>1, <1>6, Elsewhere
<1>7. CASE Beat
  <2>1. \E k \in Fetch : pc[k] = "idle"
    BY <1>7 DEF Beat
  <2>2. PICK k \in Fetch : pc' = [pc EXCEPT ![k] = "queued"] /\ UNCHANGED work
    BY <1>7, <2>1 DEF Beat, Goto
  <2>3. pc'[j] = pc[j] /\ work'[j] = work[j]
    BY <1>1, <2>2, JobsAssumption DEF Inv, TypeOK, Pusher
  <2>4. QED
    BY <1>1, <2>3, PushPassed
<1>8. CASE Restart
  <2>1. j # Boot
    BY JobsAssumption DEF Pusher
  <2>2. pc'[j] = IF pc[j] \in Running THEN "queued" ELSE pc[j]
    BY <1>1, <1>8, <2>1 DEF Restart
  <2>3. CASE pc[j] \in Running
    BY <2>2, <2>3 DEF Changing
  <2>4. CASE pc[j] \notin Running
    <3>1. work[j] = Blank
      BY <1>1, <2>4 DEF Loaded, Loads, Load, Listed
    <3>2. pc'[j] = pc[j] /\ work'[j] = work[j]
      BY <1>1, <1>8, <2>1, <2>2, <2>4, <3>1 DEF Restart
    <3>3. QED
      BY <1>1, <3>2, PushPassed
  <2>5. QED
    BY <2>3, <2>4
<1>9. CASE EditOracle \/ UNCHANGED vars
  BY <1>1, <1>9, PushPassed DEF EditOracle, vars
<1>10. QED
  BY <1>1, <1>2, <1>3, <1>4, <1>5, <1>6, <1>7, <1>8, <1>9, PushPassed DEF Next

LEMMA Arrival == Spec => []Arrived
<1>1. Init => Arrived
  BY InitArrived
<1>2. (Inv /\ Loaded /\ Placed /\ Reconciled) /\ Arrived /\ [Next]_vars => Arrived'
  BY NextArrived
<1>3. QED
  BY <1>1, <1>2, Reconciliation, PTL DEF Spec

LEMMA PushIsDefault ==
  ASSUME Inv, Loaded, NEW j \in Push, pc[j] = "done"
  PROVE  name = "default"
BY DEF Inv, TypeOK, Loaded, Stored

\* faq_sync_task on the default name: a document of a push that reported
\* success stays in the index in a version that a push sent, whatever fetches,
\* pushes, errors, kills and restarts follow; if no push stamped it with the
\* source of another job and every image has FAQ entries.
THEOREM PushesStay == ASSUME Furnished PROVE Spec => []PushedStays
<1>1. (Inv /\ Loaded /\ Placed /\ Reconciled) /\ Arrived => PushedStays
  BY PushIsDefault DEF Arrived, PushedStays
<1>2. QED
  BY <1>1, Reconciliation, Arrival, PTL
=============================================================================
