------------------------------ MODULE FaqIndex ------------------------------
(***************************************************************************)
(* One index of the ingestion service: a name in Qdrant (an alias, or a    *)
(* collection of that name from before aliases) and the jobs that write    *)
(* the collection behind it.  The name is the default one, which all three *)
(* kinds of job write, or one that pushes give as collection_name.         *)
(*   push  - faq_sync_task: the documents of one POST /faq/sync, additive  *)
(*   fetch - faq_fetch_task: the Oracle table, every FAQ_SYNC_INTERVAL     *)
(*   Boot  - main.py: the two FAQ files of the image, before beat and      *)
(*           worker start (start.sh, set -e)                               *)
(* All three run _run_incremental_sync, which falls back to _run_ingestion *)
(* (a fresh collection, then the alias moves) when the name is unknown.    *)
(* The worker runs several jobs at once; one action is one call to Qdrant  *)
(* or to the shop's backend.                                               *)
(***************************************************************************)
EXTENDS Naturals, FiniteSets

CONSTANTS
    Push, Fetch, Boot,   \* the jobs; a fetch job is sent again by every beat
    Override,            \* the pushes that give a collection_name
    OracleId, FileId, PushId,  \* document ids (point ids) by origin
    Coll, Legacy,        \* collection names; Legacy is the alias's own name
    None,                \* no collection
    Absent,              \* no document of that id
    Tables,              \* states of the Oracle table
    FileSets,            \* contents of the two FAQ files, merged
    Pushes,              \* bodies of POST /faq/sync
    Limit,               \* _FAQ_FETCH_LIMIT: rows of one answer of the backend
    MaxRetries,          \* max_retries of the tasks
    MaxEdits,            \* bound: edits of the Oracle table
    MaxFaults            \* bound: errors, killed processes and restarts

Id == OracleId \cup FileId \cup PushId
Pusher == Push \cup Override
Job == Pusher \cup Fetch \cup {Boot}
Source == {"oracle", "file", "push", "unstamped"}
Docs == [Id -> [content : Nat, source : Source] \cup {Absent}]
Has(docs) == {i \in Id : docs[i] # Absent}

ASSUME JobsAssumption ==
    /\ Push \cap Override = {} /\ Pusher \cap Fetch = {}
    /\ Boot \notin Pusher \cup Fetch
ASSUME NamesAssumption ==
    /\ Legacy \in Coll /\ None \notin Coll \cup Docs
    /\ Absent \notin [content : Nat, source : Source]
ASSUME DocsAssumption ==
    /\ OracleId \cap (FileId \cup PushId) = {}
    /\ Tables \subseteq Docs /\ FileSets \subseteq Docs /\ Pushes \subseteq Docs
    /\ \A t \in Tables : /\ IsFiniteSet(Has(t))
                         /\ \A i \in Has(t) : i \in OracleId /\ t[i].source = "oracle"
    /\ \A f \in FileSets : \A i \in Has(f) : i \in FileId /\ f[i].source = "file"
    /\ \A p \in Pushes : \A i \in Has(p) :
          i \in PushId /\ p[i].source \in {"push", "oracle", "file"}
ASSUME BoundsAssumption ==
    {Limit, MaxRetries, MaxEdits, MaxFaults} \subseteq Nat

VARIABLES
    name,     \* "default" (QDRANT_COLLECTION_FAQ) or "override"
    counted,  \* what `total` of the backend's answer counts: "table" or "page"
    oracle,   \* the table behind tstation-be
    files,    \* faq_data.json and local_faq.json of the running image
    alias,    \* the collection the alias names, or None
    colls,    \* per collection its points, or None
    used,     \* collection names that were ever created
    pc,       \* where each job is
    sent,     \* the documents in the message of a push
    work,     \* the local variables of a running job
    tries,    \* self.request.retries
    edits, faults

store == <<alias, colls, used>>
world == <<name, counted, oracle, files>>
budget == <<edits, faults>>
vars == <<world, store, pc, sent, work, tries, budget>>

-----------------------------------------------------------------------------
NoDocs == [i \in Id |-> Absent]

\* merge_faq_documents: the overlay replaces a base document of the same id.
Over(overlay, base) ==
    [i \in Id |-> IF overlay[i] # Absent THEN overlay[i] ELSE base[i]]

\* What searches of the name find.
Live == LET c == IF alias # None THEN alias ELSE Legacy
        IN  IF colls[c] # None THEN colls[c] ELSE NoDocs

Running == {"resolving", "looking", "comparing", "writing",
            "erasing", "creating", "filling", "reading", "swapping", "dropping"}
Place == Running \cup {"idle", "queued", "done", "failed"}

Blank == [docs |-> NoDocs, scope |-> {}, live |-> None, todo |-> {},
          gone |-> {}, old |-> None]

Booted == pc[Boot] = "done"

Goto(j, place) == pc' = [pc EXCEPT ![j] = place]
\* The end of a run; a fetch is then free for the next beat.
Finish(j, place) ==
    /\ Goto(j, IF j \in Fetch THEN "idle" ELSE place)
    /\ work' = [work EXCEPT ![j] = Blank]

\* main.py reconciles the default name, and nothing when the files are empty.
BootPlace(f) == IF name = "default" /\ Has(f) # {} THEN "resolving" ELSE "done"
BootWork(f) ==
    IF name = "default" /\ Has(f) # {}
      THEN [Blank EXCEPT !.docs = f, !.scope = {"file"}] ELSE Blank

Init ==
    /\ name \in {"default", "override"} /\ counted \in {"table", "page"}
    /\ oracle \in Tables /\ files \in FileSets
    /\ name = "override" => oracle = (CHOOSE t \in Tables : TRUE) /\ counted = "table"
    /\ alias = None /\ used = {Legacy}
    /\ \E legacy \in BOOLEAN :
          colls = [c \in Coll |->
                     IF c = Legacy /\ legacy /\ name = "default"
                       THEN [i \in Id |-> IF oracle[i] = Absent THEN Absent
                               ELSE [oracle[i] EXCEPT !.source = "unstamped"]]
                       ELSE None]
    /\ pc = [j \in Job |-> IF j = Boot THEN BootPlace(files) ELSE "idle"]
    /\ work = [j \in Job |-> IF j = Boot THEN BootWork(files) ELSE Blank]
    /\ sent = [j \in Pusher |-> NoDocs]
    /\ tries = [j \in Job |-> 0]
    /\ edits = 0 /\ faults = 0

-----------------------------------------------------------------------------
(* Messages.                                                                *)

\* POST /faq/sync sends the documents to the queue.
Submit(j) ==
    /\ j \in IF name = "default" THEN Push ELSE Override
    /\ pc[j] = "idle"
    /\ \E p \in Pushes : sent' = [sent EXCEPT ![j] = p]
    /\ Goto(j, "queued")
    /\ UNCHANGED <<world, store, work, tries, budget>>

\* Celery beat sends the next fetch (which of the free ones does not matter).
Beat ==
    /\ name = "default" /\ Booted
    /\ \E k \in Fetch : pc[k] = "idle"
    /\ LET j == CHOOSE k \in Fetch : pc[k] = "idle"
       IN  Goto(j, "queued") /\ tries' = [tries EXCEPT ![j] = 0]
    /\ UNCHANGED <<world, store, work, sent, budget>>

Taken(j) == pc[j] = "queued" /\ Booted

\* A worker process takes a push.
Take(j) ==
    /\ j \in Pusher /\ Taken(j)
    /\ Goto(j, "resolving") /\ work' = [work EXCEPT ![j].docs = sent[j]]
    /\ UNCHANGED <<world, store, sent, tries, budget>>

-----------------------------------------------------------------------------
(* faq_fetch_task, up to the sync.                                          *)

\* Pages of Limit rows that the backend can answer with.
Pages == IF Cardinality(Has(oracle)) <= Limit THEN {Has(oracle)}
         ELSE {s \in SUBSET Has(oracle) : Cardinality(s) = Limit}

\* is_partial: the answer's `total` exceeds the rows that came with it.
Partial(page) ==
    LET total == IF counted = "table" THEN Cardinality(Has(oracle))
                                      ELSE Cardinality(page)
    IN  total > Cardinality(page)

\* Mutant: a partial answer still deletes what it does not show.
FetchOraclePartialOwns(j) ==
    /\ j \in Fetch /\ Taken(j)
    /\ \E page \in Pages :
          IF page = {} THEN Finish(j, "done")
          ELSE /\ Goto(j, "resolving")
               /\ work' = [work EXCEPT
                     ![j].docs = [i \in Id |-> IF i \in page THEN oracle[i] ELSE Absent],
                     ![j].scope = {"oracle"}]
    /\ UNCHANGED <<world, store, sent, tries, budget>>

\* A worker process takes a fetch and asks the backend.  No rows: nothing is
\* done.  An answer known to be partial does not delete.
FetchOracle(j) ==
    /\ j \in Fetch /\ Taken(j)
    /\ \E page \in Pages :
          IF page = {} THEN Finish(j, "done")
          ELSE /\ Goto(j, "resolving")
               /\ work' = [work EXCEPT
                     ![j].docs = [i \in Id |-> IF i \in page THEN oracle[i] ELSE Absent],
                     ![j].scope = IF Partial(page) THEN {} ELSE {"oracle"}]
    /\ UNCHANGED <<world, store, sent, tries, budget>>

-----------------------------------------------------------------------------
(* _run_incremental_sync.                                                   *)

\* get_alias_target.
Resolve(j) ==
    /\ pc[j] = "resolving"
    /\ IF alias = None
         THEN Goto(j, "looking") /\ UNCHANGED work
         ELSE Goto(j, "comparing") /\ work' = [work EXCEPT ![j].live = alias]
    /\ UNCHANGED <<world, store, sent, tries, budget>>

\* get_collections: a collection of that very name, or a full ingestion.
Look(j) ==
    /\ pc[j] = "looking"
    /\ IF colls[Legacy] # None
         THEN Goto(j, "comparing") /\ work' = [work EXCEPT ![j].live = Legacy]
         ELSE Goto(j, "creating") /\ UNCHANGED work
    /\ UNCHANGED <<world, store, sent, tries, budget>>

\* The incoming documents, the file overlays on top.
Incoming(j) == Over(files, work[j].docs)

\* Mutant: the source of a stored point is not compared.
ToUpsertByContent(incoming, points) ==
    {i \in Has(incoming) : points[i] = Absent
                           \/ points[i].content # incoming[i].content}

\* content_hash or source differ from the stored point.
ToUpsert(incoming, points) == {i \in Has(incoming) : points[i] # incoming[i]}

\* Mutant: a point is deleted whoever owns it.
ToDeleteAny(incoming, points, scope) ==
    {i \in Has(points) : incoming[i] = Absent /\ scope # {}}

\* Missing from the incoming documents, and owned by this sync.
ToDelete(incoming, points, scope) ==
    {i \in Has(points) : incoming[i] = Absent /\ points[i].source \in scope}

\* Upserts first, then deletions.
AfterCompare(todo, gone) ==
    IF todo # {} THEN "writing" ELSE IF gone # {} THEN "erasing" ELSE "done"

\* Mutant: the FAQ files are not laid over the documents.
CompareBare(j) ==
    /\ pc[j] = "comparing" /\ colls[work[j].live] # None
    /\ LET points == colls[work[j].live]
           todo == ToUpsert(work[j].docs, points)
           gone == ToDelete(work[j].docs, points, work[j].scope)
       IN  IF todo \cup gone = {} THEN Finish(j, "done")
           ELSE /\ Goto(j, AfterCompare(todo, gone))
                /\ work' = [work EXCEPT ![j].todo = todo, ![j].gone = gone]
    /\ UNCHANGED <<world, store, sent, tries, budget>>

\* get_all_point_metadata, and the two lists of what to do.
Compare(j) ==
    /\ pc[j] = "comparing" /\ colls[work[j].live] # None
    /\ LET incoming == Incoming(j)
           points == colls[work[j].live]
           todo == ToUpsert(incoming, points)
           gone == ToDelete(incoming, points, work[j].scope)
       IN  IF todo \cup gone = {} THEN Finish(j, "done")
           ELSE /\ Goto(j, AfterCompare(todo, gone))
                /\ work' = [work EXCEPT ![j].docs = incoming,
                                        ![j].todo = todo, ![j].gone = gone]
    /\ UNCHANGED <<world, store, sent, tries, budget>>

\* upsert_multi_vector: one batch, here any of those that are left.
Upsert(j, batch) ==
    colls' = [colls EXCEPT ![work[j].live] =
                 [i \in Id |-> IF i \in batch THEN work[j].docs[i] ELSE @[i]]]

Write(j) ==
    /\ pc[j] = "writing" /\ colls[work[j].live] # None
    /\ \E batch \in SUBSET work[j].todo \ {{}} :
          LET left == work[j].todo \ batch
          IN  /\ Upsert(j, batch)
              /\ IF left \cup work[j].gone = {} THEN Finish(j, "done")
                 ELSE /\ Goto(j, AfterCompare(left, work[j].gone))
                      /\ work' = [work EXCEPT ![j].todo = left]
    /\ UNCHANGED <<world, alias, used, sent, tries, budget>>

\* delete_points, by id: the source is not looked at again.
Erase(j) ==
    /\ pc[j] = "erasing" /\ colls[work[j].live] # None
    /\ colls' = [colls EXCEPT ![work[j].live] =
                    [i \in Id |-> IF i \in work[j].gone THEN Absent ELSE @[i]]]
    /\ Finish(j, "done")
    /\ UNCHANGED <<world, alias, used, sent, tries, budget>>

-----------------------------------------------------------------------------
(* _run_ingestion.                                                          *)

\* A new collection under a name nobody has used.
Create(j) ==
    /\ pc[j] = "creating"
    /\ \E c \in Coll \ used :
          /\ colls' = [colls EXCEPT ![c] = NoDocs]
          /\ used' = used \cup {c}
          /\ work' = [work EXCEPT ![j].docs = Incoming(j), ![j].live = c,
                                  ![j].todo = Has(Incoming(j))]
    /\ Goto(j, "filling")
    /\ UNCHANGED <<world, alias, sent, tries, budget>>

Fill(j) ==
    /\ pc[j] = "filling"
    /\ \E batch \in SUBSET work[j].todo \ {{}} :
          LET left == work[j].todo \ batch
          IN  /\ Upsert(j, batch)
              /\ work' = [work EXCEPT ![j].todo = left]
              /\ Goto(j, IF left = {} THEN "reading" ELSE "filling")
    /\ UNCHANGED <<world, alias, used, sent, tries, budget>>

\* swap_alias, first: which collection does the alias name now?
ReadAlias(j) ==
    /\ pc[j] = "reading"
    /\ Goto(j, "swapping") /\ work' = [work EXCEPT ![j].old = alias]
    /\ UNCHANGED <<world, store, sent, tries, budget>>

\* Mutant: the collection to drop is the one that has just become live.
SwapForgetsOld(j) ==
    /\ pc[j] = "swapping"
    /\ alias' = work[j].live
    /\ IF work[j].old = None THEN Finish(j, "done")
       ELSE Goto(j, "dropping") /\ work' = [work EXCEPT ![j].old = work[j].live]
    /\ UNCHANGED <<world, colls, used, sent, tries, budget>>

\* swap_alias, then: one atomic update moves the alias.
Swap(j) ==
    /\ pc[j] = "swapping"
    /\ alias' = work[j].live
    /\ IF work[j].old = None THEN Finish(j, "done")
                             ELSE Goto(j, "dropping") /\ UNCHANGED work
    /\ UNCHANGED <<world, colls, used, sent, tries, budget>>

\* The collection that the alias named before goes.
DropOld(j) ==
    /\ pc[j] = "dropping"
    /\ colls' = [colls EXCEPT ![work[j].old] = None]
    /\ Finish(j, "done")
    /\ UNCHANGED <<world, alias, used, sent, tries, budget>>

-----------------------------------------------------------------------------
(* What goes wrong.                                                         *)

\* A job raised.  Celery sends a push or a fetch again, MaxRetries times; a
\* failed start-up ends the container, which is started again.
Retry(j) ==
    IF j = Boot
      THEN /\ Goto(j, BootPlace(files)) /\ UNCHANGED tries
           /\ work' = [work EXCEPT ![j] = BootWork(files)]
      ELSE /\ Finish(j, IF tries[j] < MaxRetries THEN "queued" ELSE "failed")
           /\ tries' = [tries EXCEPT ![j] = IF @ < MaxRetries THEN @ + 1 ELSE @]

\* Its collection is not there any more.
Vanished(j) ==
    /\ pc[j] \in {"comparing", "writing", "erasing"}
    /\ colls[work[j].live] = None
    /\ Retry(j)
    /\ UNCHANGED <<world, store, sent, budget>>

\* Qdrant, OpenAI or the backend answers with an error.
Raise(j) ==
    /\ faults < MaxFaults /\ faults' = faults + 1
    /\ pc[j] \in Running \/ Taken(j)
    /\ Retry(j)
    /\ UNCHANGED <<world, store, sent, edits>>

\* The process of the task is killed (out of memory): Celery acknowledges.
Lost(j) ==
    /\ faults < MaxFaults /\ faults' = faults + 1
    /\ j # Boot /\ pc[j] \in Running
    /\ Finish(j, "failed")
    /\ UNCHANGED <<world, store, sent, tries, edits>>

\* The container is replaced, by one with other files or the same: unfinished
\* tasks are delivered again (task_acks_late), once start-up is through.
Restart ==
    /\ faults < MaxFaults /\ faults' = faults + 1
    /\ files' \in FileSets
    /\ pc' = [j \in Job |-> IF j = Boot THEN BootPlace(files')
                            ELSE IF pc[j] \in Running THEN "queued" ELSE pc[j]]
    /\ work' = [j \in Job |-> IF j = Boot THEN BootWork(files') ELSE Blank]
    /\ UNCHANGED <<name, counted, oracle, store, sent, tries, edits>>

\* Somebody edits the FAQs in Oracle (of no concern to another name).
EditOracle ==
    /\ name = "default"
    /\ edits < MaxEdits /\ edits' = edits + 1
    /\ oracle' \in Tables \ {oracle}
    /\ UNCHANGED <<name, counted, files, store, pc, sent, work, tries, faults>>

-----------------------------------------------------------------------------
\* One step of a running job.
Step(j) ==
    \/ Take(j) \/ FetchOracle(j) \/ Resolve(j) \/ Look(j) \/ Compare(j)
    \/ Write(j) \/ Erase(j) \/ Create(j) \/ Fill(j) \/ ReadAlias(j) \/ Swap(j)
    \/ DropOld(j) \/ Vanished(j)

Next ==
    \/ \E j \in Job : Submit(j) \/ Step(j) \/ Raise(j) \/ Lost(j)
    \/ Beat \/ Restart \/ EditOracle

Spec == Init /\ [][Next]_vars

\* Beat never stops, and start-up and the fetches go on: some one of them that
\* can, so that one fetch may wait for ever while others run.  Nothing is
\* assumed of the pushes.
Fairness ==
    /\ WF_vars(\E j \in Fetch \cup {Boot} : Step(j))
    /\ WF_vars(Beat)

FairSpec == Spec /\ Fairness

-----------------------------------------------------------------------------
WorkType ==
    [docs : Docs, scope : SUBSET Source, live : Coll \cup {None},
     todo : SUBSET Id, gone : SUBSET Id, old : Coll \cup {None}]

\* Every variable keeps its type; no task is sent more than MaxRetries times
\* again.
TypeOK ==
    /\ name \in {"default", "override"} /\ counted \in {"table", "page"}
    /\ oracle \in Tables /\ files \in FileSets
    /\ alias \in Coll \cup {None} /\ colls \in [Coll -> Docs \cup {None}]
    /\ used \subseteq Coll
    /\ pc \in [Job -> Place] /\ sent \in [Pusher -> Docs]
    /\ work \in [Job -> WorkType] /\ tries \in [Job -> 0..MaxRetries]
    /\ edits \in Nat /\ faults \in Nat

\* The alias never names a collection that was deleted, however many full
\* ingestions swap it and drop what each of them replaced.
LiveCollectionStands == alias # None => colls[alias] # None

\* The versions of document i that the pushes so far sent.
Versions(i) == {sent[k][i] : k \in Pusher} \ {Absent}

\* A push said of i that another job owns it: metadata.source is the client's.
Claimed(i) == \E v \in Versions(i) : v.source # "push"

\* The documents of push j that belong to the pushes alone.
PushOnly(j) == {i \in Has(sent[j]) \ FileId : ~Claimed(i)}

\* While the worker runs, the documents of the two FAQ files of its image are
\* in the index as they are, no push and no fetch overwrites or deletes one,
\* and none of an earlier image is left.  (What else calls itself a document
\* of the files is what a push sent under that source.  An image whose files
\* are both empty reconciles nothing and leaves the old entries.)
FilePartIsTheFiles ==
    name = "default" /\ Booted /\ Has(files) # {} =>
        \A i \in Id :
            /\ files[i] # Absent => Live[i] = files[i]
            /\ Live[i] # Absent /\ Live[i].source = "file" =>
                 Live[i] = files[i] \/ Live[i] \in Versions(i)

\* A document of a push to the default name that succeeded stays in the
\* index, in the version of one of the pushes, whatever fetches, restarts and
\* pushes follow.  (An id that the FAQ files use belongs to the files, and a
\* document that a push gave the source of another job is that job's.)
PushedStays ==
    \A j \in Push : pc[j] = "done" => \A i \in PushOnly(j) : Live[i] \in Versions(i)

\* The docstring of sync_faq (api/tstation/faq_sync.py), which holds for
\* every collection_name: a push is purely additive, documents absent from it
\* are left alone.
PushIsAdditive ==
    \A j \in Pusher : pc[j] = "done" =>
        \A i \in Has(sent[j]) \ FileId : Live[i] \in Versions(i)

\* As long as nobody edits the Oracle table, no row of it leaves the index,
\* although one answer of the backend may show only Limit rows - if the
\* backend's `total` counts the table.  Where it counts the rows of the answer,
\* only a table that one answer shows is safe.
RowsStay ==
    [][edits' = 0 /\ (counted = "table" \/ Cardinality(Has(oracle)) <= Limit) =>
         \A i \in Has(oracle) : Live[i] # Absent => Live'[i] # Absent]_vars

\* When the table is edited no more, and one answer can show it, its rows
\* become the Oracle part of the index and stay it: a fetch that overlaps
\* another, fails or is killed is made good by a later one.
IndexConverges ==
    <>[](/\ name = "default" /\ Has(oracle) # {}
         /\ Cardinality(Has(oracle)) <= Limit
         =>
            \A i \in Id : IF oracle[i] # Absent THEN Live[i] = oracle[i]
                          ELSE Live[i] = Absent \/ Live[i].source # "oracle")
=============================================================================
