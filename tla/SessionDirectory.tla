-------------------------- MODULE SessionDirectory --------------------------
(***************************************************************************)
(* The sessions of one user as ChatHistoryService keeps them in Redis: the *)
(* set of session ids chat:user_sessions, a hash chat:meta per session     *)
(* that names its owner, and the messages chat:tmpl.  Requests create,     *)
(* write, list and delete sessions with one Redis command (or one MULTI    *)
(* pipeline) at a time; no lock covers them.                               *)
(*                                                                         *)
(* A session id that belongs to somebody else makes the code take a fresh  *)
(* one, which is a request for another session here.                       *)
(***************************************************************************)
EXTENDS Naturals, FiniteSets

CONSTANTS
    Proc,       \* requests in flight; each serves one after the other
    Session,    \* session ids
    MaxCrashes  \* bound: requests that die half way

ASSUME MaxCrashesAssumption == MaxCrashes \in Nat

VARIABLES
    listed,    \* the set of the user's session ids
    meta,      \* per session: "none", "partial" (no user_id) or "owned"
    messages,  \* sessions that have messages
    at,        \* where each request is
    sid,       \* the session it is about
    found,     \* list_sessions: what it read, then the orphans among it
    crashes,
    raced      \* history variable: sessions that were created while an
               \* orphan cleanup or a deletion was about to unlist them

redis == <<listed, meta, messages>>
request == <<at, sid, found>>
vars == <<redis, request, crashes, raced>>

Creating == {"adding", "describing"}
Unlisting == {"cleaning", "unlisting"}
Places == {"idle", "writing", "reading", "deleting", "removing"} \cup Creating \cup Unlisting

Goto(p, place) == at' = [at EXCEPT ![p] = place]
About(p, s) == sid' = [sid EXCEPT ![p] = s]

\* A request that will take s out of the set.
WillUnlist(p, s) ==
    \/ at[p] = "cleaning" /\ s \in found[p]
    \/ at[p] = "unlisting" /\ sid[p] = s

Racing ==
    {s \in Session : \E p, q \in Proc :
        at[p] \in Creating /\ sid[p] = s /\ WillUnlist(q, s)}

Race == raced' = raced \cup Racing'

Init ==
    /\ listed = {} /\ meta = [s \in Session |-> "none"] /\ messages = {}
    /\ at = [p \in Proc |-> "idle"] /\ sid \in [Proc -> Session]
    /\ found = [p \in Proc |-> {}]
    /\ crashes = 0 /\ raced = {}

-----------------------------------------------------------------------------
(* get_or_create_session_id and the writes of a turn.  Append and quick     *)
(* order check the owner and write, which is Look at an owned session.      *)

\* Mutant: a session that has metadata is not added to the set.
LookForMeta(p, s) ==
    /\ at[p] = "idle"
    /\ About(p, s)
    /\ Goto(p, CASE meta[s] = "owned" -> "writing"
                 [] meta[s] = "partial" -> "describing"
                 [] OTHER -> "adding")
    /\ UNCHANGED <<redis, found, crashes>>
    /\ Race

\* HGET user_id: the session is the user's, or it is made.
Look(p, s) ==
    /\ at[p] = "idle"
    /\ About(p, s)
    /\ Goto(p, IF meta[s] = "owned" THEN "writing" ELSE "adding")
    /\ UNCHANGED <<redis, found, crashes>>
    /\ Race

\* SADD
Add(p) ==
    /\ at[p] = "adding"
    /\ listed' = listed \cup {sid[p]}
    /\ Goto(p, "describing")
    /\ UNCHANGED <<meta, messages, sid, found, crashes, raced>>

\* HSET
Describe(p) ==
    /\ at[p] = "describing"
    /\ meta' = [meta EXCEPT ![sid[p]] = "owned"]
    /\ Goto(p, "writing")
    /\ UNCHANGED <<listed, messages, sid, found, crashes, raced>>

\* Writing a field brings back a hash that is gone, without its owner.
Touched(s) == [meta EXCEPT ![s] = IF @ = "none" THEN "partial" ELSE @]

\* save_message: the message and two fields of the hash in one pipeline.
SaveMessage(p) ==
    /\ at[p] = "writing"
    /\ messages' = messages \cup {sid[p]}
    /\ meta' = Touched(sid[p])
    /\ UNCHANGED <<listed, request, crashes, raced>>

\* save_slots and finalize_chat_context write fields of the hash only.
SaveContext(p) ==
    /\ at[p] = "writing"
    /\ meta' = Touched(sid[p])
    /\ UNCHANGED <<listed, messages, request, crashes, raced>>

EndTurn(p) ==
    /\ at[p] = "writing"
    /\ Goto(p, "idle")
    /\ UNCHANGED <<redis, sid, found, crashes, raced>>

-----------------------------------------------------------------------------
(* list_sessions.                                                           *)

\* SMEMBERS
List(p) ==
    /\ at[p] = "idle"
    /\ found' = [found EXCEPT ![p] = listed]
    /\ Goto(p, IF listed = {} THEN "idle" ELSE "reading")
    /\ UNCHANGED <<redis, sid, crashes, raced>>

\* HGETALL of every member in one pipeline: those without metadata are orphans.
Orphans(p) == {s \in found[p] : meta[s] = "none"}

Read(p) ==
    /\ at[p] = "reading"
    /\ found' = [found EXCEPT ![p] = Orphans(p)]
    /\ Goto(p, IF Orphans(p) = {} THEN "idle" ELSE "cleaning")
    /\ UNCHANGED <<redis, sid, crashes>>
    /\ Race

\* Mutant: the orphans are found and forgotten.
CleanNothing(p) ==
    /\ at[p] = "cleaning"
    /\ found' = [found EXCEPT ![p] = {}]
    /\ Goto(p, "idle")
    /\ UNCHANGED <<redis, sid, crashes, raced>>

\* SREM
Clean(p) ==
    /\ at[p] = "cleaning"
    /\ listed' = listed \ found[p]
    /\ found' = [found EXCEPT ![p] = {}]
    /\ Goto(p, "idle")
    /\ UNCHANGED <<meta, messages, sid, crashes, raced>>

-----------------------------------------------------------------------------
(* delete_session.                                                          *)

\* The endpoint checks the owner,
Delete(p, s) ==
    /\ at[p] = "idle" /\ meta[s] = "owned"
    /\ About(p, s)
    /\ Goto(p, "deleting")
    /\ UNCHANGED <<redis, found, crashes, raced>>

\* HGETALL reads the hash again: it may be gone by now, or have lost its owner,
Fetch(p) ==
    /\ at[p] = "deleting"
    /\ found' = [found EXCEPT ![p] = IF meta[sid[p]] = "owned" THEN {sid[p]} ELSE {}]
    /\ Goto(p, IF meta[sid[p]] = "none" THEN "idle" ELSE "removing")
    /\ UNCHANGED <<redis, sid, crashes, raced>>

\* Mutant: the messages are not among the deleted keys.
RemoveMetaOnly(p) ==
    /\ at[p] = "removing"
    /\ meta' = [meta EXCEPT ![sid[p]] = "none"]
    /\ found' = [found EXCEPT ![p] = {}]
    /\ Goto(p, IF found[p] = {} THEN "idle" ELSE "unlisting")
    /\ UNCHANGED <<listed, messages, sid, crashes>>
    /\ Race

\* DEL of the session's keys in one command; SREM follows if it had an owner.
Remove(p) ==
    /\ at[p] = "removing"
    /\ meta' = [meta EXCEPT ![sid[p]] = "none"]
    /\ messages' = messages \ {sid[p]}
    /\ found' = [found EXCEPT ![p] = {}]
    /\ Goto(p, IF found[p] = {} THEN "idle" ELSE "unlisting")
    /\ UNCHANGED <<listed, sid, crashes>>
    /\ Race

\* SREM
Unlist(p) ==
    /\ at[p] = "unlisting"
    /\ listed' = listed \ {sid[p]}
    /\ Goto(p, "idle")
    /\ UNCHANGED <<meta, messages, sid, found, crashes, raced>>

-----------------------------------------------------------------------------
(* Faults and time.                                                         *)

RequestDies(p) ==
    /\ at[p] # "idle" /\ crashes < MaxCrashes
    /\ crashes' = crashes + 1
    /\ Goto(p, "idle")
    /\ found' = [found EXCEPT ![p] = {}]
    /\ UNCHANGED <<redis, sid, raced>>

\* A week without a write of the session; its place in the set stays, because
\* other sessions refresh the set.  No request about it lasts that long.
Busy(p, s) ==
    \/ at[p] \in Creating \cup {"writing", "deleting", "removing"} /\ sid[p] = s
    \/ WillUnlist(p, s)

SessionExpires(s) ==
    /\ meta[s] # "none" /\ \A p \in Proc : ~Busy(p, s)
    /\ meta' = [meta EXCEPT ![s] = "none"]
    /\ messages' = messages \ {s}
    /\ UNCHANGED <<listed, request, crashes, raced>>

-----------------------------------------------------------------------------
Turn(p) == Add(p) \/ Describe(p) \/ SaveMessage(p) \/ SaveContext(p) \/ EndTurn(p)
Listing(p) == Read(p) \/ Clean(p)
Deletion(p) == Fetch(p) \/ Remove(p) \/ Unlist(p)

Next ==
    \/ \E p \in Proc :
          \/ \E s \in Session : Look(p, s) \/ Delete(p, s)
          \/ Turn(p) \/ List(p) \/ Listing(p) \/ Deletion(p) \/ RequestDies(p)
    \/ \E s \in Session : SessionExpires(s)

Spec == Init /\ [][Next]_vars

\* Every request makes its next step unless its worker dies, turns end, and the
\* user opens the session list again and again.
FairSpec ==
    /\ Spec
    /\ \A p \in Proc :
          /\ WF_vars(Add(p) \/ Describe(p) \/ EndTurn(p))
          /\ WF_vars(Listing(p) \/ Deletion(p))
          /\ SF_vars(List(p))

-----------------------------------------------------------------------------
(* Properties.                                                              *)

\* Every variable keeps its type.
TypeOK ==
    /\ listed \subseteq Session /\ messages \subseteq Session
    /\ meta \in [Session -> {"none", "partial", "owned"}]
    /\ at \in [Proc -> Places] /\ sid \in [Proc -> Session]
    /\ found \in [Proc -> SUBSET Session]
    /\ crashes \in 0 .. MaxCrashes /\ raced \subseteq Session

\* A session of the user is in the list, whatever creations, deletions, orphan
\* cleanups, crashes and expiries came before, unless it was created while an
\* orphan cleanup or a deletion of the same id was about to unlist it.
UnlistedOnlyByRace ==
    \A s \in Session : meta[s] = "owned" => s \in listed \/ s \in raced

\* Messages never outlive the hash that delete_session looks for first: what is
\* stored, even after a deletion, can be deleted or expires with the hash.
MessagesHaveMeta == \A s \in messages : meta[s] # "none"

\* An id without a session, left by a crash or an expiry, leaves the list when
\* the user keeps opening it, or becomes a session again.
OrphansGo ==
    \A s \in Session :
        s \in listed /\ meta[s] = "none" ~> s \notin listed \/ meta[s] # "none"

=============================================================================
