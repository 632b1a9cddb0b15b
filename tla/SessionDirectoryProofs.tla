----------------------- MODULE SessionDirectoryProofs -----------------------
(***************************************************************************)
(* For any number of requests, sessions and crashes: a session missing     *)
(* from its user's list was created against an unlisting of the same id,   *)
(* and messages are never stored without the session's hash.               *)
(***************************************************************************)
EXTENDS SessionDirectory, TLAPS

\* A creation and an unlisting of one id in flight at once are noted.
RacesNoted == Racing \subseteq raced

\* Between SADD and HSET the id stays in the set.
AddedFirst ==
    \A p \in Proc : at[p] = "describing" => sid[p] \in listed \cup raced

\* Who will unlist a session found it without an owner, and nobody can have
\* made it again unnoticed.
UnlistsOrphans ==
    \A p \in Proc, s \in Session :
        WillUnlist(p, s) /\ meta[s] = "owned" => s \in raced

Inv == TypeOK /\ RacesNoted /\ AddedFirst /\ UnlistsOrphans /\ UnlistedOnlyByRace

-----------------------------------------------------------------------------
LEMMA InitTypeOK == Init => TypeOK
  BY MaxCrashesAssumption DEF Init, TypeOK, Places, Creating, Unlisting

LEMMA NextTypeOK == TypeOK /\ [Next]_vars => TypeOK'
<1> SUFFICES ASSUME TypeOK, [Next]_vars PROVE TypeOK'
  OBVIOUS
<1> USE DEF TypeOK, Goto, About, Places, Creating, Unlisting
<1>1. ASSUME NEW p \in Proc, NEW s \in Session, Look(p, s) PROVE TypeOK'
  BY <1>1 DEF Look, Race, Racing, redis
<1>2. ASSUME NEW p \in Proc, NEW s \in Session, Delete(p, s) PROVE TypeOK'
  BY <1>2 DEF Delete, redis
<1>3. ASSUME NEW p \in Proc, Add(p) PROVE TypeOK'
  BY <1>3 DEF Add
<1>4. ASSUME NEW p \in Proc, Describe(p) PROVE TypeOK'
  BY <1>4 DEF Describe
<1>5. ASSUME NEW p \in Proc, SaveMessage(p) PROVE TypeOK'
  BY <1>5 DEF SaveMessage, Touched, request
<1>6. ASSUME NEW p \in Proc, SaveContext(p) PROVE TypeOK'
  BY <1>6 DEF SaveContext, Touched, request
<1>7. ASSUME NEW p \in Proc, EndTurn(p) PROVE TypeOK'
  BY <1>7 DEF EndTurn, redis
<1>8. ASSUME NEW p \in Proc, List(p) PROVE TypeOK'
  BY <1>8 DEF List, redis
<1>9. ASSUME NEW p \in Proc, Read(p) PROVE TypeOK'
  BY <1>9 DEF Read, Orphans, Race, Racing, redis
<1>10. ASSUME NEW p \in Proc, Clean(p) PROVE TypeOK'
  BY <1>10 DEF Clean
<1>11. ASSUME NEW p \in Proc, Fetch(p) PROVE TypeOK'
  BY <1>11 DEF Fetch, redis
<1>12. ASSUME NEW p \in Proc, Remove(p) PROVE TypeOK'
  BY <1>12 DEF Remove, Race, Racing
<1>13. ASSUME NEW p \in Proc, Unlist(p) PROVE TypeOK'
  BY <1>13 DEF Unlist
<1>14. ASSUME NEW p \in Proc, RequestDies(p) PROVE TypeOK'
  BY <1>14, MaxCrashesAssumption DEF RequestDies, redis
<1>15. ASSUME NEW s \in Session, SessionExpires(s) PROVE TypeOK'
  BY <1>15 DEF SessionExpires, request
<1>16. CASE UNCHANGED vars
  BY <1>16 DEF vars, redis, request
<1>17. QED
  BY <1>1, <1>2, <1>3, <1>4, <1>5, <1>6, <1>7, <1>8, <1>9, <1>10, <1>11, <1>12, <1>13,
     <1>14, <1>15, <1>16 DEF Next, Turn, Listing, Deletion

-----------------------------------------------------------------------------
LEMMA InitInv == Init => Inv
<1>1. Init => RacesNoted /\ AddedFirst /\ UnlistsOrphans /\ UnlistedOnlyByRace
  BY DEF Init, RacesNoted, Racing, WillUnlist, Creating, AddedFirst, UnlistsOrphans,
     UnlistedOnlyByRace
<1>2. QED
  BY <1>1, InitTypeOK DEF Inv

\* A step that sets no request creating or unlisting notes no new race.
LEMMA NoNewRace ==
  ASSUME RacesNoted, raced' = raced,
         \A p \in Proc : at'[p] \in Creating => at[p] \in Creating /\ sid'[p] = sid[p],
         \A p \in Proc, s \in Session : WillUnlist(p, s)' => WillUnlist(p, s)
  PROVE  RacesNoted'
  BY DEF RacesNoted, Racing

LEMMA NextInv == Inv /\ [Next]_vars => Inv'
<1> SUFFICES ASSUME Inv, [Next]_vars PROVE Inv'
  OBVIOUS
<1>0. TypeOK' /\ TypeOK /\ RacesNoted /\ AddedFirst /\ UnlistsOrphans /\ UnlistedOnlyByRace
  BY NextTypeOK DEF Inv
<1> DEFINE Rest == (RacesNoted /\ AddedFirst /\ UnlistsOrphans /\ UnlistedOnlyByRace)'
<1> USE <1>0 DEF TypeOK, Goto, About, AddedFirst, UnlistsOrphans, UnlistedOnlyByRace, WillUnlist
<1>1. ASSUME NEW p \in Proc, NEW s \in Session, Look(p, s) PROVE Rest
  BY <1>1 DEF Look, Race, RacesNoted, redis
<1>2. ASSUME NEW p \in Proc, NEW s \in Session, Delete(p, s) PROVE Rest
  BY <1>2, NoNewRace DEF Delete, redis, Creating
<1>3. ASSUME NEW p \in Proc, Add(p) PROVE Rest
  BY <1>3, NoNewRace DEF Add, Creating
<1>4. ASSUME NEW p \in Proc, Describe(p) PROVE Rest
  <2>1. \A q \in Proc : WillUnlist(q, sid[p]) => sid[p] \in raced
    BY <1>4 DEF Describe, RacesNoted, Racing, Creating
  <2>2. RacesNoted'
    BY <1>4, NoNewRace DEF Describe, Creating
  <2>3. QED
    BY <1>4, <2>1, <2>2 DEF Describe
<1>5. ASSUME NEW p \in Proc, SaveMessage(p) \/ SaveContext(p) PROVE Rest
  BY <1>5, NoNewRace DEF SaveMessage, SaveContext, Touched, request
<1>6. ASSUME NEW p \in Proc, EndTurn(p) PROVE Rest
  BY <1>6, NoNewRace DEF EndTurn, redis, Creating
<1>7. ASSUME NEW p \in Proc, List(p) PROVE Rest
  BY <1>7, NoNewRace DEF List, redis, Creating
<1>8. ASSUME NEW p \in Proc, Read(p) PROVE Rest
  BY <1>8 DEF Read, Orphans, Race, RacesNoted, redis
<1>9. ASSUME NEW p \in Proc, Clean(p) PROVE Rest
  <2>1. RacesNoted'
    BY <1>9, NoNewRace DEF Clean, Creating
  <2>2. ASSUME NEW q \in Proc, at[q] = "describing", sid[q] \in found[p] PROVE sid[q] \in raced
    BY <1>9, <2>2 DEF Clean, RacesNoted, Racing, Creating
  <2>3. QED
    BY <1>9, <2>1, <2>2 DEF Clean
<1>10. ASSUME NEW p \in Proc, Fetch(p) PROVE Rest
  BY <1>10, NoNewRace DEF Fetch, redis, Creating
<1>11. ASSUME NEW p \in Proc, Remove(p) PROVE Rest
  BY <1>11 DEF Remove, Race, RacesNoted
<1>12. ASSUME NEW p \in Proc, Unlist(p) PROVE Rest
  <2>1. RacesNoted'
    BY <1>12, NoNewRace DEF Unlist, Creating
  <2>2. ASSUME NEW q \in Proc, at[q] = "describing", sid[q] = sid[p] PROVE sid[q] \in raced
    BY <1>12, <2>2 DEF Unlist, RacesNoted, Racing, Creating
  <2>3. QED
    BY <1>12, <2>1, <2>2 DEF Unlist
<1>13. ASSUME NEW p \in Proc, RequestDies(p) PROVE Rest
  BY <1>13, NoNewRace DEF RequestDies, redis, Creating
<1>14. ASSUME NEW s \in Session, SessionExpires(s) PROVE Rest
  BY <1>14, NoNewRace DEF SessionExpires, request
<1>15. CASE UNCHANGED vars
  <2>1. UNCHANGED <<listed, meta, at, sid, found, raced>>
    BY <1>15 DEF vars, redis, request
  <2>2. RacesNoted'
    BY <2>1, NoNewRace
  <2>3. QED
    BY <2>1, <2>2 DEF Inv
<1>16. QED
  BY <1>1, <1>2, <1>3, <1>4, <1>5, <1>6, <1>7, <1>8, <1>9, <1>10, <1>11, <1>12, <1>13,
     <1>14, <1>15 DEF Next, Turn, Listing, Deletion, Inv

LEMMA MetaStays == TypeOK /\ MessagesHaveMeta /\ [Next]_vars => MessagesHaveMeta'
  BY DEF MessagesHaveMeta, TypeOK, Next, Turn, Listing, Deletion, Look, Delete, Add, Describe,
     SaveMessage, SaveContext, EndTurn, List, Read, Clean, Fetch, Remove, Unlist, RequestDies,
     SessionExpires, Touched, redis, request, vars

-----------------------------------------------------------------------------
\* Every variable keeps its type.
THEOREM TypeCorrect == Spec => []TypeOK
  BY InitTypeOK, NextTypeOK, PTL DEF Spec

\* Only a creation against an orphan cleanup or a deletion of the same id loses
\* a session from the list.
THEOREM OnlyRacesUnlist == Spec => []UnlistedOnlyByRace
<1>1. Inv => UnlistedOnlyByRace
  BY DEF Inv
<1>2. QED
  BY <1>1, InitInv, NextInv, PTL DEF Spec

\* What is stored of a session can be found by its deletion and its expiry.
THEOREM MessagesKeepMeta == Spec => []MessagesHaveMeta
<1>1. Init => MessagesHaveMeta
  BY DEF Init, MessagesHaveMeta
<1>2. QED
  BY <1>1, MetaStays, TypeCorrect, PTL DEF Spec
=============================================================================
