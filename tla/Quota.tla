------------------------------- MODULE Quota -------------------------------
(***************************************************************************)
(* The monthly token quota of one user: a counter in Redis per month, read *)
(* before each turn (api/tstation/chat_message.py) and increased after it  *)
(* (chat_v3/service.py) by what the turn's LLM calls used.  Langfuse sees  *)
(* the same calls through the traces; reconcile_user_from_langfuse, run by *)
(* an operator, overwrites the counter with its total.  Requests of a user *)
(* are in different sessions, so that no lock orders them.                 *)
(***************************************************************************)
EXTENDS Naturals, FiniteSets

CONSTANTS
    Request,     \* requests of the user that can be under way together
    Limit,       \* MONTHLY_TOKEN_LIMIT
    MaxCost,     \* bound: tokens of one turn
    MaxSpent,    \* bound: tokens of a month at which no turn is begun
    MaxMonth     \* bound: months

ASSUME QuotaAssumption ==
    /\ IsFiniteSet(Request)
    /\ Limit \in Nat \ {0} /\ {MaxCost, MaxSpent, MaxMonth} \subseteq Nat

Month == 0..MaxMonth

VARIABLES
    month,     \* of the clock, in KST
    used,      \* the counter of each month's key
    spent,     \* what Langfuse has of each month
    exempt,    \* the user is in quota:tokens:exempt-users
    pc,        \* where each request is
    cost,      \* usage_tracker.total_tokens of a turn that has ended
    since,     \* the month in which its tokens were used
    total,     \* of a reconciliation under way: what Langfuse answered
    counted,   \* ghost: turns that may be in that answer and have not charged
    asked,     \* ghost: the month it asked for
    loose,     \* ghost: months with an exemption or a reconciliation
    raced,     \* ghost: months whose reconciliation met a turn or a new month
    uncharged, \* ghost: tokens of each month that were never charged to it
    carried    \* ghost: tokens charged to each month that are of an earlier one

turns == <<pc, cost, since>>
reconciliation == <<total, counted, asked>>
ghosts == <<loose, raced, uncharged, carried>>
vars == <<month, used, spent, exempt, turns, reconciliation, ghosts>>

Nobody == MaxMonth + 1      \* no reconciliation is under way

Init ==
    /\ month = 0 /\ exempt = FALSE
    /\ used = [m \in Month |-> 0] /\ spent = [m \in Month |-> 0]
    /\ pc = [r \in Request |-> "idle"]
    /\ cost = [r \in Request |-> 0] /\ since = [r \in Request |-> 0]
    /\ total = 0 /\ counted = {} /\ asked = Nobody
    /\ loose = {} /\ raced = {}
    /\ uncharged = [m \in Month |-> 0] /\ carried = [m \in Month |-> 0]

Goto(r, place) == pc' = [pc EXCEPT ![r] = place]
Add(counter, m, n) == [counter EXCEPT ![m] = @ + n]

-----------------------------------------------------------------------------
(* The gate.                                                                *)

\* is_quota_exempt; a Redis error counts as "not exempt".
CheckExempt(r) ==
    /\ pc[r] = "idle"
    /\ Goto(r, "checking") \/ (exempt /\ Goto(r, "running"))
    /\ UNCHANGED <<month, used, spent, exempt, cost, since, reconciliation, ghosts>>

\* Mutant: the limit itself still passes.
CheckCounterLate(r) ==
    /\ pc[r] = "checking"
    /\ Goto(r, "idle") \/ (used[month] <= Limit /\ Goto(r, "running"))
    /\ UNCHANGED <<month, used, spent, exempt, cost, since, reconciliation, ghosts>>

\* is_quota_exceeded: 429, or 500 on a Redis error, or the turn runs.
CheckCounter(r) ==
    /\ pc[r] = "checking"
    /\ Goto(r, "idle") \/ (used[month] < Limit /\ Goto(r, "running"))
    /\ UNCHANGED <<month, used, spent, exempt, cost, since, reconciliation, ghosts>>

-----------------------------------------------------------------------------
(* The turn.                                                                *)

\* Mutant: the tracker of a turn goes on from the total of the month.
SpendCumulated(r) ==
    /\ pc[r] = "running" /\ spent[month] < MaxSpent
    /\ \E n \in 0..MaxCost :
          /\ spent' = Add(spent, month, n)
          /\ cost' = [cost EXCEPT ![r] = spent[month] + n]
    /\ since' = [since EXCEPT ![r] = month]
    /\ Goto(r, "spent")
    /\ UNCHANGED <<month, used, exempt, reconciliation, ghosts>>

\* The LLM calls, traced as they are made; all of them in one month.
Spend(r) ==
    /\ pc[r] = "running" /\ spent[month] < MaxSpent
    /\ \E n \in 0..MaxCost :
          /\ spent' = Add(spent, month, n)
          /\ cost' = [cost EXCEPT ![r] = n]
    /\ since' = [since EXCEPT ![r] = month]
    /\ Goto(r, "spent")
    /\ UNCHANGED <<month, used, exempt, reconciliation, ghosts>>

\* A turn ends, having charged n tokens to the month it is then.
EndTurn(r, n) ==
    /\ Goto(r, "idle")
    /\ used' = Add(used, month, n)
    /\ counted' = counted \ {r}
    /\ LET late == since[r] # month
       IN  /\ uncharged' = IF late \/ n < cost[r]
                             THEN Add(uncharged, since[r], cost[r]) ELSE uncharged
           /\ carried' = IF late THEN Add(carried, month, n) ELSE carried
    /\ cost' = [cost EXCEPT ![r] = 0] /\ since' = [since EXCEPT ![r] = 0]
    /\ UNCHANGED <<month, spent, exempt, total, asked, loose, raced>>

\* Mutant: the estimate of the API layer is charged besides the real usage.
ChargeTwice(r) == pc[r] = "spent" /\ EndTurn(r, cost[r] + cost[r])

\* _record_real_usage.
Charge(r) == pc[r] = "spent" /\ EndTurn(r, cost[r])

\* The turn raised, its client left or aborted it, or Redis did not answer.
ChargeMissed(r) == pc[r] = "spent" /\ EndTurn(r, 0)

-----------------------------------------------------------------------------
(* The operator and the clock.                                              *)

\* reconcile_user_from_langfuse asks for the total of the month.  The bounds of
\* its query are Korean times that claim to be UTC: what was used in the first
\* nine hours of the month is not in the answer.
ReadReal ==
    /\ asked = Nobody
    /\ asked' = month /\ total' \in 0..spent[month]
    /\ counted' = {r \in Request : pc[r] = "spent" /\ since[r] = month}
    /\ UNCHANGED <<month, used, spent, exempt, turns, ghosts>>

\* It sets the counter of the month it is by then.
WriteReal ==
    /\ asked # Nobody
    /\ used' = [used EXCEPT ![month] = total]
    /\ loose' = loose \cup {month}
    /\ raced' = IF counted # {} \/ asked # month THEN raced \cup {month} ELSE raced
    /\ total' = 0 /\ counted' = {} /\ asked' = Nobody
    /\ UNCHANGED <<month, spent, exempt, turns, uncharged, carried>>

SetExempt ==
    /\ exempt' = ~exempt
    /\ loose' = loose \cup (IF exempt' THEN month..MaxMonth ELSE {})
    /\ UNCHANGED <<month, used, spent, turns, reconciliation, raced, uncharged, carried>>

NextMonth ==
    /\ month < MaxMonth /\ month' = month + 1
    /\ UNCHANGED <<used, spent, exempt, turns, reconciliation, ghosts>>

Next ==
    \/ \E r \in Request :
          \/ CheckExempt(r) \/ CheckCounter(r)
          \/ Spend(r) \/ Charge(r) \/ ChargeMissed(r)
    \/ ReadReal \/ WriteReal \/ SetExempt \/ NextMonth

Spec == Init /\ [][Next]_vars

-----------------------------------------------------------------------------
\* Every variable keeps its type; a turn costs no more than MaxCost.
TypeOK ==
    /\ month \in Month /\ exempt \in BOOLEAN
    /\ used \in [Month -> Nat] /\ spent \in [Month -> Nat]
    /\ pc \in [Request -> {"idle", "checking", "running", "spent"}]
    /\ cost \in [Request -> 0..MaxCost] /\ since \in [Request -> Month]
    /\ total \in Nat /\ counted \subseteq Request /\ asked \in Month \cup {Nobody}
    /\ loose \subseteq Month /\ raced \subseteq Month
    /\ uncharged \in [Month -> Nat] /\ carried \in [Month -> Nat]

\* Although the gate is a check before and a charge after, what a user really
\* spends in a month passes the limit by no more than one turn per request
\* under way, besides what turns of that month did not charge to it (they
\* failed, or ended in the next month).  An exemption, the operator's or one
\* that has just been withdrawn, and a reconciliation lift the bound.
OverrunBounded ==
    \A m \in Month \ loose :
        spent[m] <= Limit - 1 + MaxCost * Cardinality(Request) + uncharged[m]

\* A user is never charged for more than was used: a new month starts at zero
\* but for turns that began in the old one, and no turn is charged twice.  Only
\* a reconciliation that meets a turn under way (whose tokens it has counted
\* and which charges them again) or the end of the month can break this.
NoOvercharge ==
    \A m \in Month \ raced : used[m] <= spent[m] + carried[m]
=============================================================================
