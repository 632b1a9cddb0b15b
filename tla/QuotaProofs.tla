---------------------------- MODULE QuotaProofs ----------------------------
(***************************************************************************)
(* The bounds of Quota for any number of requests, any limit, any costs of *)
(* turns and any number of months.  What relates the counter of a month to *)
(* what was really spent is the sum of the tokens of the turns that have   *)
(* not charged yet; the first part is about such sums.                     *)
(***************************************************************************)
EXTENDS Quota, TLAPS, FiniteSetTheorems

-----------------------------------------------------------------------------
(* Sums over the requests.                                                  *)

\* Induction, for a set of numbers.
LEMMA InductionOnNat ==
  ASSUME NEW S \in SUBSET Nat, 0 \in S, \A n \in S : n + 1 \in S
  PROVE  S = Nat
<1> DEFINE R == OpToRel(<, Nat)
           T == Nat \ S
<1>1. \A a, b \in Nat : a < b => <<a, b>> \in R
  BY DEF OpToRel
<1>2. SUFFICES ASSUME T # {} PROVE FALSE
  OBVIOUS
<1> HIDE DEF R
<1>3. PICK x \in T : \A y \in T : ~ (<<y, x>> \in R)
  <2>1. T \subseteq Nat
    OBVIOUS
  <2> HIDE DEF T
  <2>2. QED
    BY <1>2, <2>1, NatLessThanWellFounded, WFMin DEF R
<1>4. x \in Nat /\ x # 0 /\ x - 1 \in Nat
  OBVIOUS
<1>5. x - 1 \notin T
  <2>1. <<x - 1, x>> \in R
    BY <1>1, <1>4
  <2>2. QED
    BY <1>3, <2>1
<1>6. x - 1 \in S /\ (x - 1) + 1 = x
  BY <1>4, <1>5
<1>7. QED
  BY <1>3, <1>6

N == Cardinality(Request)
Order == CHOOSE b : b \in Bijection(1..N, Request)
\* The sums up to each place of the order.
Partial(w, n) ==
    {f \in [0..n -> Nat] : f[0] = 0 /\ \A i \in 1..n : f[i] = f[i - 1] + w[Order[i]]}
Total(w) == (CHOOSE f : f \in Partial(w, N))[N]
Weights == [Request -> Nat]

LEMMA OrderFacts ==
  /\ N \in Nat /\ Order \in [1..N -> Request]
  /\ \A i, j \in 1..N : Order[i] = Order[j] => i = j
  /\ \A r \in Request : \E i \in 1..N : Order[i] = r
<1>1. N \in Nat /\ ExistsBijection(1..N, Request)
  BY QuotaAssumption, FS_CardinalityType DEF N
<1>2. Order \in Bijection(1..N, Request)
  BY <1>1 DEF ExistsBijection, Order
<1>3. QED
  BY <1>1, <1>2 DEF Bijection, Injection, Surjection, IsInjective

LEMMA PartialExists ==
  ASSUME NEW w \in Weights
  PROVE  Partial(w, N) # {}
<1> DEFINE S == {n \in Nat : n <= N => Partial(w, n) # {}}
<1>0. N \in Nat /\ Order \in [1..N -> Request]
  BY OrderFacts
<1>1. 0 \in S
  <2>1. [i \in 0..0 |-> 0] \in Partial(w, 0)
    BY DEF Partial
  <2>2. QED
    BY <2>1
<1>2. ASSUME NEW n \in S PROVE n + 1 \in S
  <2> SUFFICES ASSUME n + 1 <= N PROVE Partial(w, n + 1) # {}
    OBVIOUS
  <2>1. PICK f : f \in Partial(w, n)
    BY <1>0
  <2> DEFINE g == [i \in 0..(n + 1) |-> IF i <= n THEN f[i] ELSE f[n] + w[Order[n + 1]]]
  <2>2. f \in [0..n -> Nat] /\ f[0] = 0
        /\ \A i \in 1..n : f[i] = f[i - 1] + w[Order[i]]
    BY <2>1 DEF Partial
  <2>3. w[Order[n + 1]] \in Nat /\ f[n] \in Nat
    <3>1. n + 1 \in 1..N
      BY <1>0
    <3>2. QED
      BY <1>0, <2>2, <3>1 DEF Weights
  <2>4. g \in [0..(n + 1) -> Nat]
    BY <2>2, <2>3
  <2>5. g[0] = 0
    BY <2>2
  <2>6. ASSUME NEW i \in 1..(n + 1) PROVE g[i] = g[i - 1] + w[Order[i]]
    <3>1. CASE i = n + 1
      BY <3>1
    <3>2. CASE i # n + 1
      <4>1. i \in 1..n /\ i - 1 \in 0..n
        BY <3>2
      <4>2. QED
        BY <2>2, <4>1
    <3>3. QED
      BY <3>1, <3>2
  <2> HIDE DEF g
  <2>7. g \in Partial(w, n + 1)
    BY <2>4, <2>5, <2>6 DEF Partial
  <2>8. QED
    BY <2>7
<1> HIDE DEF S
<1>3. S = Nat
  <2>1. S \in SUBSET Nat
    BY DEF S
  <2>2. QED
    BY <1>1, <1>2, <2>1, InductionOnNat
<1>4. QED
  BY <1>0, <1>3 DEF S

\* Pointwise order of the weights is order of the sums.
LEMMA PartialOrdered ==
  ASSUME NEW v \in Weights, NEW w \in Weights, \A r \in Request : v[r] <= w[r],
         NEW f \in Partial(v, N), NEW g \in Partial(w, N)
  PROVE  f[N] <= g[N]
<1> DEFINE S == {n \in Nat : n <= N => f[n] <= g[n]}
<1>0. N \in Nat /\ Order \in [1..N -> Request]
  BY OrderFacts
<1>1. /\ f \in [0..N -> Nat] /\ f[0] = 0
      /\ g \in [0..N -> Nat] /\ g[0] = 0
      /\ \A i \in 1..N : f[i] = f[i - 1] + v[Order[i]] /\ g[i] = g[i - 1] + w[Order[i]]
  BY DEF Partial
<1>2. 0 \in S
  BY <1>1
<1>3. ASSUME NEW n \in S PROVE n + 1 \in S
  <2> SUFFICES ASSUME n + 1 <= N PROVE f[n + 1] <= g[n + 1]
    OBVIOUS
  <2>1. n + 1 \in 1..N /\ n \in 0..N /\ (n + 1) - 1 = n /\ n <= N
    BY <1>0
  <2>2. f[n] <= g[n] /\ f[n] \in Nat /\ g[n] \in Nat
    BY <1>1, <2>1
  <2>3. Order[n + 1] \in Request
    BY <1>0, <2>1
  <2>4. v[Order[n + 1]] <= w[Order[n + 1]] /\ v[Order[n + 1]] \in Nat /\ w[Order[n + 1]] \in Nat
    BY <2>3 DEF Weights
  <2>5. f[n + 1] = f[n] + v[Order[n + 1]] /\ g[n + 1] = g[n] + w[Order[n + 1]]
    BY <1>1, <2>1
  <2>6. QED
    BY <2>2, <2>4, <2>5
<1> HIDE DEF S
<1>4. S = Nat
  <2>1. S \in SUBSET Nat
    BY DEF S
  <2>2. QED
    BY <1>2, <1>3, <2>1, InductionOnNat
<1>5. QED
  BY <1>0, <1>4 DEF S

LEMMA TotalOf ==
  ASSUME NEW w \in Weights
  PROVE  /\ Total(w) \in Nat
         /\ \A f \in Partial(w, N) : f[N] = Total(w)
<1> DEFINE c == CHOOSE f : f \in Partial(w, N)
<1>1. c \in Partial(w, N)
  BY PartialExists
<1>2. Total(w) = c[N]
  BY DEF Total
<1> HIDE DEF c
<1>3. N \in 0..N /\ N \in Nat
  BY OrderFacts
<1>4. \A f \in Partial(w, N) : f[N] \in Nat
  BY <1>3 DEF Partial
<1>5. \A r \in Request : w[r] <= w[r]
  BY DEF Weights
<1>6. ASSUME NEW f \in Partial(w, N) PROVE f[N] = c[N]
  <2>1. f[N] <= c[N] /\ c[N] <= f[N]
    BY <1>1, <1>5, PartialOrdered
  <2>2. QED
    BY <1>1, <1>4, <2>1
<1>7. QED
  BY <1>1, <1>2, <1>4, <1>6

LEMMA TotalOrdered ==
  ASSUME NEW v \in Weights, NEW w \in Weights, \A r \in Request : v[r] <= w[r]
  PROVE  Total(v) <= Total(w)
<1>1. PICK f : f \in Partial(v, N)
  BY PartialExists
<1>2. PICK g : g \in Partial(w, N)
  BY PartialExists
<1>3. f[N] <= g[N]
  BY <1>1, <1>2, PartialOrdered
<1>4. QED
  BY <1>1, <1>2, <1>3, TotalOf

\* Equal weights add up to their number times the weight.
LEMMA TotalConstant ==
  ASSUME NEW c \in Nat
  PROVE  Total([r \in Request |-> c]) = c * N
<1> DEFINE w == [r \in Request |-> c]
           f == [i \in 0..N |-> c * i]
<1>0. N \in Nat /\ Order \in [1..N -> Request]
  BY OrderFacts
<1>1. w \in Weights
  BY DEF Weights
<1>2. \A i \in Nat : c * i \in Nat
  OBVIOUS
<1>3. f \in [0..N -> Nat] /\ f[0] = 0
  BY <1>0, <1>2
<1>4. ASSUME NEW i \in 1..N PROVE f[i] = f[i - 1] + w[Order[i]]
  <2>1. c * i = c * (i - 1) + c
    BY <1>0
  <2>2. Order[i] \in Request
    BY <1>0
  <2>3. QED
    BY <1>0, <2>1, <2>2
<1>5. f[N] = c * N
  BY <1>0
<1> HIDE DEF f, w
<1>6. f \in Partial(w, N)
  BY <1>3, <1>4 DEF Partial
<1>7. Total(w) = c * N
  BY <1>1, <1>5, <1>6, TotalOf
<1>8. QED
  BY <1>7 DEF w

\* One weight changes, and the sum with it.
LEMMA TotalChanged ==
  ASSUME NEW w \in Weights, NEW r \in Request, NEW n \in Nat
  PROVE  /\ [w EXCEPT ![r] = n] \in Weights
         /\ Total([w EXCEPT ![r] = n]) + w[r] = Total(w) + n
<1> DEFINE v == [w EXCEPT ![r] = n]
<1>0. /\ N \in Nat /\ Order \in [1..N -> Request]
      /\ \A i, j \in 1..N : Order[i] = Order[j] => i = j
      /\ \A q \in Request : \E i \in 1..N : Order[i] = q
  BY OrderFacts
<1>1. v \in Weights /\ w[r] \in Nat
  BY DEF Weights
<1>2. PICK k \in 1..N : Order[k] = r
  BY <1>0
<1>3. PICK f : f \in Partial(w, N)
  BY PartialExists
<1>4. PICK g : g \in Partial(v, N)
  BY <1>1, PartialExists
<1>5. /\ f \in [0..N -> Nat] /\ f[0] = 0
      /\ g \in [0..N -> Nat] /\ g[0] = 0
      /\ \A i \in 1..N : f[i] = f[i - 1] + w[Order[i]] /\ g[i] = g[i - 1] + v[Order[i]]
  BY <1>3, <1>4 DEF Partial
<1>6. /\ \A i \in 1..N : i # k => v[Order[i]] = w[Order[i]]
      /\ v[Order[k]] = n /\ w[Order[k]] = w[r]
      /\ \A i \in 1..N : v[Order[i]] \in Nat /\ w[Order[i]] \in Nat
  BY <1>0, <1>1, <1>2 DEF Weights
<1> DEFINE S == {m \in Nat : m <= N => IF m < k THEN g[m] = f[m] ELSE g[m] + w[r] = f[m] + n}
<1>7. 0 \in S
  BY <1>5
<1>8. ASSUME NEW m \in S PROVE m + 1 \in S
  <2> SUFFICES ASSUME m + 1 <= N
               PROVE  IF m + 1 < k THEN g[m + 1] = f[m + 1]
                                   ELSE g[m + 1] + w[r] = f[m + 1] + n
    OBVIOUS
  <2>1. m + 1 \in 1..N /\ m \in 0..N /\ (m + 1) - 1 = m
    BY <1>0
  <2>2. f[m] \in Nat /\ g[m] \in Nat
    BY <1>5, <2>1
  <2>3. IF m < k THEN g[m] = f[m] ELSE g[m] + w[r] = f[m] + n
    BY <2>1
  <2>4. f[m + 1] = f[m] + w[Order[m + 1]] /\ g[m + 1] = g[m] + v[Order[m + 1]]
    BY <1>5, <2>1
  <2> HIDE DEF v, S
  <2>5. CASE m + 1 = k
    BY <1>1, <1>6, <2>1, <2>2, <2>3, <2>4, <2>5
  <2>6. CASE m + 1 # k
    BY <1>1, <1>6, <2>1, <2>2, <2>3, <2>4, <2>6
  <2>7. QED
    BY <2>5, <2>6
<1> HIDE DEF S
<1>9. S = Nat
  <2>1. S \in SUBSET Nat
    BY DEF S
  <2>2. QED
    BY <1>7, <1>8, <2>1, InductionOnNat
<1>10. g[N] + w[r] = f[N] + n
  BY <1>0, <1>9 DEF S
<1>11. g[N] = Total(v) /\ f[N] = Total(w)
  BY <1>1, <1>3, <1>4, TotalOf
<1>12. QED
  BY <1>1, <1>10, <1>11

-----------------------------------------------------------------------------
(* The invariant.                                                           *)

\* What each request has used of month m and not charged yet, how much of it
\* the answer of a reconciliation cannot have, and what it may still charge.
InFlight(m) ==
    [r \in Request |-> IF pc[r] = "spent" /\ since[r] = m THEN cost[r] ELSE 0]
Unread ==
    [r \in Request |-> IF pc[r] = "spent" /\ since[r] = asked /\ r \notin counted
                       THEN cost[r] ELSE 0]
Could ==
    [r \in Request |-> IF pc[r] = "running" THEN MaxCost
                       ELSE IF pc[r] = "spent" THEN cost[r] ELSE 0]

\* One turn of every request.
Cap == MaxCost * N

Charged ==
    \A m \in Month \ raced : used[m] + Total(InFlight(m)) <= spent[m] + carried[m]
Read ==
    asked # Nobody => total + Total(Unread) <= spent[asked]
Accounted ==
    \A m \in Month \ loose : spent[m] <= used[m] + uncharged[m] + Total(InFlight(m))
\* The gate: no request goes on unless the counter is below the limit.
Bounded ==
    month \notin loose => used[month] + Total(Could) <= (Limit - 1) + Cap
Past ==
    \A m \in Month \ loose : m < month => spent[m] <= (Limit - 1) + Cap + uncharged[m]
Future ==
    \A m \in Month : m > month => used[m] = 0 /\ spent[m] = 0
Exempted ==
    exempt => month..MaxMonth \subseteq loose

Inv == TypeOK /\ Charged /\ Read /\ Accounted /\ Bounded /\ Past /\ Future /\ Exempted

USE DEF turns, reconciliation, ghosts, vars

LEMMA Constants ==
  /\ Limit \in Nat /\ Limit - 1 \in Nat /\ MaxCost \in Nat /\ MaxSpent \in Nat
  /\ MaxMonth \in Nat /\ N \in Nat /\ Cap \in Nat
  /\ Nobody \notin Month
<1>1. N \in Nat
  BY OrderFacts
<1>2. MaxCost \in Nat /\ MaxMonth \in Nat /\ Limit \in Nat \ {0} /\ MaxSpent \in Nat
  BY QuotaAssumption
<1>3. Cap \in Nat
  BY <1>1, <1>2 DEF Cap
<1>4. QED
  BY <1>1, <1>2, <1>3 DEF Nobody, Month

\* The sums are numbers, and what is in flight is no more than what can come.
SumFacts ==
    /\ Unread \in Weights /\ Total(Unread) \in Nat
    /\ Could \in Weights /\ Total(Could) \in Nat /\ Total(Could) <= Cap
    /\ \A m \in Month : /\ InFlight(m) \in Weights /\ Total(InFlight(m)) \in Nat
                        /\ Total(InFlight(m)) <= Total(Could)

LEMMA Sums == TypeOK => SumFacts
<1> SUFFICES ASSUME TypeOK PROVE SumFacts
  OBVIOUS
<1>0. MaxCost \in Nat /\ N \in Nat
  BY Constants
<1>1. \A r \in Request : cost[r] \in 0..MaxCost /\ cost[r] \in Nat
  BY <1>0 DEF TypeOK
<1>2. Unread \in Weights
  BY <1>1 DEF Unread, Weights
<1>3. Could \in Weights
  BY <1>0, <1>1 DEF Could, Weights
<1>4. \A m \in Month : InFlight(m) \in Weights
  BY <1>1 DEF InFlight, Weights
<1>5. Total(Could) <= Cap
  <2> DEFINE all == [r \in Request |-> MaxCost]
  <2>1. all \in Weights /\ \A r \in Request : Could[r] <= all[r]
    BY <1>0, <1>1 DEF Could, Weights
  <2>2. Total(all) = Cap
    BY <1>0, TotalConstant DEF Cap
  <2> HIDE DEF all
  <2>3. QED
    BY <1>3, <2>1, <2>2, TotalOrdered
<1>6. ASSUME NEW m \in Month PROVE Total(InFlight(m)) <= Total(Could)
  <2>1. \A r \in Request : InFlight(m)[r] <= Could[r]
    BY <1>0, <1>1 DEF InFlight, Could
  <2>2. QED
    BY <1>3, <1>4, <2>1, TotalOrdered
<1>7. QED
  BY <1>2, <1>3, <1>4, <1>5, <1>6, TotalOf DEF SumFacts

LEMMA SumsNext == TypeOK' => SumFacts'
BY Sums, PTL

\* Only request r moves.
Alone(r) ==
    \A q \in Request \ {r} : pc'[q] = pc[q] /\ cost'[q] = cost[q] /\ since'[q] = since[q]

\* Then the sums change by what its weights change.
LEMMA OneMoves ==
  ASSUME TypeOK, TypeOK', NEW r \in Request, Alone(r)
  PROVE  /\ Total(Could') + Could[r] = Total(Could) + Could'[r]
         /\ \A m \in Month : Total(InFlight(m)') + InFlight(m)[r]
                             = Total(InFlight(m)) + InFlight(m)'[r]
         /\ Could[r] \in Nat /\ Could'[r] \in Nat
         /\ \A m \in Month : InFlight(m)[r] \in Nat /\ InFlight(m)'[r] \in Nat
<1>1. /\ Could \in Weights /\ Could' \in Weights
      /\ \A m \in Month : InFlight(m) \in Weights /\ InFlight(m)' \in Weights
  <2>1. \A q \in Request : cost[q] \in Nat /\ cost'[q] \in Nat
    BY Constants DEF TypeOK
  <2>2. QED
    BY <2>1, Constants DEF Could, InFlight, Weights
<1>2. Could' = [Could EXCEPT ![r] = Could'[r]]
  BY DEF Could, Alone
<1>3. \A m \in Month : InFlight(m)' = [InFlight(m) EXCEPT ![r] = InFlight(m)'[r]]
  BY DEF InFlight, Alone
<1>4. Could[r] \in Nat /\ Could'[r] \in Nat
  BY <1>1 DEF Weights
<1>5. \A m \in Month : InFlight(m)[r] \in Nat /\ InFlight(m)'[r] \in Nat
  BY <1>1 DEF Weights
<1>6. Total(Could') + Could[r] = Total(Could) + Could'[r]
  <2> DEFINE w == Could
             n == Could'[r]
             v == Could'
  <2>1. v = [w EXCEPT ![r] = n] /\ w \in Weights /\ n \in Nat
    BY <1>1, <1>2, <1>4
  <2> HIDE DEF w, n, v
  <2>2. Total(v) + w[r] = Total(w) + n
    BY <2>1, TotalChanged
  <2>3. QED
    BY <2>2 DEF w, n, v
<1>7. ASSUME NEW m \in Month
      PROVE  Total(InFlight(m)') + InFlight(m)[r] = Total(InFlight(m)) + InFlight(m)'[r]
  <2> DEFINE w == InFlight(m)
             n == InFlight(m)'[r]
             v == InFlight(m)'
  <2>1. v = [w EXCEPT ![r] = n] /\ w \in Weights /\ n \in Nat
    BY <1>1, <1>3, <1>5
  <2> HIDE DEF w, n, v
  <2>2. Total(v) + w[r] = Total(w) + n
    BY <2>1, TotalChanged
  <2>3. QED
    BY <2>2 DEF w, n, v
<1>8. QED
  BY <1>4, <1>5, <1>6, <1>7

LEMMA OneIsRead ==
  ASSUME TypeOK, TypeOK', NEW r \in Request, Alone(r),
         asked' = asked, \A q \in Request \ {r} : q \in counted' <=> q \in counted
  PROVE  /\ Total(Unread') + Unread[r] = Total(Unread) + Unread'[r]
         /\ Unread[r] \in Nat /\ Unread'[r] \in Nat
<1>1. Unread \in Weights /\ Unread' \in Weights
  <2>1. \A q \in Request : cost[q] \in Nat /\ cost'[q] \in Nat
    BY Constants DEF TypeOK
  <2>2. QED
    BY <2>1 DEF Unread, Weights
<1>2. Unread' = [Unread EXCEPT ![r] = Unread'[r]]
  BY DEF Unread, Alone
<1>3. Unread[r] \in Nat /\ Unread'[r] \in Nat
  BY <1>1 DEF Weights
<1> DEFINE w == Unread
           n == Unread'[r]
           v == Unread'
<1>4. v = [w EXCEPT ![r] = n] /\ w \in Weights /\ n \in Nat
  BY <1>1, <1>2, <1>3
<1> HIDE DEF w, n, v
<1>5. Total(v) + w[r] = Total(w) + n
  BY <1>4, TotalChanged
<1>6. QED
  BY <1>3, <1>5 DEF w, n, v

-----------------------------------------------------------------------------
(* The types.                                                               *)

LEMMA AddKeepsType ==
  ASSUME NEW c \in [Month -> Nat], NEW m \in Month, NEW n \in Nat
  PROVE  Add(c, m, n) \in [Month -> Nat]
BY DEF Add

LEMMA EndTurnKeepsType ==
  ASSUME TypeOK, NEW r \in Request, NEW n \in Nat, EndTurn(r, n)
  PROVE  TypeOK'
<1>1. used' = Add(used, month, n) /\ used' \in [Month -> Nat]
  BY AddKeepsType DEF TypeOK, EndTurn
<1>2. since[r] \in Month /\ cost[r] \in Nat /\ 0 \in Month /\ 0 \in 0..MaxCost
  BY Constants DEF TypeOK, Month
<1>3. uncharged' \in [Month -> Nat] /\ carried' \in [Month -> Nat]
  <2>1. uncharged' \in {uncharged, Add(uncharged, since[r], cost[r])}
        /\ carried' \in {carried, Add(carried, month, n)}
    BY DEF EndTurn
  <2>2. /\ Add(uncharged, since[r], cost[r]) \in [Month -> Nat]
        /\ Add(carried, month, n) \in [Month -> Nat]
    BY <1>2, AddKeepsType DEF TypeOK
  <2>3. QED
    BY <2>1, <2>2 DEF TypeOK
<1>4. cost' \in [Request -> 0..MaxCost] /\ since' \in [Request -> Month]
      /\ pc' \in [Request -> {"idle", "checking", "running", "spent"}]
  BY <1>2 DEF TypeOK, EndTurn, Goto
<1>5. QED
  BY <1>1, <1>3, <1>4 DEF TypeOK, EndTurn

LEMMA TypeKept == TypeOK /\ [Next]_vars => TypeOK'
<1> SUFFICES ASSUME TypeOK, [Next]_vars PROVE TypeOK'
  OBVIOUS
<1>1. ASSUME NEW r \in Request, CheckExempt(r) PROVE TypeOK'
  BY <1>1 DEF TypeOK, CheckExempt, Goto
<1>2. ASSUME NEW r \in Request, CheckCounter(r) PROVE TypeOK'
  BY <1>2 DEF TypeOK, CheckCounter, Goto
<1>3. ASSUME NEW r \in Request, Spend(r) PROVE TypeOK'
  <2>1. PICK n \in 0..MaxCost : spent' = Add(spent, month, n) /\ cost' = [cost EXCEPT ![r] = n]
    BY <1>3 DEF Spend
  <2>2. n \in Nat
    BY <2>1
  <2>3. spent' \in [Month -> Nat]
    BY <2>1, <2>2, AddKeepsType DEF TypeOK
  <2>4. QED
    BY <1>3, <2>1, <2>3 DEF TypeOK, Spend, Goto
<1>4. ASSUME NEW r \in Request, Charge(r) PROVE TypeOK'
  <2>1. cost[r] \in Nat
    BY Constants DEF TypeOK
  <2>2. QED
    BY <1>4, <2>1, EndTurnKeepsType DEF Charge
<1>5. ASSUME NEW r \in Request, ChargeMissed(r) PROVE TypeOK'
  BY <1>5, EndTurnKeepsType DEF ChargeMissed
<1>6. CASE ReadReal
  BY <1>6 DEF TypeOK, ReadReal
<1>7. CASE WriteReal
  BY <1>7 DEF TypeOK, WriteReal
<1>8. CASE SetExempt
  <2>1. month..MaxMonth \subseteq Month
    BY Constants DEF TypeOK, Month
  <2>2. QED
    BY <1>8, <2>1 DEF TypeOK, SetExempt
<1>9. CASE NextMonth
  <2>1. month + 1 \in Month
    BY <1>9, Constants DEF TypeOK, NextMonth, Month
  <2>2. QED
    BY <1>9, <2>1 DEF TypeOK, NextMonth
<1>10. CASE UNCHANGED vars
  BY <1>10 DEF TypeOK
<1>11. QED
  BY <1>1, <1>2, <1>3, <1>4, <1>5, <1>6, <1>7, <1>8, <1>9, <1>10 DEF Next

-----------------------------------------------------------------------------
(* Every step keeps the invariant.                                          *)

\* A request passes the gate only below the limit or exempt.
LEMMA GateKeeps ==
  ASSUME Inv, TypeOK', NEW r \in Request, CheckExempt(r) \/ CheckCounter(r)
  PROVE  Inv'
<1>0. /\ Limit \in Nat /\ Limit - 1 \in Nat /\ MaxCost \in Nat /\ Cap \in Nat
  BY Constants
<1>1. /\ UNCHANGED <<month, used, spent, exempt, cost, since, reconciliation, ghosts>>
      /\ pc[r] \in {"idle", "checking"} /\ pc'[r] \in {"idle", "checking", "running"}
      /\ \A q \in Request \ {r} : pc'[q] = pc[q]
      /\ pc'[r] = "running" => exempt \/ used[month] < Limit
  BY DEF CheckExempt, CheckCounter, Goto, Inv, TypeOK
<1>2. \A m \in Month : InFlight(m)' = InFlight(m)
  BY <1>1 DEF InFlight
<1>3. Unread' = Unread
  BY <1>1 DEF Unread
<1>4. Charged' /\ Read' /\ Accounted'
  BY <1>1, <1>2, <1>3 DEF Inv, Charged, Read, Accounted
<1>5. Past' /\ Future' /\ Exempted'
  BY <1>1 DEF Inv, Past, Future, Exempted
<1>6. Bounded'
  <2> SUFFICES ASSUME month \notin loose
               PROVE  used[month] + Total(Could') <= (Limit - 1) + Cap
    BY <1>1 DEF Bounded
  <2>1. used[month] \in Nat
    BY DEF Inv, TypeOK
  <2>2. CASE pc'[r] = "running"
    <3>1. month \in month..MaxMonth
      BY Constants DEF Inv, TypeOK, Month
    <3>2. used[month] <= Limit - 1
      BY <1>0, <1>1, <2>1, <2>2, <3>1 DEF Inv, Exempted
    <3>3. Total(Could') \in Nat /\ Total(Could') <= Cap
      BY SumsNext DEF SumFacts
    <3>4. QED
      BY <1>0, <2>1, <3>2, <3>3
  <2>3. CASE pc'[r] # "running"
    <3>1. Could' = Could
      BY <1>1, <2>3 DEF Could
    <3>2. QED
      BY <3>1 DEF Inv, Bounded
  <2>4. QED
    BY <2>2, <2>3
<1>7. QED
  BY <1>4, <1>5, <1>6 DEF Inv

\* A turn spends what it may still charge then.
LEMMA SpendKeeps ==
  ASSUME Inv, TypeOK', NEW r \in Request, Spend(r)
  PROVE  Inv'
<1>0. /\ Limit - 1 \in Nat /\ MaxCost \in Nat /\ Cap \in Nat
  BY Constants
<1>1. PICK n \in 0..MaxCost : spent' = Add(spent, month, n) /\ cost' = [cost EXCEPT ![r] = n]
  BY DEF Spend
<1>2. /\ UNCHANGED <<month, used, exempt, reconciliation, ghosts>>
      /\ pc[r] = "running" /\ pc' = [pc EXCEPT ![r] = "spent"]
      /\ since' = [since EXCEPT ![r] = month]
  BY DEF Spend, Goto
<1>3. n \in Nat /\ n <= MaxCost
  BY <1>0
<1>4. /\ month \in Month /\ used \in [Month -> Nat] /\ spent \in [Month -> Nat]
      /\ uncharged \in [Month -> Nat] /\ carried \in [Month -> Nat] /\ total \in Nat
      /\ asked \in Month \cup {Nobody}
  BY DEF Inv, TypeOK
<1>5. /\ spent'[month] = spent[month] + n
      /\ \A m \in Month : m # month => spent'[m] = spent[m]
  BY <1>1, <1>3, <1>4 DEF Add
<1>6. Alone(r)
  BY <1>1, <1>2 DEF Alone, Inv, TypeOK
<1>7. pc'[r] = "spent" /\ cost'[r] = n /\ since'[r] = month
  BY <1>1, <1>2 DEF Inv, TypeOK
<1>8. /\ Could[r] = MaxCost /\ Could'[r] = n
      /\ \A m \in Month : InFlight(m)[r] = 0 /\ InFlight(m)'[r] = IF m = month THEN n ELSE 0
      /\ Unread[r] = 0 /\ Unread'[r] \in {0, n} /\ (asked # month => Unread'[r] = 0)
  BY <1>2, <1>7 DEF Could, InFlight, Unread
<1>9. /\ Total(Could') + MaxCost = Total(Could) + n
      /\ \A m \in Month : Total(InFlight(m)') = Total(InFlight(m)) + (IF m = month THEN n ELSE 0)
      /\ Total(Unread') = Total(Unread) + Unread'[r]
      /\ Total(Could) \in Nat /\ Total(Could') \in Nat /\ Total(Unread) \in Nat /\ Total(Unread') \in Nat
      /\ \A m \in Month : Total(InFlight(m)) \in Nat /\ Total(InFlight(m)') \in Nat
  <2>1. SumFacts /\ SumFacts'
    BY Sums, SumsNext DEF Inv
  <2>2. /\ Total(Could) \in Nat /\ Total(Could') \in Nat /\ Total(Unread) \in Nat /\ Total(Unread') \in Nat
        /\ \A m \in Month : Total(InFlight(m)) \in Nat /\ Total(InFlight(m)') \in Nat
    BY <2>1 DEF SumFacts
  <2>3. TypeOK
    BY DEF Inv
  <2>4. /\ Total(Could') + Could[r] = Total(Could) + Could'[r]
        /\ \A m \in Month : Total(InFlight(m)') + InFlight(m)[r]
                             = Total(InFlight(m)) + InFlight(m)'[r]
    BY <1>6, <2>3, OneMoves
  <2>5. Total(Unread') + Unread[r] = Total(Unread) + Unread'[r]
    BY <1>2, <1>6, <2>3, OneIsRead
  <2>6. Total(Unread') = Total(Unread) + Unread'[r]
    BY <1>8, <2>2, <2>5
  <2>7. ASSUME NEW m \in Month
        PROVE  Total(InFlight(m)') = Total(InFlight(m)) + (IF m = month THEN n ELSE 0)
    BY <1>8, <2>2, <2>4
  <2>8. QED
    BY <1>8, <2>2, <2>4, <2>6, <2>7
<1>10. Charged'
  <2> SUFFICES ASSUME NEW m \in Month \ raced
               PROVE  used[m] + Total(InFlight(m)') <= spent'[m] + carried[m]
    BY <1>2 DEF Charged
  <2>1. used[m] + Total(InFlight(m)) <= spent[m] + carried[m]
    BY DEF Inv, Charged
  <2>2. QED
    BY <1>3, <1>4, <1>5, <1>9, <2>1
<1>11. Read'
  <2> SUFFICES ASSUME asked # Nobody PROVE total + Total(Unread') <= spent'[asked]
    BY <1>2 DEF Read
  <2>1. total + Total(Unread) <= spent[asked] /\ asked \in Month
    BY <1>4 DEF Inv, Read
  <2>2. QED
    BY <1>3, <1>4, <1>5, <1>8, <1>9, <2>1
<1>12. Accounted'
  <2> SUFFICES ASSUME NEW m \in Month \ loose
               PROVE  spent'[m] <= used[m] + uncharged[m] + Total(InFlight(m)')
    BY <1>2 DEF Accounted
  <2>1. spent[m] <= used[m] + uncharged[m] + Total(InFlight(m))
    BY DEF Inv, Accounted
  <2>2. QED
    BY <1>3, <1>4, <1>5, <1>9, <2>1
<1>13. Bounded'
  <2> SUFFICES ASSUME month \notin loose
               PROVE  used[month] + Total(Could') <= (Limit - 1) + Cap
    BY <1>2 DEF Bounded
  <2>1. used[month] + Total(Could) <= (Limit - 1) + Cap
    BY DEF Inv, Bounded
  <2>2. used[month] \in Nat
    BY <1>4
  <2>3. QED
    BY <1>0, <1>3, <1>9, <2>1, <2>2
<1>14. Past' /\ Future' /\ Exempted'
  <2>1. \A m \in Month : m > month \/ m < month => m # month
    BY <1>4, Constants DEF Month
  <2>2. Past'
    BY <1>2, <1>5, <2>1 DEF Inv, Past
  <2>3. Future'
    BY <1>2, <1>5, <2>1 DEF Inv, Future
  <2>4. QED
    BY <1>2, <2>2, <2>3 DEF Inv, Exempted
<1>15. QED
  BY <1>10, <1>11, <1>12, <1>13, <1>14 DEF Inv

\* A turn that ends has charged what it used to the month of its beginning, or
\* what it used is uncharged there.
LEMMA EndTurnKeeps ==
  ASSUME Inv, TypeOK', NEW r \in Request, pc[r] = "spent",
         NEW n \in {0, cost[r]}, EndTurn(r, n)
  PROVE  Inv'
<1>0. /\ Limit - 1 \in Nat /\ MaxCost \in Nat /\ Cap \in Nat
  BY Constants
<1>1. /\ month \in Month /\ used \in [Month -> Nat] /\ spent \in [Month -> Nat]
      /\ uncharged \in [Month -> Nat] /\ carried \in [Month -> Nat] /\ total \in Nat
      /\ asked \in Month \cup {Nobody} /\ cost[r] \in Nat /\ since[r] \in Month
  BY <1>0 DEF Inv, TypeOK
<1>2. n \in Nat /\ n <= cost[r]
  BY <1>1
<1>3. /\ UNCHANGED <<month, spent, exempt, total, asked, loose, raced>>
      /\ pc' = [pc EXCEPT ![r] = "idle"] /\ cost' = [cost EXCEPT ![r] = 0]
      /\ since' = [since EXCEPT ![r] = 0] /\ counted' = counted \ {r}
  BY DEF EndTurn, Goto
<1>4. /\ used'[month] = used[month] + n
      /\ \A m \in Month : m # month => used'[m] = used[m]
  <2>1. used' = Add(used, month, n)
    BY DEF EndTurn
  <2>2. QED
    BY <1>1, <1>2, <2>1 DEF Add
<1>5. /\ uncharged'[since[r]] = uncharged[since[r]]
                                + (IF since[r] # month \/ n < cost[r] THEN cost[r] ELSE 0)
      /\ \A m \in Month : m # since[r] => uncharged'[m] = uncharged[m]
  <2>1. CASE since[r] # month \/ n < cost[r]
    <3>1. uncharged' = Add(uncharged, since[r], cost[r])
      BY <2>1 DEF EndTurn
    <3>2. /\ Add(uncharged, since[r], cost[r])[since[r]] = uncharged[since[r]] + cost[r]
          /\ \A m \in Month : m # since[r] =>
                               Add(uncharged, since[r], cost[r])[m] = uncharged[m]
      BY <1>1 DEF Add
    <3>3. QED
      BY <2>1, <3>1, <3>2
  <2>2. CASE ~ (since[r] # month \/ n < cost[r])
    <3>1. uncharged' = uncharged
      BY <2>2 DEF EndTurn
    <3>2. uncharged[since[r]] \in Nat
      BY <1>1
    <3>3. QED
      BY <2>2, <3>1, <3>2
  <2>3. QED
    BY <2>1, <2>2
<1>6. /\ carried'[month] = carried[month] + (IF since[r] # month THEN n ELSE 0)
      /\ \A m \in Month : m # month => carried'[m] = carried[m]
  <2>1. CASE since[r] # month
    <3>1. carried' = Add(carried, month, n)
      BY <2>1 DEF EndTurn
    <3>2. QED
      BY <1>1, <1>2, <2>1, <3>1 DEF Add
  <2>2. CASE since[r] = month
    <3>1. carried' = carried
      BY <2>2 DEF EndTurn
    <3>2. carried[month] \in Nat
      BY <1>1
    <3>3. QED
      BY <2>2, <3>1, <3>2
  <2>3. QED
    BY <2>1, <2>2
<1>7. Alone(r)
  BY <1>3 DEF Alone, Inv, TypeOK
<1>8. pc'[r] = "idle"
  BY <1>3 DEF Inv, TypeOK
<1>9. /\ Could[r] = cost[r] /\ Could'[r] = 0
      /\ \A m \in Month : InFlight(m)[r] = (IF m = since[r] THEN cost[r] ELSE 0)
                          /\ InFlight(m)'[r] = 0
      /\ Unread'[r] = 0
  BY <1>8 DEF Could, InFlight, Unread
<1>10. /\ Total(Could') + cost[r] = Total(Could)
       /\ \A m \in Month : Total(InFlight(m)') + (IF m = since[r] THEN cost[r] ELSE 0)
                            = Total(InFlight(m))
       /\ Total(Unread') <= Total(Unread)
       /\ Total(Could) \in Nat /\ Total(Could') \in Nat /\ Total(Unread) \in Nat /\ Total(Unread') \in Nat
       /\ \A m \in Month : Total(InFlight(m)) \in Nat /\ Total(InFlight(m)') \in Nat
  <2>1. SumFacts /\ SumFacts'
    BY Sums, SumsNext DEF Inv
  <2>2. /\ Total(Could) \in Nat /\ Total(Could') \in Nat /\ Total(Unread) \in Nat /\ Total(Unread') \in Nat
        /\ \A m \in Month : Total(InFlight(m)) \in Nat /\ Total(InFlight(m)') \in Nat
    BY <2>1 DEF SumFacts
  <2>3. TypeOK
    BY DEF Inv
  <2>4. /\ Total(Could') + Could[r] = Total(Could) + Could'[r]
        /\ \A m \in Month : Total(InFlight(m)') + InFlight(m)[r]
                             = Total(InFlight(m)) + InFlight(m)'[r]
    BY <1>7, <2>3, OneMoves
  <2>5. Total(Unread') + Unread[r] = Total(Unread) + Unread'[r] /\ Unread[r] \in Nat
    BY <1>3, <1>7, <2>3, OneIsRead
  <2>6. Total(Unread') <= Total(Unread)
    BY <1>9, <2>2, <2>5
  <2>7. ASSUME NEW m \in Month
        PROVE  Total(InFlight(m)') + (IF m = since[r] THEN cost[r] ELSE 0)
               = Total(InFlight(m))
    BY <1>9, <2>2, <2>4
  <2>8. Total(Could') + cost[r] = Total(Could)
    BY <1>9, <2>2, <2>4
  <2>9. QED
    BY <2>2, <2>6, <2>7, <2>8
<1>11. Charged'
  <2> SUFFICES ASSUME NEW m \in Month \ raced
               PROVE  used'[m] + Total(InFlight(m)') <= spent[m] + carried'[m]
    BY <1>3 DEF Charged
  <2>1. used[m] + Total(InFlight(m)) <= spent[m] + carried[m]
    BY DEF Inv, Charged
  <2>2. /\ used[m] \in Nat /\ spent[m] \in Nat /\ carried[m] \in Nat
        /\ Total(InFlight(m)) \in Nat /\ Total(InFlight(m)') \in Nat
    BY <1>1, <1>10
  <2>3. Total(InFlight(m)') + (IF m = since[r] THEN cost[r] ELSE 0) = Total(InFlight(m))
    BY <1>10
  <2>4. CASE m = month
    BY <1>1, <1>2, <1>4, <1>6, <2>1, <2>2, <2>3, <2>4
  <2>5. CASE m # month
    BY <1>1, <1>2, <1>4, <1>6, <2>1, <2>2, <2>3, <2>5
  <2>6. QED
    BY <2>4, <2>5
<1>12. Read'
  <2> SUFFICES ASSUME asked # Nobody PROVE total + Total(Unread') <= spent[asked]
    BY <1>3 DEF Read
  <2>1. total + Total(Unread) <= spent[asked] /\ asked \in Month
    BY <1>1 DEF Inv, Read
  <2>2. spent[asked] \in Nat
    BY <1>1, <2>1
  <2>3. QED
    BY <1>1, <1>10, <2>1, <2>2
<1>13. \A m \in Month : /\ uncharged'[m] \in Nat /\ uncharged[m] \in Nat
                         /\ uncharged[m] <= uncharged'[m]
  <2> TAKE m \in Month
  <2>1. uncharged[m] \in Nat /\ uncharged'[m] \in Nat
    BY DEF Inv, TypeOK
  <2>2. QED
    BY <1>1, <1>5, <2>1
<1>14. Accounted'
  <2> SUFFICES ASSUME NEW m \in Month \ loose
               PROVE  spent[m] <= used'[m] + uncharged'[m] + Total(InFlight(m)')
    BY <1>3 DEF Accounted
  <2>1. spent[m] <= used[m] + uncharged[m] + Total(InFlight(m))
    BY DEF Inv, Accounted
  <2>2. /\ used[m] \in Nat /\ spent[m] \in Nat /\ uncharged[m] \in Nat /\ uncharged'[m] \in Nat
        /\ Total(InFlight(m)) \in Nat /\ Total(InFlight(m)') \in Nat
    BY <1>1, <1>10, <1>13
  <2>3. Total(InFlight(m)') + (IF m = since[r] THEN cost[r] ELSE 0) = Total(InFlight(m))
    BY <1>10
  <2>4. used'[m] = used[m] + (IF m = month THEN n ELSE 0)
    BY <1>4, <2>2
  <2>5. CASE m = since[r]
    BY <1>1, <1>2, <1>5, <2>1, <2>2, <2>3, <2>4, <2>5
  <2>6. CASE m # since[r]
    BY <1>1, <1>2, <1>5, <2>1, <2>2, <2>3, <2>4, <2>6
  <2>7. QED
    BY <2>5, <2>6
<1>15. Bounded'
  <2> SUFFICES ASSUME month \notin loose
               PROVE  used'[month] + Total(Could') <= (Limit - 1) + Cap
    BY <1>3 DEF Bounded
  <2>1. used[month] + Total(Could) <= (Limit - 1) + Cap
    BY DEF Inv, Bounded
  <2>2. used[month] \in Nat
    BY <1>1
  <2>3. QED
    BY <1>0, <1>1, <1>2, <1>4, <1>10, <2>1, <2>2
<1>16. Past'
  <2> SUFFICES ASSUME NEW m \in Month \ loose, m < month
               PROVE  spent[m] <= (Limit - 1) + Cap + uncharged'[m]
    BY <1>3 DEF Past
  <2>1. spent[m] <= (Limit - 1) + Cap + uncharged[m]
    BY DEF Inv, Past
  <2>2. spent[m] \in Nat /\ uncharged'[m] \in Nat /\ uncharged[m] \in Nat
        /\ uncharged[m] <= uncharged'[m]
    BY <1>1, <1>13
  <2>3. QED
    BY <1>0, <2>1, <2>2
<1>17. Future' /\ Exempted'
  <2>1. \A m \in Month : m > month => m # month
    BY <1>1, Constants DEF Month
  <2>2. QED
    BY <1>3, <1>4, <2>1 DEF Inv, Future, Exempted
<1>18. QED
  BY <1>11, <1>12, <1>14, <1>15, <1>16, <1>17 DEF Inv

LEMMA ReadRealKeeps ==
  ASSUME Inv, TypeOK', ReadReal
  PROVE  Inv'
<1>1. /\ asked' = month /\ total' \in 0..spent[month]
      /\ counted' = {r \in Request : pc[r] = "spent" /\ since[r] = month}
      /\ UNCHANGED <<month, used, spent, exempt, turns, ghosts>>
  BY DEF ReadReal
<1>2. Could' = Could /\ \A m \in Month : InFlight(m)' = InFlight(m)
  BY <1>1 DEF Could, InFlight
<1>3. Read'
  <2>1. Unread' = [r \in Request |-> 0]
    BY <1>1 DEF Unread
  <2>2. Total(Unread') = 0 * N
    BY <2>1, TotalConstant
  <2>3. Total(Unread') = 0 /\ spent[month] \in Nat
    BY <2>2, Constants DEF Inv, TypeOK
  <2>4. QED
    BY <1>1, <2>3 DEF Read
<1>4. QED
  BY <1>1, <1>2, <1>3 DEF Inv, Charged, Accounted, Bounded, Past, Future, Exempted

\* A reconciliation of the month it asked for that met no turn is right.
LEMMA WriteRealKeeps ==
  ASSUME Inv, TypeOK', WriteReal
  PROVE  Inv'
<1>1. /\ asked # Nobody /\ used' = [used EXCEPT ![month] = total]
      /\ loose' = loose \cup {month} /\ asked' = Nobody
      /\ raced' = IF counted # {} \/ asked # month THEN raced \cup {month} ELSE raced
      /\ UNCHANGED <<month, spent, exempt, turns, uncharged, carried>>
  BY DEF WriteReal
<1>2. /\ month \in Month /\ used \in [Month -> Nat] /\ total \in Nat
      /\ spent \in [Month -> Nat] /\ carried \in [Month -> Nat]
  BY DEF Inv, TypeOK
<1>3. Could' = Could /\ \A m \in Month : InFlight(m)' = InFlight(m)
  BY <1>1 DEF Could, InFlight
<1>4. /\ used'[month] = total
      /\ \A m \in Month : m # month => used'[m] = used[m]
  BY <1>1, <1>2
<1>5. Charged'
  <2> SUFFICES ASSUME NEW m \in Month \ raced'
               PROVE  used'[m] + Total(InFlight(m)) <= spent[m] + carried[m]
    BY <1>1, <1>3 DEF Charged
  <2>1. CASE m # month
    BY <1>1, <1>4, <2>1 DEF Inv, Charged
  <2>2. CASE m = month
    <3>1. counted = {} /\ asked = month
      BY <1>1, <2>2
    <3>2. Unread = InFlight(month)
      BY <3>1 DEF Unread, InFlight
    <3>3. total + Total(InFlight(month)) <= spent[month]
      BY <1>1, <3>1, <3>2 DEF Inv, Read
    <3>4. Total(InFlight(month)) \in Nat /\ spent[month] \in Nat /\ carried[month] \in Nat
      BY <1>2, Sums DEF SumFacts, Inv
    <3>5. QED
      BY <1>2, <1>4, <2>2, <3>3, <3>4
  <2>3. QED
    BY <2>1, <2>2
<1>6. Read'
  BY <1>1 DEF Read
<1>7. Accounted' /\ Past'
  BY <1>1, <1>3, <1>4 DEF Inv, Accounted, Past
<1>8. Bounded' /\ Exempted'
  BY <1>1 DEF Inv, Bounded, Exempted
<1>9. Future'
  <2>1. \A m \in Month : m > month => m # month
    BY <1>2, Constants DEF Month
  <2>2. QED
    BY <1>1, <1>4, <2>1 DEF Inv, Future
<1>10. QED
  BY <1>5, <1>6, <1>7, <1>8, <1>9 DEF Inv

LEMMA SetExemptKeeps ==
  ASSUME Inv, TypeOK', SetExempt
  PROVE  Inv'
<1>1. /\ loose \subseteq loose' /\ (exempt' => month..MaxMonth \subseteq loose')
      /\ UNCHANGED <<month, used, spent, turns, reconciliation, raced, uncharged, carried>>
  BY DEF SetExempt
<1>2. Could' = Could /\ Unread' = Unread /\ \A m \in Month : InFlight(m)' = InFlight(m)
  BY <1>1 DEF Could, Unread, InFlight
<1>3. QED
  BY <1>1, <1>2 DEF Inv, Charged, Read, Accounted, Bounded, Past, Future, Exempted

\* A month that ends was bounded, and the new one starts at zero.
LEMMA NextMonthKeeps ==
  ASSUME Inv, TypeOK', NextMonth
  PROVE  Inv'
<1>0. /\ Limit - 1 \in Nat /\ Cap \in Nat /\ MaxMonth \in Nat
  BY Constants
<1>1. /\ month < MaxMonth /\ month' = month + 1
      /\ UNCHANGED <<used, spent, exempt, turns, reconciliation, ghosts>>
  BY DEF NextMonth
<1>2. /\ month \in Month /\ month' \in Month /\ month' > month
      /\ used \in [Month -> Nat] /\ spent \in [Month -> Nat] /\ uncharged \in [Month -> Nat]
  <2>1. /\ month \in Month /\ used \in [Month -> Nat] /\ spent \in [Month -> Nat]
        /\ uncharged \in [Month -> Nat]
    BY DEF Inv, TypeOK
  <2>2. month' \in Month /\ month' > month
    BY <1>0, <1>1, <2>1 DEF Month
  <2>3. QED
    BY <2>1, <2>2
<1>3. Could' = Could /\ Unread' = Unread /\ \A m \in Month : InFlight(m)' = InFlight(m)
  BY <1>1 DEF Could, Unread, InFlight
<1>4. SumFacts
  BY Sums DEF Inv
<1>5. Charged' /\ Read' /\ Accounted'
  BY <1>1, <1>3 DEF Inv, Charged, Read, Accounted
<1>6. Bounded'
  <2>1. used[month'] = 0
    BY <1>2 DEF Inv, Future
  <2>2. Total(Could) \in Nat /\ Total(Could) <= Cap
    BY <1>4 DEF SumFacts
  <2>3. used[month'] + Total(Could) <= (Limit - 1) + Cap
    BY <1>0, <2>1, <2>2
  <2>4. QED
    BY <1>1, <1>3, <2>3 DEF Bounded
<1>7. Past'
  <2> SUFFICES ASSUME NEW m \in Month \ loose, m < month'
               PROVE  spent[m] <= (Limit - 1) + Cap + uncharged[m]
    BY <1>1 DEF Past
  <2>1. CASE m < month
    BY <2>1 DEF Inv, Past
  <2>2. CASE m = month
    <3>1. used[m] + Total(Could) <= (Limit - 1) + Cap
      BY <2>2 DEF Inv, Bounded
    <3>2. spent[m] <= used[m] + uncharged[m] + Total(InFlight(m))
      BY DEF Inv, Accounted
    <3>3. /\ Total(InFlight(m)) <= Total(Could)
          /\ Total(InFlight(m)) \in Nat /\ Total(Could) \in Nat
      BY <1>4 DEF SumFacts
    <3>4. used[m] \in Nat /\ spent[m] \in Nat /\ uncharged[m] \in Nat
      BY <1>2
    <3>5. QED
      BY <1>0, <3>1, <3>2, <3>3, <3>4
  <2>3. m < month \/ m = month
    BY <1>0, <1>1, <1>2 DEF Month
  <2>4. QED
    BY <2>1, <2>2, <2>3
<1>8. Future'
  <2>1. \A m \in Month : m > month' => m > month
    BY <1>0, <1>1, <1>2 DEF Month
  <2>2. QED
    BY <1>1, <2>1 DEF Inv, Future
<1>9. Exempted'
  <2>1. (month')..MaxMonth \subseteq month..MaxMonth
    BY <1>0, <1>1, <1>2 DEF Month
  <2>2. QED
    BY <1>1, <2>1 DEF Inv, Exempted
<1>10. QED
  BY <1>5, <1>6, <1>7, <1>8, <1>9 DEF Inv

LEMMA InvKept == Inv /\ [Next]_vars => Inv'
<1> SUFFICES ASSUME Inv, [Next]_vars PROVE Inv'
  OBVIOUS
<1>0. TypeOK'
  BY TypeKept DEF Inv
<1>1. ASSUME NEW r \in Request, CheckExempt(r) \/ CheckCounter(r) PROVE Inv'
  BY <1>0, <1>1, GateKeeps
<1>2. ASSUME NEW r \in Request, Spend(r) PROVE Inv'
  BY <1>0, <1>2, SpendKeeps
<1>3. ASSUME NEW r \in Request, Charge(r) \/ ChargeMissed(r) PROVE Inv'
  <2>1. pc[r] = "spent" /\ \E n \in {0, cost[r]} : EndTurn(r, n)
    BY <1>3 DEF Charge, ChargeMissed
  <2>2. QED
    BY <1>0, <2>1, EndTurnKeeps
<1>4. CASE ReadReal
  BY <1>0, <1>4, ReadRealKeeps
<1>5. CASE WriteReal
  BY <1>0, <1>5, WriteRealKeeps
<1>6. CASE SetExempt
  BY <1>0, <1>6, SetExemptKeeps
<1>7. CASE NextMonth
  BY <1>0, <1>7, NextMonthKeeps
<1>8. CASE UNCHANGED vars
  <2>1. Could' = Could /\ Unread' = Unread /\ \A m \in Month : InFlight(m)' = InFlight(m)
    BY <1>8 DEF Could, Unread, InFlight
  <2>2. QED
    BY <1>0, <1>8, <2>1
    DEF Inv, Charged, Read, Accounted, Bounded, Past, Future, Exempted
<1>9. QED
  BY <1>1, <1>2, <1>3, <1>4, <1>5, <1>6, <1>7, <1>8 DEF Next

LEMMA InvAtFirst == Init => Inv
<1> SUFFICES ASSUME Init PROVE Inv
  OBVIOUS
<1>0. /\ Limit - 1 \in Nat /\ MaxCost \in Nat /\ Cap \in Nat /\ MaxMonth \in Nat /\ N \in Nat
      /\ Nobody \notin Month
  BY Constants
<1>1. 0 \in Month
  BY <1>0 DEF Month
<1>2. TypeOK
  <2>1. [m \in Month |-> 0] \in [Month -> Nat]
    OBVIOUS
  <2>2. /\ [r \in Request |-> 0] \in [Request -> 0..MaxCost]
        /\ [r \in Request |-> 0] \in [Request -> Month]
        /\ [r \in Request |-> "idle"] \in [Request -> {"idle", "checking", "running", "spent"}]
    BY <1>0, <1>1
  <2>3. QED
    BY <1>1, <2>1, <2>2 DEF Init, TypeOK
<1>3. /\ Could = [r \in Request |-> 0] /\ Unread = [r \in Request |-> 0]
      /\ \A m \in Month : InFlight(m) = [r \in Request |-> 0]
  BY DEF Init, Could, Unread, InFlight
<1>4. Total([r \in Request |-> 0]) = 0
  <2>1. Total([r \in Request |-> 0]) = 0 * N
    BY TotalConstant
  <2>2. QED
    BY <1>0, <2>1
<1>5. Charged /\ Read /\ Accounted
  BY <1>3, <1>4 DEF Init, Charged, Read, Accounted
<1>6. Bounded
  BY <1>0, <1>1, <1>3, <1>4 DEF Init, Bounded
<1>7. Past /\ Future /\ Exempted
  BY <1>0 DEF Init, Past, Future, Exempted, Month
<1>8. QED
  BY <1>2, <1>5, <1>6, <1>7 DEF Inv

LEMMA InvAlways == Spec => []Inv
BY InvAtFirst, InvKept, PTL DEF Spec

-----------------------------------------------------------------------------
(* The theorems.                                                            *)

\* No variable of Quota ever leaves its type: what a turn charges, above all,
\* is what that turn alone used.
THEOREM TypeCorrect == Spec => []TypeOK
<1>1. Inv => TypeOK
  BY DEF Inv
<1>2. QED
  BY <1>1, InvAlways, PTL

\* For any number of requests the gate lets the user's real spending pass the
\* limit by no more than a turn of each.
THEOREM OverrunIsBounded == Spec => []OverrunBounded
<1>1. Inv => OverrunBounded
  <2> SUFFICES ASSUME Inv, NEW m \in Month \ loose
               PROVE  spent[m] <= Limit - 1 + MaxCost * Cardinality(Request) + uncharged[m]
    BY DEF OverrunBounded
  <2>0. Limit - 1 \in Nat /\ Cap \in Nat /\ MaxMonth \in Nat
    BY Constants
  <2>1. /\ month \in Month /\ used[m] \in Nat /\ spent[m] \in Nat /\ uncharged[m] \in Nat
    BY DEF Inv, TypeOK
  <2>2. spent[m] <= (Limit - 1) + Cap + uncharged[m]
    <3>1. CASE m < month
      BY <3>1 DEF Inv, Past
    <3>2. CASE m = month
      <4>1. used[m] + Total(Could) <= (Limit - 1) + Cap
        BY <3>2 DEF Inv, Bounded
      <4>2. spent[m] <= used[m] + uncharged[m] + Total(InFlight(m))
        BY DEF Inv, Accounted
      <4>3. /\ Total(InFlight(m)) <= Total(Could)
            /\ Total(InFlight(m)) \in Nat /\ Total(Could) \in Nat
        BY Sums DEF SumFacts, Inv
      <4>4. QED
        BY <2>0, <2>1, <4>1, <4>2, <4>3
    <3>3. CASE m > month
      <4>1. spent[m] = 0
        BY <3>3 DEF Inv, Future
      <4>2. QED
        BY <2>0, <2>1, <4>1
    <3>4. QED
      BY <2>0, <2>1, <3>1, <3>2, <3>3 DEF Month
  <2>3. QED
    BY <2>2 DEF Cap, N
<1>2. QED
  BY <1>1, InvAlways, PTL

\* Unless a reconciliation raced, the counter of a month never has more than
\* was used in it or carried into it.
THEOREM NobodyIsOvercharged == Spec => []NoOvercharge
<1>1. Inv => NoOvercharge
  <2> SUFFICES ASSUME Inv, NEW m \in Month \ raced PROVE used[m] <= spent[m] + carried[m]
    BY DEF NoOvercharge
  <2>1. used[m] + Total(InFlight(m)) <= spent[m] + carried[m]
    BY DEF Inv, Charged
  <2>2. Total(InFlight(m)) \in Nat
    BY Sums DEF SumFacts, Inv
  <2>3. used[m] \in Nat /\ spent[m] \in Nat /\ carried[m] \in Nat
    BY DEF Inv, TypeOK
  <2>4. QED
    BY <2>1, <2>2, <2>3
<1>2. QED
  BY <1>1, InvAlways, PTL

=============================================================================
