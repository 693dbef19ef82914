------------------------ MODULE RequestRoutingProofs ------------------------
(***************************************************************************)
(* The loop of match_route finds the best route of whichever snapshot the  *)
(* request loaded, for any tables, requests and number of requests in      *)
(* progress; the upstreams of a route take turns, and their loads differ   *)
(* by no more than the restarts of those turns.                            *)
(***************************************************************************)
EXTENDS RequestRouting, FiniteSetTheorems, TLAPS

-----------------------------------------------------------------------------
(* is_better is a strict total order on routes with different ids *)

\* The parts of a route that is_better compares.
LEMMA PathLenType ==
  ASSUME NEW r \in Routes
  PROVE  /\ PathLen(r) \in Nat
         /\ r.id \in Nat
         /\ HostSpecific(r) \in BOOLEAN
         /\ MethodSpecific(r) \in BOOLEAN
BY DEF Routes, PathLen, HostSpecific, MethodSpecific

\* Of two routes with different ids one is better, ...
LEMMA BetterTotal ==
  ASSUME NEW r \in Routes, NEW s \in Routes, r.id # s.id, ~IsBetter(r, s)
  PROVE  IsBetter(s, r)
BY PathLenType DEF IsBetter

\* ... not both are, ...
LEMMA BetterAsymmetric ==
  ASSUME NEW r \in Routes, NEW s \in Routes, IsBetter(r, s)
  PROVE  ~IsBetter(s, r)
BY PathLenType DEF IsBetter

\* ... and a better route than a better one is better.
LEMMA BetterTransitive ==
  ASSUME NEW r \in Routes, NEW s \in Routes, NEW t \in Routes,
         IsBetter(r, s), IsBetter(s, t)
  PROVE  IsBetter(r, t)
BY PathLenType DEF IsBetter

-----------------------------------------------------------------------------
(* One round of the loop *)

\* A table's entries are routes.
LEMMA TableRoute ==
  ASSUME NEW table, IsTable(table), NEW n \in 1..Len(table)
  PROVE  table[n] \in Routes
BY DEF IsTable

\* Whatever the best of the first n - 1 routes was, one comparison with the
\* n-th gives the best of the first n.
LEMMA OneMore ==
  ASSUME NEW table, IsTable(table), NEW n \in 1..Len(table), NEW r,
         NEW old, IsBestOf(old, table, n - 1, r),
         NEW new,
         new = IF Matches(table[n], r) /\ (old # 0 => IsBetter(table[n], table[old]))
                 THEN n ELSE old
  PROVE  IsBestOf(new, table, n, r)
<1>1. Len(table) \in Nat
  BY DEF IsTable
<1>2. \A m \in 1..n : m = n \/ m \in 1..(n - 1)
  BY <1>1
<1>3. \A m \in 1..n : m \in 1..Len(table)
  BY <1>1
<1>4. CASE old = 0
  BY <1>1, <1>2, <1>4 DEF IsBestOf
<1>5. CASE old # 0 /\ ~Matches(table[n], r)
  BY <1>1, <1>2, <1>5 DEF IsBestOf
<1>6. CASE old # 0 /\ Matches(table[n], r)
  <2>1. /\ old \in 1..(n - 1) /\ Matches(table[old], r)
        /\ old \in 1..n /\ old # n
    BY <1>1, <1>6 DEF IsBestOf
  <2>2. /\ table[old] \in Routes /\ table[n] \in Routes
        /\ table[old].id # table[n].id
    BY <1>3, <2>1, TableRoute DEF IsTable
  <2>3. ASSUME NEW m \in 1..(n - 1), m # old, Matches(table[m], r)
        PROVE  table[m] \in Routes /\ IsBetter(table[old], table[m])
    BY <1>1, <1>6, <2>3, TableRoute DEF IsBestOf
  <2>4. CASE IsBetter(table[n], table[old])
    <3>1. new = n
      BY <1>6, <2>4
    <3>2. ASSUME NEW m \in 1..n, m # n, Matches(table[m], r)
          PROVE  IsBetter(table[n], table[m]) /\ ~IsBetter(table[m], table[n])
      <4>1. m \in 1..(n - 1)
        BY <1>2, <3>2
      <4>2. CASE m = old
        BY <2>2, <2>4, <4>2, BetterAsymmetric
      <4>3. CASE m # old
        <5>1. table[m] \in Routes /\ IsBetter(table[old], table[m])
          BY <2>3, <3>2, <4>1, <4>3
        <5> QED
          BY <2>2, <2>4, <5>1, BetterTransitive, BetterAsymmetric
      <4> QED
        BY <4>2, <4>3
    <3> QED
      BY <1>1, <1>6, <3>1, <3>2 DEF IsBestOf
  <2>5. CASE ~IsBetter(table[n], table[old])
    <3>1. new = old
      BY <1>6, <2>5
    <3>2. IsBetter(table[old], table[n])
      BY <2>2, <2>5, BetterTotal
    <3>3. ASSUME NEW m \in 1..n, m # old, Matches(table[m], r)
          PROVE  IsBetter(table[old], table[m]) /\ ~IsBetter(table[m], table[old])
      <4>1. CASE m = n
        BY <2>5, <3>2, <4>1
      <4>2. CASE m # n
        <5>1. m \in 1..(n - 1)
          BY <1>2, <4>2
        <5>2. table[m] \in Routes /\ IsBetter(table[old], table[m])
          BY <2>3, <3>3, <5>1
        <5> QED
          BY <2>2, <5>2, BetterAsymmetric
      <4> QED
        BY <4>1, <4>2
    <3> QED
      BY <2>1, <3>1, <3>3, <1>6 DEF IsBestOf
  <2> QED
    BY <2>4, <2>5
<1> QED
  BY <1>4, <1>5, <1>6

-----------------------------------------------------------------------------
(* Requests in progress *)

\* What the loop needs to know: which snapshots there are, and that a request
\* holds one of them.
Holding ==
  /\ installed \in Seq(Seq(Routes))
  /\ \A g \in 1..Len(installed) : IsTable(installed[g])
  /\ Len(installed) >= 1
  /\ pc \in [Workers -> {"idle", "matching", "selecting"}]
  /\ held \in [Workers -> Nat]
  /\ \A w \in Workers : held[w] \in 1..Len(installed)
  /\ request \in [Workers -> Arrivals \cup {Absent}]
  /\ next \in [Workers -> Nat \ {0}]
  /\ best \in [Workers -> Nat]
  /\ \A w \in Workers : pc[w] = "matching" => next[w] <= Len(Table(w)) + 1

RoutingInv == Holding /\ BestSoFar /\ RoutedByBest

\* The empty snapshot is a table, and no request is in progress.
LEMMA InitRouting == Init => RoutingInv
<1> SUFFICES ASSUME Init PROVE RoutingInv
  OBVIOUS
<1>1. IsTable(<< >>)
  BY DEF IsTable
<1>2. installed \in Seq(Seq(Routes)) /\ Len(installed) = 1 /\ installed[1] = << >>
  BY DEF Init
<1>3. Holding
  BY <1>1, <1>2 DEF Init, Holding
<1> QED
  BY <1>3 DEF Init, RoutingInv, BestSoFar, RoutedByBest

\* Tables that are installed stay as they are.
LEMMA UpdateKeeps ==
  ASSUME Holding, NEW table \in Tables, Update(table)
  PROVE  /\ installed' \in Seq(Seq(Routes))
         /\ Len(installed') = Len(installed) + 1
         /\ \A g \in 1..Len(installed) : installed'[g] = installed[g]
         /\ \A g \in 1..Len(installed') : IsTable(installed'[g])
<1>1. IsTable(table) /\ table \in Seq(Routes)
  BY RoutingConstants DEF IsTable
<1>2. installed' = Append(installed, table) /\ installed \in Seq(Seq(Routes))
  BY DEF Update, Holding
<1>3. /\ installed' \in Seq(Seq(Routes))
      /\ Len(installed') = Len(installed) + 1
      /\ \A g \in 1..Len(installed) : installed'[g] = installed[g]
      /\ installed'[Len(installed) + 1] = table
  BY <1>1, <1>2
<1>4. \A g \in 1..Len(installed') : g \in 1..Len(installed) \/ g = Len(installed) + 1
  BY <1>2, <1>3
<1> QED
  BY <1>1, <1>3, <1>4 DEF Holding

\* Examine adds one route to what the loop has seen; snapshots that others
\* install leave the one a request holds alone.
LEMMA StepRouting == RoutingInv /\ [Next]_vars => RoutingInv'
<1> SUFFICES ASSUME RoutingInv, [Next]_vars PROVE RoutingInv'
  OBVIOUS
<1> USE DEF RoutingInv
<1>1. ASSUME NEW table \in Tables, Update(table)
      PROVE  RoutingInv'
  <2>1. UNCHANGED <<pc, held, request, next, best>>
    BY <1>1 DEF Update
  <2>2. \A w \in Workers : installed'[held[w]] = installed[held[w]]
    BY <1>1, UpdateKeeps DEF Holding
  <2>3. \A w \in Workers : Table(w)' = Table(w)
    BY <2>1, <2>2 DEF Table
  <2>4. Holding'
    <3>1. /\ installed' \in Seq(Seq(Routes))
          /\ \A g \in 1..Len(installed') : IsTable(installed'[g])
          /\ Len(installed') = Len(installed) + 1
      BY <1>1, UpdateKeeps
    <3>2. Len(installed) \in Nat
      BY DEF Holding
    <3>3. /\ Len(installed') >= 1
          /\ \A w \in Workers : held[w] \in 1..Len(installed')
      BY <3>1, <3>2 DEF Holding
    <3> QED
      BY <2>1, <2>3, <3>1, <3>3 DEF Holding
  <2> QED
    BY <2>1, <2>3, <2>4 DEF BestSoFar, RoutedByBest
<1>2. ASSUME NEW w \in Workers, NEW r \in Arrivals, Arrive(w, r)
      PROVE  RoutingInv'
  <2>1. /\ UNCHANGED installed
        /\ pc'[w] = "matching" /\ held'[w] = Len(installed) /\ next'[w] = 1
        /\ best'[w] = 0
    BY <1>2 DEF Arrive, Holding
  <2>2. \A v \in Workers \ {w} :
          /\ pc'[v] = pc[v] /\ held'[v] = held[v] /\ request'[v] = request[v]
          /\ next'[v] = next[v] /\ best'[v] = best[v]
          /\ Table(v)' = Table(v)
    BY <1>2 DEF Arrive, Holding, Table
  <2>3. Len(installed) \in 1..Len(installed) /\ Len(installed) \in Nat
    BY DEF Holding
  <2>4. IsTable(installed[Len(installed)])
    BY <2>3 DEF Holding
  <2>5. 1 <= Len(Table(w)') + 1
    BY <2>1, <2>4 DEF Table, IsTable
  <2>6. /\ pc' \in [Workers -> {"idle", "matching", "selecting"}]
        /\ held' \in [Workers -> Nat]
        /\ request' \in [Workers -> Arrivals \cup {Absent}]
        /\ next' \in [Workers -> Nat \ {0}]
        /\ best' \in [Workers -> Nat]
    BY <1>2, <2>3 DEF Arrive, Holding
  <2>7. Holding'
    BY <2>1, <2>2, <2>3, <2>5, <2>6 DEF Holding
  <2>8. IsBestOf(0, Table(w)', 0, request'[w])
    BY DEF IsBestOf
  <2> QED
    BY <2>1, <2>2, <2>7, <2>8 DEF BestSoFar, RoutedByBest
<1>3. ASSUME NEW w \in Workers, Examine(w)
      PROVE  RoutingInv'
  <2>1. /\ UNCHANGED <<installed, pc, held, request>> /\ pc[w] = "matching"
        /\ next'[w] = next[w] + 1 /\ next[w] \in Nat \ {0}
        /\ next[w] <= Len(Table(w))
        /\ best'[w] = IF Replaces(w, next[w]) THEN next[w] ELSE best[w]
    BY <1>3 DEF Examine, Holding
  <2>2. \A v \in Workers \ {w} : next'[v] = next[v] /\ best'[v] = best[v]
    BY <1>3 DEF Examine, Holding
  <2>3. \A v \in Workers : Table(v)' = Table(v)
    BY <2>1 DEF Table
  <2>4. IsTable(Table(w)) /\ Len(Table(w)) \in Nat
    BY DEF Holding, Table, IsTable
  <2>5. next[w] \in 1..Len(Table(w))
    BY <2>1, <2>4
  <2>6. IsBestOf(best[w], Table(w), next[w] - 1, request[w])
    BY <2>1 DEF BestSoFar
  <2>7. IsBestOf(best'[w], Table(w), next[w], request[w])
    BY <2>1, <2>4, <2>5, <2>6, OneMore DEF Replaces
  <2>8. next'[w] - 1 = next[w] /\ next'[w] <= Len(Table(w)) + 1
    BY <2>1, <2>4
  <2>9. next' \in [Workers -> Nat \ {0}] /\ best' \in [Workers -> Nat]
    BY <1>3, <2>1 DEF Examine, Holding
  <2>10. Holding'
    BY <2>1, <2>2, <2>3, <2>8, <2>9 DEF Holding
  <2> QED
    BY <2>1, <2>2, <2>3, <2>7, <2>8, <2>10 DEF BestSoFar, RoutedByBest
<1>4. ASSUME NEW w \in Workers, EndMatch(w)
      PROVE  RoutingInv'
  <2>1. /\ UNCHANGED <<installed, held, request, next, best>>
        /\ pc[w] = "matching" /\ next[w] > Len(Table(w))
        /\ best[w] = 0 => pc'[w] = "idle"
        /\ best[w] # 0 => pc'[w] = "selecting"
        /\ pc' \in [Workers -> {"idle", "matching", "selecting"}]
    BY <1>4 DEF EndMatch, Answer, Holding
  <2>2. \A v \in Workers \ {w} : pc'[v] = pc[v]
    BY <1>4 DEF EndMatch, Answer, Holding
  <2>3. \A v \in Workers : Table(v)' = Table(v)
    BY <2>1 DEF Table
  <2>4. Len(Table(w)) \in Nat /\ next[w] \in Nat /\ next[w] <= Len(Table(w)) + 1
    BY <2>1 DEF Holding, Table, IsTable
  <2>5. next[w] - 1 = Len(Table(w))
    BY <2>1, <2>4
  <2>6. IsBestOf(best[w], Table(w), Len(Table(w)), request[w])
    BY <2>1, <2>5 DEF BestSoFar
  <2>7. Holding'
    BY <2>1, <2>2, <2>3 DEF Holding
  <2> QED
    BY <2>1, <2>2, <2>3, <2>6, <2>7 DEF BestSoFar, RoutedByBest
<1>5. ASSUME NEW w \in Workers, Select(w)
      PROVE  RoutingInv'
  <2>1. /\ UNCHANGED <<installed, held, request, next, best>>
        /\ pc' = [pc EXCEPT ![w] = "idle"]
    BY <1>5 DEF Select, Answer
  <2>2. \A v \in Workers : Table(v)' = Table(v)
    BY <2>1 DEF Table
  <2>3. \A v \in Workers : pc'[v] # "idle" => pc'[v] = pc[v]
    BY <2>1 DEF Holding
  <2>4. Holding'
    BY <2>1, <2>2, <2>3 DEF Holding
  <2> QED
    BY <2>1, <2>2, <2>3, <2>4 DEF BestSoFar, RoutedByBest
<1>6. ASSUME UNCHANGED vars
      PROVE  RoutingInv'
  BY <1>6 DEF vars, Holding, BestSoFar, RoutedByBest, Table
<1> QED
  BY <1>1, <1>2, <1>3, <1>4, <1>5, <1>6 DEF Next, Proceed

\* Every request that gets as far as choosing an upstream does so for the one
\* best matching route of the snapshot that it loaded.
THEOREM RoutedByBestHolds == Spec => []RoutedByBest
<1>1. RoutingInv => RoutedByBest
  BY DEF RoutingInv
<1> QED
  BY <1>1, InitRouting, StepRouting, PTL DEF Spec

\* The loop never forgets a better route that it has passed.
THEOREM BestSoFarHolds == Spec => []BestSoFar
<1>1. RoutingInv => BestSoFar
  BY DEF RoutingInv
<1> QED
  BY <1>1, InitRouting, StepRouting, PTL DEF Spec

-----------------------------------------------------------------------------
(* Types, counters and turns *)

\* Snapshots, counters and choices are sequences of the same shape.
Shape ==
  /\ counters \in Seq(Seq(Nat))
  /\ picks \in Seq(Seq(Seq(Upstreams)))

TypeInv == RoutingInv /\ TypeOK /\ Shape

\* The first state has the right types.
LEMMA InitTypes == Init => TypeInv
<1> SUFFICES ASSUME Init PROVE TypeInv
  OBVIOUS
<1>1. RoutingInv
  BY InitRouting
<1>2. IsTable(<< >>)
  BY DEF IsTable
<1>3. /\ installed = << << >> >> /\ counters = << << >> >> /\ picks = << << >> >>
      /\ Len(installed) = 1 /\ Len(counters) = 1 /\ Len(picks) = 1
      /\ installed[1] = << >> /\ counters[1] = << >> /\ picks[1] = << >>
  BY DEF Init
<1>4. Shape
  BY <1>3 DEF Shape
<1>5. << >> \in [1..0 -> 0..(CounterValues - 1)] /\ << >> \in [1..0 -> Seq(Upstreams)]
  OBVIOUS
<1>6. \A g \in 1..Len(installed) : g = 1 /\ installed[g] = << >> /\ Len(installed[g]) = 0
  BY <1>3
<1>7. \A g \in 1..Len(installed) :
        /\ IsTable(installed[g])
        /\ counters[g] \in [1..Len(installed[g]) -> 0..(CounterValues - 1)]
        /\ picks[g] \in [1..Len(installed[g]) -> Seq(Upstreams)]
  BY <1>2, <1>3, <1>5, <1>6
<1>8. /\ Len(installed) \in 1..(MaxUpdates + 1)
      /\ held \in [Workers -> 1..Len(installed)]
      /\ arrivals \in 0..MaxArrivals
  BY <1>3, RoutingConstants DEF Init
<1>9. /\ pc \in [Workers -> {"idle", "matching", "selecting"}]
      /\ \A w \in Workers : pc[w] = "idle"
      /\ outcome \in [Workers -> Outcomes]
      /\ request \in [Workers -> Arrivals \cup {Absent}]
      /\ next \in [Workers -> Nat \ {0}] /\ best \in [Workers -> Nat]
  BY DEF Init, Outcomes, Failures
<1>10. TypeOK
  BY <1>3, <1>7, <1>8, <1>9 DEF TypeOK
<1> QED
  BY <1>1, <1>4, <1>10 DEF TypeInv

\* A request that selects has a route of its snapshot, and a counter of it.
LEMMA Selecting ==
  ASSUME TypeInv, NEW w \in Workers, pc[w] = "selecting"
  PROVE  /\ held[w] \in 1..Len(installed) /\ best[w] \in 1..Len(Table(w))
         /\ Len(Table(w)) \in Nat
         /\ Chosen(w) \in Routes /\ Chosen(w).upstreams \in Seq(Upstreams)
         /\ counters[held[w]] \in [1..Len(Table(w)) -> 0..(CounterValues - 1)]
         /\ picks[held[w]] \in [1..Len(Table(w)) -> Seq(Upstreams)]
<1>1. held[w] \in 1..Len(installed)
  BY DEF TypeInv, TypeOK
<1>2. IsTable(Table(w)) /\ Len(Table(w)) \in Nat
  BY <1>1 DEF TypeInv, TypeOK, Table, IsTable
<1>3. best[w] \in 1..Len(Table(w))
  BY DEF TypeInv, RoutingInv, RoutedByBest, IsBestOf
<1>4. Chosen(w) \in Routes
  BY <1>2, <1>3, TableRoute DEF Chosen
<1> QED
  BY <1>1, <1>2, <1>3, <1>4 DEF TypeInv, TypeOK, Table, Routes

\* A counter wraps around before it reaches CounterValues.
LEMMA Remainder ==
  ASSUME NEW n \in Nat, NEW v \in Nat \ {0}
  PROVE  /\ n % v \in 0..(v - 1)
         /\ n < v => n % v = n
OBVIOUS

\* The division that remainders come from.
LEMMA Division ==
  ASSUME NEW n \in Nat, NEW v \in Nat \ {0}
  PROVE  n = v * (n \div v) + (n % v) /\ n \div v \in Nat
OBVIOUS

\* It is the only one with such a remainder.
LEMMA DivisionUnique ==
  ASSUME NEW q \in Nat, NEW v \in Nat \ {0}, NEW r \in 0..(v - 1)
  PROVE  (v * q + r) % v = r
OBVIOUS

\* Counting on within one round, and into the next.
LEMMA RemainderUp ==
  ASSUME NEW n \in Nat, NEW v \in Nat \ {0}, NEW d \in Nat, (n % v) + d < v
  PROVE  (n + d) % v = (n % v) + d
<1> DEFINE q == n \div v
           r == n % v
<1>1. n = v * q + r /\ q \in Nat /\ r \in 0..(v - 1)
  BY Division, Remainder
<1> HIDE DEF q, r
<1>2. n + d = v * q + (r + d) /\ r + d \in 0..(v - 1)
  BY <1>1 DEF r
<1>3. (v * q + (r + d)) % v = r + d
  BY <1>1, <1>2, DivisionUnique
<1> QED
  BY <1>2, <1>3 DEF r

\* A counter that has wrapped around counts on.
LEMMA CountOn ==
  ASSUME NEW n \in Nat, NEW v \in Nat \ {0}
  PROVE  ((n % v) + 1) % v = (n + 1) % v
<1> DEFINE q == n \div v
           r == n % v
<1>1. n = v * q + r /\ q \in Nat /\ r \in 0..(v - 1)
  BY Division, Remainder
<1>2. CASE r + 1 < v
  <2>1. (n + 1) % v = r + 1
    BY <1>2, RemainderUp
  <2> HIDE DEF q, r
  <2>2. r + 1 \in Nat /\ r + 1 < v
    BY <1>1, <1>2
  <2>3. (r + 1) % v = r + 1
    BY <2>2, Remainder
  <2> QED
    BY <2>1, <2>3 DEF r
<1>3. CASE r + 1 = v
  <2> HIDE DEF q, r
  <2>1. n + 1 = v * (q + 1) + 0 /\ r + 1 = v * 1 + 0
    BY <1>1, <1>3
  <2>2. (v * (q + 1) + 0) % v = 0 /\ (v * 1 + 0) % v = 0
    BY <1>1, DivisionUnique
  <2>3. (n + 1) % v = (r + 1) % v
    BY <2>1, <2>2
  <2> QED
    BY <2>3 DEF r
<1> HIDE DEF q, r
<1> QED
  BY <1>1, <1>2, <1>3

\* Equal remainders are whole rounds apart.
LEMMA RoundsApart ==
  ASSUME NEW m \in Nat, NEW n \in Nat, NEW v \in Nat \ {0}, m < n, m % v = n % v
  PROVE  m + v <= n
<1> DEFINE q == n \div v
           p == m \div v
           r == n % v
<1>a. n = v * q + r /\ q \in Nat /\ r \in 0..(v - 1)
  BY Division, Remainder
<1>b. m = v * p + (m % v) /\ p \in Nat
  BY Division
<1>1. n = v * q + r /\ m = v * p + r /\ q \in Nat /\ p \in Nat /\ r \in Nat
  BY <1>a, <1>b
<1> HIDE DEF q, p, r
<1>2. n - m = v * (q - p) /\ q - p \in Int
  BY <1>1
<1>3. q - p >= 1
  BY <1>2
<1>4. v * (q - p) >= v
  BY <1>2, <1>3
<1> QED
  BY <1>2, <1>4

\* A function from 1..n is a sequence.
LEMMA IsSeq ==
  ASSUME NEW n \in Nat, NEW S, NEW f \in [1..n -> S]
  PROVE  f \in Seq(S)
OBVIOUS

\* One entry of a sequence is replaced.
LEMMA OneReplaced ==
  ASSUME NEW S, NEW s \in Seq(S), NEW i \in 1..Len(s), NEW x \in S,
         NEW t, t = [s EXCEPT ![i] = x]
  PROVE  /\ t \in Seq(S) /\ Len(t) = Len(s)
         /\ \A j \in 1..Len(s) : t[j] = IF j = i THEN x ELSE s[j]
OBVIOUS

\* The upstream whose turn it is.
LEMMA TurnIsUpstream ==
  ASSUME NEW list \in Seq(Upstreams), list # << >>, NEW count \in Nat
  PROVE  /\ Len(list) \in Nat \ {0}
         /\ (count % Len(list)) + 1 \in 1..Len(list)
         /\ list[(count % Len(list)) + 1] \in Upstreams
<1>1. Len(list) \in Nat \ {0}
  OBVIOUS
<1>2. count % Len(list) \in 0..(Len(list) - 1)
  BY <1>1
<1>3. (count % Len(list)) + 1 \in 1..Len(list)
  BY <1>1, <1>2
<1> QED
  BY <1>1, <1>3

\* A new snapshot has counters at zero and no choices.
LEMMA UpdateTypes ==
  ASSUME TypeInv, NEW table \in Tables, Update(table)
  PROVE  TypeOK' /\ Shape'
<1> DEFINE zeros == [n \in 1..Len(table) |-> 0]
           none == [n \in 1..Len(table) |-> << >>]
           g == Len(installed) + 1
<1>1. /\ IsTable(table) /\ table \in Seq(Routes) /\ Len(table) \in Nat
      /\ Len(installed) <= MaxUpdates /\ MaxUpdates \in Nat
      /\ Len(installed) \in Nat
  BY RoutingConstants DEF IsTable, Update, TypeInv, TypeOK
<1>2. /\ zeros \in Seq(Nat) /\ none \in Seq(Seq(Upstreams))
      /\ zeros \in [1..Len(table) -> 0..(CounterValues - 1)]
      /\ none \in [1..Len(table) -> Seq(Upstreams)]
  BY <1>1, RoutingConstants
<1>3. /\ installed' = Append(installed, table)
      /\ counters' = Append(counters, zeros)
      /\ picks' = Append(picks, none)
      /\ UNCHANGED <<pc, request, held, next, best, outcome, arrivals>>
  BY DEF Update
<1> HIDE DEF zeros, none
<1>4. /\ installed \in Seq(Seq(Routes)) /\ counters \in Seq(Seq(Nat))
      /\ picks \in Seq(Seq(Seq(Upstreams)))
      /\ Len(counters) = Len(installed) /\ Len(picks) = Len(installed)
  BY DEF TypeInv, RoutingInv, Holding, Shape, TypeOK
<1>5. /\ counters' \in Seq(Seq(Nat)) /\ picks' \in Seq(Seq(Seq(Upstreams)))
      /\ Len(installed') = g /\ Len(counters') = g /\ Len(picks') = g
  BY <1>1, <1>2, <1>3, <1>4
<1>6. /\ installed'[g] = table /\ counters'[g] = zeros /\ picks'[g] = none
      /\ \A h \in 1..Len(installed) :
           /\ installed'[h] = installed[h] /\ counters'[h] = counters[h]
           /\ picks'[h] = picks[h]
  BY <1>1, <1>2, <1>3, <1>4
<1>7. \A h \in 1..g : h = g \/ h \in 1..Len(installed)
  BY <1>1
<1>8. \A h \in 1..Len(installed) :
        /\ IsTable(installed[h])
        /\ counters[h] \in [1..Len(installed[h]) -> 0..(CounterValues - 1)]
        /\ picks[h] \in [1..Len(installed[h]) -> Seq(Upstreams)]
  BY DEF TypeInv, TypeOK
<1>9. \A h \in 1..Len(installed') :
        /\ IsTable(installed'[h])
        /\ counters'[h] \in [1..Len(installed'[h]) -> 0..(CounterValues - 1)]
        /\ picks'[h] \in [1..Len(installed'[h]) -> Seq(Upstreams)]
  BY <1>1, <1>2, <1>5, <1>6, <1>7, <1>8
<1>10. held' \in [Workers -> 1..Len(installed')] /\ \A w \in Workers : Table(w)' = Table(w)
  <2>1. held \in [Workers -> 1..Len(installed)]
    BY DEF TypeInv, TypeOK
  <2>2. \A h \in 1..Len(installed) : h \in 1..Len(installed')
    BY <1>1, <1>5
  <2>3. UNCHANGED held
    BY <1>3
  <2>4. held' \in [Workers -> 1..Len(installed')]
    BY <2>1, <2>2, <2>3
  <2>5. \A w \in Workers : Table(w)' = Table(w)
    BY <1>6, <2>1, <2>3 DEF Table
  <2> QED
    BY <2>4, <2>5
<1>11. Len(installed') \in 1..(MaxUpdates + 1)
  BY <1>1, <1>5
<1> QED
  BY <1>3, <1>5, <1>9, <1>10, <1>11 DEF TypeInv, TypeOK, Shape

\* Counting one request and choosing its upstream.
LEMMA SelectTypes ==
  ASSUME TypeInv, NEW w \in Workers, Select(w)
  PROVE  TypeOK' /\ Shape'
<1>1. /\ pc[w] = "selecting"
      /\ UNCHANGED <<installed, request, held, next, best, arrivals>>
      /\ pc' = [pc EXCEPT ![w] = "idle"]
  BY DEF Select, Answer
<1> DEFINE list == Chosen(w).upstreams
           g == held[w]
           b == best[w]
<1>2. /\ g \in 1..Len(installed) /\ b \in 1..Len(Table(w))
      /\ list \in Seq(Upstreams) /\ Len(Table(w)) \in Nat
      /\ counters[g] \in [1..Len(Table(w)) -> 0..(CounterValues - 1)]
      /\ picks[g] \in [1..Len(Table(w)) -> Seq(Upstreams)]
      /\ Table(w) = installed[g]
  BY <1>1, Selecting DEF Table
<1>3. /\ pc' \in [Workers -> {"idle", "matching", "selecting"}]
      /\ \A v \in Workers : pc'[v] # "idle" => pc[v] # "idle"
      /\ \A v \in Workers : Table(v)' = Table(v)
  BY <1>1 DEF TypeInv, TypeOK, Table
<1>4. /\ counters \in Seq(Seq(Nat)) /\ picks \in Seq(Seq(Seq(Upstreams)))
      /\ Len(counters) = Len(installed) /\ Len(picks) = Len(installed)
      /\ Len(installed) \in Nat
  BY DEF TypeInv, Shape, TypeOK
<1>5. CASE list = << >>
  <2>1. UNCHANGED <<counters, picks>> /\ outcome' \in [Workers -> Outcomes]
    BY <1>5 DEF Select, Answer, TypeInv, TypeOK, Outcomes, Failures
  <2> QED
    BY <1>1, <1>3, <2>1 DEF TypeInv, TypeOK, Shape
<1>6. CASE list # << >>
  <2> DEFINE count == counters[g][b]
             upstream == list[(count % Len(list)) + 1]
             newCount == (count + 1) % CounterValues
             newPicks == Append(picks[g][b], upstream)
             row == [counters[g] EXCEPT ![b] = newCount]
             made == [picks[g] EXCEPT ![b] = newPicks]
  <2>1. /\ counters' = [counters EXCEPT ![g] = row]
        /\ picks' = [picks EXCEPT ![g] = made]
        /\ outcome' = [outcome EXCEPT ![w] = Peer(upstream)]
    BY <1>6 DEF Select, Answer
  <2>2. count \in 0..(CounterValues - 1) /\ CounterValues \in Nat \ {0}
    BY <1>2, RoutingConstants
  <2>3. newCount \in 0..(CounterValues - 1)
    <3>1. count + 1 \in Nat
      BY <2>2
    <3> HIDE DEF count
    <3> QED
      BY <2>2, <3>1, Remainder
  <2>4. upstream \in Upstreams
    <3>1. count \in Nat
      BY <2>2
    <3> HIDE DEF count, list
    <3> QED
      BY <1>2, <1>6, <3>1, TurnIsUpstream
  <2>5. newPicks \in Seq(Upstreams)
    BY <1>2, <2>4
  <2> HIDE DEF upstream, newCount, newPicks
  <2>6. /\ row \in [1..Len(Table(w)) -> 0..(CounterValues - 1)]
        /\ made \in [1..Len(Table(w)) -> Seq(Upstreams)]
    BY <1>2, <2>3, <2>5
  <2> HIDE DEF row, made
  <2>7. row \in Seq(Nat) /\ made \in Seq(Seq(Upstreams))
    <3>1. row \in [1..Len(Table(w)) -> Nat]
      BY <2>2, <2>6
    <3> QED
      BY <1>2, <2>6, <3>1, IsSeq
  <2>8. /\ counters' \in Seq(Seq(Nat)) /\ picks' \in Seq(Seq(Seq(Upstreams)))
        /\ Len(counters') = Len(installed) /\ Len(picks') = Len(installed)
        /\ \A h \in 1..Len(installed) :
             /\ counters'[h] = IF h = g THEN row ELSE counters[h]
             /\ picks'[h] = IF h = g THEN made ELSE picks[h]
    <3>1. /\ counters \in Seq(Seq(Nat)) /\ g \in 1..Len(counters)
          /\ picks \in Seq(Seq(Seq(Upstreams))) /\ g \in 1..Len(picks)
      BY <1>2, <1>4
    <3> HIDE DEF g
    <3>2. /\ counters' \in Seq(Seq(Nat)) /\ Len(counters') = Len(counters)
          /\ \A h \in 1..Len(counters) :
               counters'[h] = IF h = g THEN row ELSE counters[h]
      BY <2>1, <2>7, <3>1, OneReplaced
    <3>3. /\ picks' \in Seq(Seq(Seq(Upstreams))) /\ Len(picks') = Len(picks)
          /\ \A h \in 1..Len(picks) :
               picks'[h] = IF h = g THEN made ELSE picks[h]
      BY <2>1, <2>7, <3>1, OneReplaced
    <3> QED
      BY <1>4, <3>2, <3>3
  <2>9. \A h \in 1..Len(installed) :
          /\ counters'[h] \in [1..Len(installed[h]) -> 0..(CounterValues - 1)]
          /\ picks'[h] \in [1..Len(installed[h]) -> Seq(Upstreams)]
    <3>1. \A h \in 1..Len(installed) :
            /\ counters[h] \in [1..Len(installed[h]) -> 0..(CounterValues - 1)]
            /\ picks[h] \in [1..Len(installed[h]) -> Seq(Upstreams)]
      BY DEF TypeInv, TypeOK
    <3> QED
      BY <1>2, <2>6, <2>8, <3>1
  <2>10. outcome' \in [Workers -> Outcomes]
    BY <2>1, <2>4 DEF TypeInv, TypeOK, Outcomes, Failures, Peer
  <2> QED
    BY <1>1, <1>3, <2>8, <2>9, <2>10 DEF TypeInv, TypeOK, Shape
<1> QED
  BY <1>5, <1>6

\* Every step keeps the types.
LEMMA StepTypes == TypeInv /\ [Next]_vars => TypeInv'
<1> SUFFICES ASSUME TypeInv, [Next]_vars PROVE TypeOK' /\ Shape'
  BY StepRouting DEF TypeInv
<1>1. ASSUME NEW table \in Tables, Update(table)
      PROVE  TypeOK' /\ Shape'
  BY <1>1, UpdateTypes
<1>2. ASSUME NEW w \in Workers, NEW r \in Arrivals, Arrive(w, r)
      PROVE  TypeOK' /\ Shape'
  <2>1. /\ UNCHANGED <<installed, counters, picks>>
        /\ arrivals < MaxArrivals /\ arrivals' = arrivals + 1
        /\ Len(installed) \in 1..Len(installed) /\ Len(installed) \in Nat
    BY <1>2 DEF Arrive, TypeInv, TypeOK
  <2>2. /\ pc' = [pc EXCEPT ![w] = "matching"] /\ request' = [request EXCEPT ![w] = r]
        /\ held' = [held EXCEPT ![w] = Len(installed)]
        /\ next' = [next EXCEPT ![w] = 1] /\ best' = [best EXCEPT ![w] = 0]
        /\ outcome' = [outcome EXCEPT ![w] = "none"]
    BY <1>2 DEF Arrive
  <2>3. /\ outcome' \in [Workers -> Outcomes]
        /\ pc' \in [Workers -> {"idle", "matching", "selecting"}]
        /\ request' \in [Workers -> Arrivals \cup {Absent}]
        /\ held' \in [Workers -> 1..Len(installed)]
        /\ next' \in [Workers -> Nat \ {0}] /\ best' \in [Workers -> Nat]
    <3>1. /\ outcome \in [Workers -> Outcomes] /\ "none" \in Outcomes
          /\ pc \in [Workers -> {"idle", "matching", "selecting"}]
          /\ request \in [Workers -> Arrivals \cup {Absent}]
      BY DEF TypeInv, TypeOK, Outcomes, Failures
    <3>2. /\ outcome' \in [Workers -> Outcomes]
          /\ pc' \in [Workers -> {"idle", "matching", "selecting"}]
          /\ request' \in [Workers -> Arrivals \cup {Absent}]
      BY <2>2, <3>1
    <3>3. /\ held' \in [Workers -> 1..Len(installed)]
          /\ next' \in [Workers -> Nat \ {0}] /\ best' \in [Workers -> Nat]
      BY <2>1, <2>2 DEF TypeInv, TypeOK
    <3> QED
      BY <3>2, <3>3
  <2>4. /\ \A v \in Workers \ {w} : /\ pc'[v] = pc[v] /\ request'[v] = request[v]
                                    /\ next'[v] = next[v] /\ best'[v] = best[v]
                                    /\ Table(v)' = Table(v)
        /\ request'[w] = r /\ best'[w] = 0 /\ next'[w] = 1
    BY <2>1, <2>2 DEF TypeInv, TypeOK, Table
  <2>5. Len(Table(w)') \in Nat
    BY <2>1, <2>2 DEF TypeInv, TypeOK, Table, IsTable
  <2>6. \A v \in Workers : pc'[v] # "idle" =>
          /\ request'[v] \in Arrivals /\ best'[v] < next'[v]
          /\ next'[v] <= Len(Table(v)') + 1
    BY <2>4, <2>5 DEF TypeInv, TypeOK
  <2>7. arrivals' \in 0..MaxArrivals
    BY <2>1, RoutingConstants DEF TypeInv, TypeOK
  <2> QED
    BY <2>1, <2>3, <2>6, <2>7 DEF TypeInv, TypeOK, Shape
<1>3. ASSUME NEW w \in Workers, Examine(w)
      PROVE  TypeOK' /\ Shape'
  <2>1. /\ UNCHANGED <<installed, counters, picks, pc, request, held, outcome,
                       arrivals>>
        /\ next' = [next EXCEPT ![w] = @ + 1] /\ next[w] <= Len(Table(w))
        /\ best' = [best EXCEPT ![w] = IF Replaces(w, next[w]) THEN next[w] ELSE @]
        /\ pc[w] = "matching"
    BY <1>3 DEF Examine
  <2>2. /\ next' \in [Workers -> Nat \ {0}] /\ best' \in [Workers -> Nat]
        /\ next[w] \in Nat /\ best[w] \in Nat /\ best[w] < next[w]
        /\ \A v \in Workers : Table(v)' = Table(v)
    BY <2>1 DEF TypeInv, TypeOK, Table
  <2>3. Len(Table(w)) \in Nat
    BY DEF TypeInv, TypeOK, Table, IsTable
  <2>4. /\ next'[w] = next[w] + 1 /\ best'[w] < next'[w]
        /\ next'[w] <= Len(Table(w)) + 1
        /\ \A v \in Workers \ {w} : next'[v] = next[v] /\ best'[v] = best[v]
    BY <2>1, <2>2, <2>3 DEF TypeInv, TypeOK
  <2> QED
    BY <2>1, <2>2, <2>4 DEF TypeInv, TypeOK, Shape
<1>4. ASSUME NEW w \in Workers, EndMatch(w)
      PROVE  TypeOK' /\ Shape'
  <2>1. /\ UNCHANGED <<installed, counters, picks, request, held, next, best,
                       arrivals>>
        /\ pc[w] = "matching"
        /\ pc' \in [Workers -> {"idle", "matching", "selecting"}]
        /\ outcome' \in [Workers -> Outcomes]
        /\ \A v \in Workers : pc'[v] # "idle" => pc[v] # "idle"
        /\ \A v \in Workers : Table(v)' = Table(v)
    BY <1>4 DEF EndMatch, Answer, TypeInv, TypeOK, Outcomes, Failures, Table
  <2> QED
    BY <2>1 DEF TypeInv, TypeOK, Shape
<1>5. ASSUME NEW w \in Workers, Select(w)
      PROVE  TypeOK' /\ Shape'
  BY <1>5, SelectTypes
<1>6. ASSUME UNCHANGED vars
      PROVE  TypeOK' /\ Shape'
  BY <1>6 DEF vars, TypeInv, TypeOK, Shape, Table
<1> QED
  BY <1>1, <1>2, <1>3, <1>4, <1>5, <1>6 DEF Next, Proceed

\* Every variable of the request path keeps its type; a request never looks
\* beyond its snapshot, and counters never leave their width.
THEOREM RoutingTypeCorrect == Spec => []TypeOK
<1>1. TypeInv => TypeOK
  BY DEF TypeInv
<1> QED
  BY <1>1, InitTypes, StepTypes, PTL DEF Spec

-----------------------------------------------------------------------------
(* Turns *)

\* A counter is the number of choices made with it, as far as it can count.
Counted ==
  \A g \in 1..Len(installed) : \A n \in 1..Len(installed[g]) :
    counters[g][n] = Len(picks[g][n]) % CounterValues

TurnsInv == TypeInv /\ Counted /\ TakeTurns

\* Nobody has been served.
LEMMA InitTurns == Init => TurnsInv
<1> SUFFICES ASSUME Init PROVE Counted /\ TakeTurns
  BY InitTypes DEF TurnsInv
<1>1. \A g \in 1..Len(installed) : Len(installed[g]) = 0
  BY DEF Init
<1>2. \A g \in 1..Len(installed) : 1..Len(installed[g]) = {}
  BY <1>1
<1> QED
  BY <1>2 DEF Counted, TakeTurns

\* A choice moves one counter, and is recorded in one place.
LEMMA SelectCounts ==
  ASSUME TypeInv, NEW w \in Workers, Select(w), Chosen(w).upstreams # << >>,
         NEW h \in 1..Len(installed), NEW n \in 1..Len(installed[h])
  PROVE  IF h = held[w] /\ n = best[w]
           THEN LET list == installed[h][n].upstreams
                IN  /\ counters'[h][n] = (counters[h][n] + 1) % CounterValues
                    /\ picks'[h][n] = Append(picks[h][n],
                                        list[(counters[h][n] % Len(list)) + 1])
           ELSE counters'[h][n] = counters[h][n] /\ picks'[h][n] = picks[h][n]
<1> DEFINE g == held[w]
           b == best[w]
           moved == (counters[g][b] + 1) % CounterValues
           chosen == Append(picks[g][b], Chosen(w).upstreams[
                       (counters[g][b] % Len(Chosen(w).upstreams)) + 1])
<1>1. /\ counters' = [counters EXCEPT ![g][b] = moved]
      /\ picks' = [picks EXCEPT ![g][b] = chosen]
      /\ pc[w] = "selecting"
  BY DEF Select
<1>2. Chosen(w) = installed[g][b]
  BY DEF Chosen, Table
<1>3. /\ h \in DOMAIN counters /\ h \in DOMAIN picks
      /\ n \in DOMAIN counters[h] /\ n \in DOMAIN picks[h]
  <2>1. /\ counters \in Seq(Seq(Nat)) /\ Len(counters) = Len(installed)
        /\ picks \in Seq(Seq(Seq(Upstreams))) /\ Len(picks) = Len(installed)
        /\ counters[h] \in [1..Len(installed[h]) -> 0..(CounterValues - 1)]
        /\ picks[h] \in [1..Len(installed[h]) -> Seq(Upstreams)]
    BY DEF TypeInv, TypeOK, Shape
  <2> QED
    BY <2>1
<1> HIDE DEF moved, chosen
<1>4. CASE h = g /\ n = b
  <2>1. counters'[h][n] = moved /\ picks'[h][n] = chosen
    BY <1>1, <1>3, <1>4
  <2> QED
    BY <1>2, <1>4, <2>1 DEF moved, chosen
<1>5. CASE ~(h = g /\ n = b)
  BY <1>1, <1>3, <1>5
<1> QED
  BY <1>4, <1>5

\* The choice that a counter of k makes is the (k + 1)-th since it was zero.
LEMMA StepTurns == TurnsInv /\ [Next]_vars => TurnsInv'
<1> SUFFICES ASSUME TurnsInv, [Next]_vars PROVE Counted' /\ TakeTurns'
  BY StepTypes DEF TurnsInv
<1>1. TypeInv /\ TypeInv' /\ Counted /\ TakeTurns
  BY StepTypes DEF TurnsInv
<1>2. ASSUME UNCHANGED <<installed, counters, picks>>
      PROVE  Counted' /\ TakeTurns'
  BY <1>1, <1>2 DEF Counted, TakeTurns
<1>3. ASSUME NEW table \in Tables, Update(table)
      PROVE  Counted' /\ TakeTurns'
  <2>1. \A g \in 1..Len(installed') : \A n \in 1..Len(installed'[g]) :
          \/ /\ g \in 1..Len(installed) /\ installed'[g] = installed[g]
             /\ counters'[g] = counters[g] /\ picks'[g] = picks[g]
          \/ counters'[g][n] = 0 /\ picks'[g][n] = << >>
    <3>1. /\ installed' = Append(installed, table)
          /\ counters' = Append(counters, [n \in 1..Len(table) |-> 0])
          /\ picks' = Append(picks, [n \in 1..Len(table) |-> << >>])
      BY <1>3 DEF Update
    <3>2. /\ installed \in Seq(Seq(Routes)) /\ counters \in Seq(Seq(Nat))
          /\ picks \in Seq(Seq(Seq(Upstreams)))
          /\ Len(counters) = Len(installed) /\ Len(picks) = Len(installed)
      BY <1>1 DEF TypeInv, RoutingInv, Holding, Shape, TypeOK
    <3> QED
      BY <3>1, <3>2
  <2>2. Len(<< >>) = 0 /\ 1..0 = {} /\ 0 % CounterValues = 0
    BY RoutingConstants, Remainder
  <2> SUFFICES ASSUME NEW g \in 1..Len(installed'), NEW n \in 1..Len(installed'[g])
               PROVE  LET list == installed'[g][n].upstreams
                          made == picks'[g][n]
                      IN  /\ counters'[g][n] = Len(made) % CounterValues
                          /\ \A k \in 1..Len(made) :
                               made[k] = list[(((k - 1) % CounterValues) % Len(list)) + 1]
    BY DEF Counted, TakeTurns
  <2>4. CASE /\ g \in 1..Len(installed) /\ installed'[g] = installed[g]
             /\ counters'[g] = counters[g] /\ picks'[g] = picks[g]
    <3>1. n \in 1..Len(installed[g])
      BY <2>4
    <3>2. LET list == installed[g][n].upstreams
              made == picks[g][n]
          IN  /\ counters[g][n] = Len(made) % CounterValues
              /\ \A k \in 1..Len(made) :
                   made[k] = list[(((k - 1) % CounterValues) % Len(list)) + 1]
      BY <1>1, <2>4, <3>1 DEF Counted, TakeTurns
    <3> QED
      BY <2>4, <3>2
  <2>5. CASE counters'[g][n] = 0 /\ picks'[g][n] = << >>
    BY <2>2, <2>5
  <2> QED
    BY <2>1, <2>4, <2>5
<1>4. ASSUME NEW w \in Workers, Select(w)
      PROVE  Counted' /\ TakeTurns'
  <2>1. CASE Chosen(w).upstreams = << >>
    BY <1>2, <1>4, <2>1 DEF Select
  <2>2. CASE Chosen(w).upstreams # << >>
    <3>1. UNCHANGED installed
      BY <1>4 DEF Select
    <3> SUFFICES ASSUME NEW g \in 1..Len(installed), NEW n \in 1..Len(installed[g])
                 PROVE  LET list == installed[g][n].upstreams
                            made == picks'[g][n]
                        IN  /\ counters'[g][n] = Len(made) % CounterValues
                            /\ \A k \in 1..Len(made) :
                                 made[k] = list[(((k - 1) % CounterValues) % Len(list)) + 1]
      BY <3>1 DEF Counted, TakeTurns
    <3> DEFINE list == installed[g][n].upstreams
               old == picks[g][n]
               count == counters[g][n]
               turn == list[(count % Len(list)) + 1]
    <3>2. /\ old \in Seq(Upstreams) /\ Len(old) \in Nat
          /\ count \in 0..(CounterValues - 1) /\ CounterValues \in Nat \ {0}
      <4>1. /\ picks[g] \in [1..Len(installed[g]) -> Seq(Upstreams)]
            /\ counters[g] \in [1..Len(installed[g]) -> 0..(CounterValues - 1)]
        BY <1>1 DEF TypeInv, TypeOK
      <4> QED
        BY <4>1, RoutingConstants
    <3>3. /\ count = Len(old) % CounterValues
          /\ \A k \in 1..Len(old) :
               old[k] = list[(((k - 1) % CounterValues) % Len(list)) + 1]
      BY <1>1 DEF Counted, TakeTurns
    <3>4. CASE ~(g = held[w] /\ n = best[w])
      <4>1. counters'[g][n] = count /\ picks'[g][n] = old
        BY <1>1, <1>4, <2>2, <3>4, SelectCounts
      <4> QED
        BY <3>3, <4>1
    <3>5. CASE g = held[w] /\ n = best[w]
      <4>1. /\ counters'[g][n] = (count + 1) % CounterValues
            /\ picks'[g][n] = Append(old, turn)
        BY <1>1, <1>4, <2>2, <3>5, SelectCounts
      <4>2. turn \in Upstreams
        <5>1. pc[w] = "selecting" /\ Chosen(w) = installed[g][n]
          BY <1>4, <3>5 DEF Select, Chosen, Table
        <5>2. list \in Seq(Upstreams) /\ list # << >> /\ count \in Nat
          BY <1>1, <2>2, <3>2, <5>1, Selecting
        <5> HIDE DEF list, count
        <5> QED
          BY <5>2, TurnIsUpstream
      <4>3. turn = list[(((Len(old) + 1 - 1) % CounterValues) % Len(list)) + 1]
        <5>1. count = (Len(old) + 1 - 1) % CounterValues
          BY <3>2, <3>3
        <5> HIDE DEF old, count, list
        <5> QED
          BY <5>1
      <4> HIDE DEF turn, old, count, list
      <4>4. /\ Len(Append(old, turn)) = Len(old) + 1
            /\ Append(old, turn)[Len(old) + 1] = turn
            /\ \A k \in 1..Len(old) : Append(old, turn)[k] = old[k]
            /\ \A k \in 1..(Len(old) + 1) : k \in 1..Len(old) \/ k = Len(old) + 1
        BY <3>2, <4>2
      <4>5. (count + 1) % CounterValues = (Len(old) + 1) % CounterValues
        BY <3>2, <3>3, CountOn
      <4>6. ASSUME NEW k \in 1..(Len(old) + 1)
            PROVE  Append(old, turn)[k]
                     = list[(((k - 1) % CounterValues) % Len(list)) + 1]
        <5>1. CASE k \in 1..Len(old)
          <6>1. Append(old, turn)[k] = old[k]
            BY <4>4, <5>1
          <6> QED
            BY <3>3, <5>1, <6>1
        <5>2. CASE k = Len(old) + 1
          BY <4>3, <4>4, <5>2
        <5> QED
          BY <4>4, <5>1, <5>2
      <4> QED
        BY <4>1, <4>4, <4>5, <4>6 DEF list
    <3> QED
      BY <3>4, <3>5
  <2> QED
    BY <2>1, <2>2
<1> QED
  BY <1>2, <1>3, <1>4 DEF Next, Proceed, Arrive, Examine, EndMatch, vars

\* The upstreams of a route take turns, whatever requests run at the same time,
\* from the publication of its snapshot, and again whenever its counter wraps.
THEOREM TakeTurnsHolds == Spec => []TakeTurns
<1>1. TurnsInv => TakeTurns
  BY DEF TurnsInv
<1> QED
  BY <1>1, InitTurns, StepTurns, PTL DEF Spec

-----------------------------------------------------------------------------
(* Loads *)

\* A remainder is less than the divisor, and no more than the number.
LEMMA RemainderBound ==
  ASSUME NEW n \in Nat, NEW v \in Nat \ {0}
  PROVE  n % v \in 0..(v - 1) /\ n % v <= n
OBVIOUS

\* Counting back within one round.
LEMMA RemainderDown ==
  ASSUME NEW n \in Nat, NEW v \in Nat \ {0}, NEW d \in 0..(n % v)
  PROVE  (n - d) % v = (n % v) - d
OBVIOUS

\* A finite union of finite sets.
LEMMA FiniteUnion ==
  ASSUME NEW S, IsFiniteSet(S), NEW f, \A x \in S : IsFiniteSet(f[x])
  PROVE  IsFiniteSet(UNION {f[x] : x \in S})
<1> DEFINE T == {f[x] : x \in S}
           g == [x \in S |-> f[x]]
<1>1. g \in Surjection(S, T)
  BY DEF Surjection
<1> HIDE DEF g
<1>2. IsFiniteSet(T)
  BY <1>1, FS_Surjection
<1> QED
  BY <1>2, FS_UNION

\* Choices, each with its place and its number there: with a choice there are
\* all that were made before it at the same place.
IsHistory(E) ==
  /\ IsFiniteSet(E)
  /\ \A c \in E : /\ c = <<c[1], c[2]>> /\ c[2] \in Nat \ {0}
                  /\ \A k \in 1..c[2] : <<c[1], k>> \in E

\* What a counter of v values showed when the choice was made, the choices that
\* it led to entry a + 1 of a list of n, and those that it made at zero.
Shown(c, v) == (c[2] - 1) % v
At(E, v, n, a) == {c \in E : Shown(c, v) % n = a}
Zeroes(E, v) == {c \in E : Shown(c, v) = 0}

\* Every choice of a later entry has one of an earlier entry d choices before.
LEMMA EarlierLoad ==
  ASSUME NEW E, IsHistory(E), NEW v \in Nat \ {0}, NEW n \in Nat \ {0},
         NEW a \in 0..(n - 1), NEW d \in 1..a
  PROVE  Cardinality(At(E, v, n, a)) <= Cardinality(At(E, v, n, a - d))
<1> DEFINE f == [c \in At(E, v, n, a) |-> <<c[1], c[2] - d>>]
<1>1. ASSUME NEW c \in At(E, v, n, a)
      PROVE  /\ c = <<c[1], c[2]>> /\ c[2] \in Nat
             /\ <<c[1], c[2] - d>> \in At(E, v, n, a - d)
  <2> DEFINE k == c[2]
             x == Shown(c, v)
  <2>1. /\ c \in E /\ c = <<c[1], k>> /\ k \in Nat /\ k - 1 \in Nat
        /\ \A m \in 1..k : <<c[1], m>> \in E
        /\ x = (k - 1) % v /\ x % n = a
    BY DEF At, IsHistory, Shown
  <2> HIDE DEF k, x
  <2>2. x \in Nat /\ x <= k - 1
    BY <2>1, RemainderBound
  <2>3. d \in 0..(x % n)
    BY <2>1
  <2>4. (x % n) <= x /\ (x - d) % n = a - d
    BY <2>1, <2>2, <2>3, RemainderBound, RemainderDown
  <2>5. d \in 0..x
    BY <2>1, <2>2, <2>4
  <2>6. (k - 1 - d) % v = x - d
    BY <2>1, <2>5, RemainderDown
  <2>7. k - d \in 1..k /\ (k - d) - 1 = k - 1 - d
    BY <2>1, <2>2, <2>5
  <2>8. Shown(<<c[1], k - d>>, v) % n = a - d
    BY <2>4, <2>6, <2>7 DEF Shown
  <2> QED
    BY <2>1, <2>7, <2>8 DEF At, k
<1>2. f \in Injection(At(E, v, n, a), At(E, v, n, a - d))
  <2>1. f \in [At(E, v, n, a) -> At(E, v, n, a - d)]
    BY <1>1
  <2>2. ASSUME NEW c \in At(E, v, n, a), NEW e \in At(E, v, n, a), f[c] = f[e]
        PROVE  c = e
    <3>1. <<c[1], c[2] - d>> = <<e[1], e[2] - d>>
      BY <2>2
    <3>2. c[1] = e[1] /\ c[2] - d = e[2] - d
      BY <3>1
    <3>3. c[2] \in Nat /\ e[2] \in Nat
      BY <1>1
    <3>4. d \in Nat
      OBVIOUS
    <3>5. c[2] = e[2]
      BY <3>2, <3>3, <3>4
    <3> QED
      BY <1>1, <3>2, <3>5
  <2> QED
    BY <2>1, <2>2 DEF Injection, IsInjective
<1> HIDE DEF f
<1>3. IsFiniteSet(At(E, v, n, a - d))
  BY FS_Subset DEF At, IsHistory
<1> QED
  BY <1>2, <1>3, FS_Injection

\* Every choice of an earlier entry has one of a later entry d choices after it,
\* unless its round ends before that: then it has the choice that began the
\* round.
LEMMA LaterLoad ==
  ASSUME NEW E, IsHistory(E), NEW v \in Nat \ {0}, NEW n \in Nat \ {0},
         NEW b \in 0..(n - 1), NEW d \in 1..(n - 1), b + d \in 0..(n - 1)
  PROVE  Cardinality(At(E, v, n, b))
           <= Cardinality(At(E, v, n, b + d)) + Cardinality(Zeroes(E, v))
<1> DEFINE later == At(E, v, n, b + d)
           GoesOn(c) == <<c[1], c[2] + d>> \in E /\ Shown(c, v) + d < v
           f == [c \in At(E, v, n, b) |->
                   IF GoesOn(c) THEN <<c[1], c[2] + d>>
                                ELSE <<c[1], c[2] - Shown(c, v)>>]
<1>1. ASSUME NEW c \in At(E, v, n, b)
      PROVE  /\ c \in E /\ c = <<c[1], c[2]>> /\ c[2] \in Nat \ {0}
             /\ \A m \in 1..c[2] : <<c[1], m>> \in E
             /\ Shown(c, v) \in 0..(v - 1) /\ Shown(c, v) <= c[2] - 1
             /\ Shown(c, v) = (c[2] - 1) % v /\ Shown(c, v) % n = b
  <2>1. /\ c \in E /\ c = <<c[1], c[2]>> /\ c[2] \in Nat \ {0}
        /\ \A m \in 1..c[2] : <<c[1], m>> \in E
        /\ Shown(c, v) = (c[2] - 1) % v /\ Shown(c, v) % n = b
    BY DEF At, IsHistory, Shown
  <2> DEFINE m == c[2] - 1
  <2>2. c[2] \in Nat \ {0}
    BY <2>1
  <2>3. m \in Nat
    BY <2>2
  <2> HIDE DEF m
  <2>4. m % v \in 0..(v - 1) /\ m % v <= m
    BY <2>3, RemainderBound
  <2> QED
    BY <2>1, <2>4 DEF m
<1>2. ASSUME NEW c \in At(E, v, n, b), GoesOn(c)
      PROVE  <<c[1], c[2] + d>> \in later
  <2> DEFINE k == c[2]
             x == Shown(c, v)
  <2>1. /\ x \in Nat /\ k \in Nat /\ k - 1 \in Nat /\ d \in Nat
        /\ x = (k - 1) % v /\ x + d < v /\ x % n = b /\ (x % n) + d < n
    BY <1>1, <1>2
  <2> HIDE DEF k, x
  <2>2. (k - 1 + d) % v = x + d
    BY <2>1, RemainderUp
  <2>3. (x + d) % n = b + d
    BY <2>1, RemainderUp
  <2>4. (k + d) - 1 = k - 1 + d
    BY <2>1
  <2>5. Shown(<<c[1], k + d>>, v) % n = b + d
    BY <2>2, <2>3, <2>4 DEF Shown
  <2> QED
    BY <1>2, <2>5 DEF At, k
<1>3. ASSUME NEW c \in At(E, v, n, b)
      PROVE  <<c[1], c[2] - Shown(c, v)>> \in Zeroes(E, v)
  <2> DEFINE k == c[2]
             x == Shown(c, v)
  <2>1. /\ k \in Nat \ {0} /\ k - 1 \in Nat /\ x \in 0..(k - 1) /\ x = (k - 1) % v
        /\ \A m \in 1..k : <<c[1], m>> \in E
    BY <1>1
  <2> HIDE DEF k, x
  <2>2. x \in 0..((k - 1) % v)
    BY <2>1
  <2>3. (k - 1 - x) % v = x - x
    BY <2>1, <2>2, RemainderDown
  <2>4. k - x \in 1..k /\ (k - x) - 1 = k - 1 - x /\ x - x = 0
    BY <2>1
  <2>5. Shown(<<c[1], k - x>>, v) = 0
    BY <2>3, <2>4 DEF Shown
  <2> QED
    BY <2>1, <2>4, <2>5 DEF Zeroes, k, x
<1>4. later \cap Zeroes(E, v) = {}
  <2>1. 0 % n = 0 /\ b + d # 0
    BY Remainder
  <2> QED
    BY <2>1 DEF At, Zeroes
\* Two choices of the same entry in one round: the later entry's turn, which is
\* less than a list away, comes between them.
<1>5. ASSUME NEW c \in At(E, v, n, b), NEW e \in At(E, v, n, b),
             c[1] = e[1], c[2] < e[2],
             c[2] - Shown(c, v) = e[2] - Shown(e, v)
      PROVE  GoesOn(c)
  <2> DEFINE x == Shown(c, v)
             y == Shown(e, v)
  <2>1. /\ x \in Nat /\ y \in Nat /\ y < v /\ x < y /\ y - x = e[2] - c[2]
        /\ x % n = y % n
    BY <1>1, <1>5
  <2> HIDE DEF x, y
  <2>2. x + n <= y
    BY <2>1, RoundsApart
  <2>3. x + d < v /\ c[2] + d \in 1..e[2]
    BY <1>1, <2>1, <2>2
  <2>4. <<e[1], c[2] + d>> \in E
    BY <1>1, <2>3
  <2> QED
    BY <1>5, <2>3, <2>4 DEF x
<1>6. f \in Injection(At(E, v, n, b), later \cup Zeroes(E, v))
  <2>1. f \in [At(E, v, n, b) -> later \cup Zeroes(E, v)]
    BY <1>2, <1>3
  <2>2. ASSUME NEW c \in At(E, v, n, b), NEW e \in At(E, v, n, b), f[c] = f[e]
        PROVE  c = e
    <3>1. CASE GoesOn(c) /\ GoesOn(e)
      <4>1. c[1] = e[1] /\ c[2] + d = e[2] + d
        BY <2>2, <3>1
      <4> QED
        BY <1>1, <4>1
    <3>2. CASE ~GoesOn(c) /\ ~GoesOn(e)
      <4>1. c[1] = e[1] /\ c[2] - Shown(c, v) = e[2] - Shown(e, v)
        BY <2>2, <3>2
      <4>2. ~(c[2] < e[2]) /\ ~(e[2] < c[2])
        BY <1>5, <3>2, <4>1
      <4>3. c[2] = e[2]
        BY <1>1, <4>2
      <4> QED
        BY <1>1, <4>1, <4>3
    <3>3. CASE GoesOn(c) /\ ~GoesOn(e)
      <4>1. f[c] \in later /\ f[e] \in Zeroes(E, v)
        BY <1>2, <1>3, <3>3
      <4> QED
        BY <1>4, <2>2, <4>1
    <3>4. CASE ~GoesOn(c) /\ GoesOn(e)
      <4>1. f[e] \in later /\ f[c] \in Zeroes(E, v)
        BY <1>2, <1>3, <3>4
      <4> QED
        BY <1>4, <2>2, <4>1
    <3> QED
      BY <3>1, <3>2, <3>3, <3>4
  <2> QED
    BY <2>1, <2>2 DEF Injection, IsInjective
<1>7. IsFiniteSet(later) /\ IsFiniteSet(Zeroes(E, v))
  BY FS_Subset DEF At, Zeroes, IsHistory
<1> HIDE DEF f, later
<1>8. /\ IsFiniteSet(later \cup Zeroes(E, v))
      /\ Cardinality(later \cup Zeroes(E, v))
           = Cardinality(later) + Cardinality(Zeroes(E, v))
               - Cardinality(later \cap Zeroes(E, v))
  BY <1>7, FS_Union
<1>9. /\ Cardinality(later \cap Zeroes(E, v)) = 0
      /\ Cardinality(later) \in Nat /\ Cardinality(Zeroes(E, v)) \in Nat
  BY <1>4, <1>7, FS_EmptySet, FS_CardinalityType
<1>10. Cardinality(At(E, v, n, b)) <= Cardinality(later \cup Zeroes(E, v))
  BY <1>6, <1>8, FS_Injection
<1>11. Cardinality(At(E, v, n, b))
        <= Cardinality(later) + Cardinality(Zeroes(E, v))
  BY <1>8, <1>9, <1>10
<1> QED
  BY <1>11 DEF later

\* The choices at one place.
LEMMA FiniteRow ==
  ASSUME NEW x, NEW n \in Nat
  PROVE  IsFiniteSet({x} \X (1..n))
<1>1. IsFiniteSet({x})
  BY FS_Singleton
<1>2. IsFiniteSet(1..n)
  BY FS_Interval
<1> QED
  BY <1>1, <1>2, FS_Product

\* The choices for one route are such a history.
LEMMA TurnsAreHistory ==
  ASSUME TypeInv, NEW id, NEW list
  PROVE  /\ IsHistory(Turns(id, list))
         /\ \A c \in Turns(id, list) :
              /\ c[1][1] \in 1..Len(installed)
              /\ c[1][2] \in 1..Len(installed[c[1][1]])
              /\ installed[c[1][1]][c[1][2]].upstreams = list
              /\ c[2] \in 1..Len(picks[c[1][1]][c[1][2]])
<1> DEFINE made(gn) == Len(picks[gn[1]][gn[2]])
           rows == [g \in 1..Len(installed) |-> {g} \X (1..Len(installed[g]))]
           all == UNION {rows[g] : g \in 1..Len(installed)}
           from == Generations(id, list)
           turns == [gn \in from |-> {gn} \X (1..made(gn))]
<1>1. /\ Len(installed) \in Nat
      /\ \A g \in 1..Len(installed) :
           /\ Len(installed[g]) \in Nat
           /\ \A n \in 1..Len(installed[g]) : Len(picks[g][n]) \in Nat
  BY DEF TypeInv, TypeOK, IsTable
<1>2. IsFiniteSet(all)
  <2>1. IsFiniteSet(1..Len(installed))
    BY <1>1, FS_Interval
  <2>2. \A g \in 1..Len(installed) : IsFiniteSet(rows[g])
    BY <1>1, FiniteRow
  <2> HIDE DEF rows
  <2> QED
    BY <2>1, <2>2, FiniteUnion
<1>3. /\ from \subseteq all
      /\ \A gn \in from : /\ gn = <<gn[1], gn[2]>>
                          /\ gn[1] \in 1..Len(installed)
                          /\ gn[2] \in 1..Len(installed[gn[1]])
                          /\ installed[gn[1]][gn[2]].upstreams = list
  BY DEF Generations
<1>4. IsFiniteSet(from)
  BY <1>2, <1>3, FS_Subset
<1>5. \A gn \in from : made(gn) \in Nat
  BY <1>1, <1>3
<1>6. Turns(id, list) = UNION {turns[gn] : gn \in from}
  BY DEF Turns
<1>7. \A gn \in from : IsFiniteSet(turns[gn])
  BY <1>5, FiniteRow
<1>8. \A c \in Turns(id, list) :
        /\ c = <<c[1], c[2]>> /\ c[1] \in from /\ c[2] \in 1..made(c[1])
  BY DEF Turns
<1>9. \A gn \in from : \A k \in 1..made(gn) : <<gn, k>> \in Turns(id, list)
  BY DEF Turns
<1> HIDE DEF made, rows, all, from, turns
<1>10. IsFiniteSet(Turns(id, list))
  BY <1>4, <1>6, <1>7, FiniteUnion
<1>11. ASSUME NEW c \in Turns(id, list)
       PROVE  /\ c = <<c[1], c[2]>> /\ c[2] \in Nat \ {0}
              /\ \A k \in 1..c[2] : <<c[1], k>> \in Turns(id, list)
  <2>1. c = <<c[1], c[2]>> /\ c[1] \in from /\ c[2] \in 1..made(c[1])
    BY <1>8
  <2>2. c[2] \in Nat \ {0} /\ \A k \in 1..c[2] : k \in 1..made(c[1])
    BY <1>5, <2>1
  <2> QED
    BY <1>9, <2>1, <2>2
<1>12. IsHistory(Turns(id, list))
  BY <1>10, <1>11 DEF IsHistory
<1> QED
  BY <1>3, <1>8, <1>12 DEF made

\* Where the upstreams take turns, no upstream of a route gets ahead of another
\* by more than the restarts.
LEMMA TurnsBoundDrift == TurnsInv => DriftBounded
<1> SUFFICES ASSUME TurnsInv,
                    NEW g \in 1..Len(installed), NEW h \in 1..Len(installed[g]),
                    IsInjective(installed[g][h].upstreams),
                    NEW i \in 1..Len(installed[g][h].upstreams),
                    NEW j \in 1..Len(installed[g][h].upstreams), i < j
             PROVE  LET list == installed[g][h].upstreams
                        all == Turns(installed[g][h].id, list)
                        Load(m) == Cardinality({c \in all : ChosenIn(c) = list[m]})
                        restarts == Cardinality({c \in all : StartsOver(c)})
                    IN  Load(i) >= Load(j) /\ Load(i) <= Load(j) + restarts
  BY DEF DriftBounded
<1> DEFINE list == installed[g][h].upstreams
           v == CounterValues
           n == Len(list)
           all == Turns(installed[g][h].id, list)
<1>1. TypeInv /\ TakeTurns
  BY DEF TurnsInv
<1>2. list \in Seq(Upstreams) /\ n \in Nat
  <2>1. installed[g][h] \in Routes
    BY <1>1, TableRoute DEF TypeInv, TypeOK
  <2> QED
    BY <2>1 DEF Routes
<1>3. n \in Nat \ {0} /\ v \in Nat \ {0} /\ DOMAIN list = 1..n
  BY <1>2, RoutingConstants
<1>4. IsInjective(list)
  OBVIOUS
<1>5. /\ IsHistory(all)
      /\ \A c \in all : /\ c[1][1] \in 1..Len(installed)
                        /\ c[1][2] \in 1..Len(installed[c[1][1]])
                        /\ installed[c[1][1]][c[1][2]].upstreams = list
                        /\ c[2] \in 1..Len(picks[c[1][1]][c[1][2]])
  BY <1>1, TurnsAreHistory
<1>6. /\ i \in 1..n /\ j \in 1..n /\ i - 1 \in 0..(n - 1) /\ j - 1 \in 0..(n - 1)
      /\ j - i \in 1..(j - 1) /\ j - i \in 1..(n - 1)
      /\ (j - 1) - (j - i) = i - 1 /\ (i - 1) + (j - i) = j - 1
  BY <1>2
<1>7. ASSUME NEW c \in all
      PROVE  /\ ChosenIn(c) = list[(Shown(c, v) % n) + 1]
             /\ Shown(c, v) % n \in 0..(n - 1)
  <2>1. ChosenIn(c) = list[(((c[2] - 1) % v) % n) + 1]
    BY <1>1, <1>5 DEF TakeTurns, ChosenIn
  <2>2. c[2] \in Nat \ {0}
    BY <1>5 DEF IsHistory
  <2>3. c[2] - 1 \in Nat
    BY <2>2
  <2> DEFINE x == Shown(c, v)
  <2>4. x \in Nat
    <3> DEFINE m == c[2] - 1
    <3>1. x = m % v
      BY DEF Shown
    <3>2. m \in Nat
      BY <2>3
    <3> HIDE DEF m, v, x, n, all, list
    <3>3. m % v \in 0..(v - 1)
      BY <1>3, <3>2, RemainderBound
    <3> QED
      BY <3>1, <3>3
  <2>5. ChosenIn(c) = list[(x % n) + 1]
    BY <2>1 DEF Shown
  <2> HIDE DEF x, n
  <2>6. x % n \in 0..(n - 1)
    BY <1>3, <2>4, RemainderBound
  <2> QED
    BY <2>5, <2>6 DEF x
<1> HIDE DEF list, v, n, all
<1>8. ASSUME NEW m \in 1..n
      PROVE  {c \in all : ChosenIn(c) = list[m]} = At(all, v, n, m - 1)
  <2>1. ASSUME NEW c \in all
        PROVE  ChosenIn(c) = list[m] <=> Shown(c, v) % n = m - 1
    <3> DEFINE t == Shown(c, v) % n
    <3>1. ChosenIn(c) = list[t + 1] /\ t \in 0..(n - 1)
      BY <1>7
    <3> HIDE DEF t
    <3>2. t + 1 \in 1..n
      BY <1>3, <3>1
    <3>3. list[t + 1] = list[m] <=> t + 1 = m
      BY <1>3, <1>4, <3>2 DEF IsInjective
    <3>4. t + 1 = m <=> t = m - 1
      BY <1>3, <3>1
    <3> QED
      BY <3>1, <3>3, <3>4 DEF t
  <2> QED
    BY <2>1 DEF At
<1>9. {c \in all : StartsOver(c)} = Zeroes(all, v)
  BY DEF StartsOver, Zeroes, Shown, v
<1>10. Cardinality(At(all, v, n, j - 1)) <= Cardinality(At(all, v, n, i - 1))
  <2>1. Cardinality(At(all, v, n, j - 1))
          <= Cardinality(At(all, v, n, (j - 1) - (j - i)))
    BY <1>3, <1>5, <1>6, EarlierLoad
  <2> QED
    BY <1>6, <2>1
<1>11. Cardinality(At(all, v, n, i - 1))
         <= Cardinality(At(all, v, n, j - 1)) + Cardinality(Zeroes(all, v))
  <2>1. Cardinality(At(all, v, n, i - 1))
          <= Cardinality(At(all, v, n, (i - 1) + (j - i)))
               + Cardinality(Zeroes(all, v))
    <3>1. (i - 1) + (j - i) \in 0..(n - 1)
      BY <1>6
    <3> QED
      BY <1>3, <1>5, <1>6, <3>1, LaterLoad
  <2> QED
    BY <1>6, <2>1
<1>12. /\ Cardinality(At(all, v, n, i - 1)) \in Nat
       /\ Cardinality(At(all, v, n, j - 1)) \in Nat
  BY <1>5, FS_Subset, FS_CardinalityType DEF IsHistory, At
<1>13. /\ {c \in all : ChosenIn(c) = list[i]} = At(all, v, n, i - 1)
       /\ {c \in all : ChosenIn(c) = list[j]} = At(all, v, n, j - 1)
  BY <1>6, <1>8
<1>14. Cardinality(At(all, v, n, i - 1)) >= Cardinality(At(all, v, n, j - 1))
  BY <1>10, <1>12
<1> QED
  BY <1>9, <1>11, <1>13, <1>14 DEF all, list

\* However snapshots, requests and wrapping counters interleave, upstreams of
\* one route differ in load by one request at most for each restart of its
\* turns, in favour of the upstream that is listed first.
THEOREM DriftBoundedHolds == Spec => []DriftBounded
BY InitTurns, StepTurns, TurnsBoundDrift, PTL DEF Spec
=============================================================================
