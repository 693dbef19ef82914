--------------------------- MODULE RequestRouting ---------------------------
(***************************************************************************)
(* Requests in gateway-dp, between their header and the choice of a peer,  *)
(* while CpSync replaces the routes: State holds the current snapshot in   *)
(* an ArcSwap, upstream_peer loads it once and works on what it loaded.    *)
(*                                                                         *)
(* Snapshots are numbered as they are installed, the empty one is number   *)
(* 1; each brings round-robin counters of its own, one for every route,    *)
(* which requests share by way of an Arc.  picks records the choices made, *)
(* for the properties.                                                     *)
(***************************************************************************)
EXTENDS RouteMatch

CONSTANTS
  Workers,       \* requests in progress at the same time
  Tables,        \* snapshots that may be installed
  Arrivals,      \* requests that may arrive
  Unusable,      \* upstreams whose URL build_peer rejects
  CounterValues, \* how many values an AtomicUsize has: 2^64
  MaxUpdates,    \* bound: snapshots installed
  MaxArrivals    \* bound: requests

Failures == {"none", "no route", "no upstream", "invalid"}

ASSUME RoutingConstants ==
  /\ \A table \in Tables : IsTable(table)
  /\ Arrivals \subseteq HttpRequests
  /\ Upstreams \cap Failures = {}
  /\ CounterValues \in Nat \ {0}
  /\ MaxUpdates \in Nat
  /\ MaxArrivals \in Nat

VARIABLES
  installed,   \* all snapshots so far; the last one is current
  counters,    \* snapshot number -> its routes' rr_index, by position
  picks,       \* snapshot number -> position -> the upstreams chosen
  pc,
  request,
  held,        \* the snapshot that the request loaded
  next,        \* position of the route that the loop examines next
  best,        \* position of the best route so far, 0 for None
  outcome,
  arrivals

vars == <<installed, counters, picks, pc, request, held, next, best, outcome,
          arrivals>>

Outcomes == Upstreams \cup Failures

Table(w) == installed[held[w]]
Chosen(w) == Table(w)[best[w]]

Init ==
  /\ installed = << << >> >>
  /\ counters = << << >> >>
  /\ picks = << << >> >>
  /\ pc = [w \in Workers |-> "idle"]
  /\ request = [w \in Workers |-> Absent]
  /\ held = [w \in Workers |-> 1]
  /\ next = [w \in Workers |-> 1]
  /\ best = [w \in Workers |-> 0]
  /\ outcome = [w \in Workers |-> "none"]
  /\ arrivals = 0

\* Mutant of Update: routes are added to those there are.
UpdateAdding(table) ==
  /\ Len(installed) <= MaxUpdates
  /\ LET all == installed[Len(installed)] \o table
     IN  /\ installed' = Append(installed, all)
         /\ counters' = Append(counters, [n \in 1..Len(all) |-> 0])
         /\ picks' = Append(picks, [n \in 1..Len(all) |-> << >>])
  /\ UNCHANGED <<pc, request, held, next, best, outcome, arrivals>>

\* Mutant of Update: counters are carried over, by position.
UpdateCarrying(table) ==
  /\ Len(installed) <= MaxUpdates
  /\ installed' = Append(installed, table)
  /\ LET old == counters[Len(counters)]
     IN  counters' = Append(counters, [n \in 1..Len(table) |->
                                         IF n \in DOMAIN old THEN old[n] ELSE 0])
  /\ picks' = Append(picks, [n \in 1..Len(table) |-> << >>])
  /\ UNCHANGED <<pc, request, held, next, best, outcome, arrivals>>

\* State::update with routes made by Route::new.
Update(table) ==
  /\ Len(installed) <= MaxUpdates
  /\ installed' = Append(installed, table)
  /\ counters' = Append(counters, [n \in 1..Len(table) |-> 0])
  /\ picks' = Append(picks, [n \in 1..Len(table) |-> << >>])
  /\ UNCHANGED <<pc, request, held, next, best, outcome, arrivals>>

\* upstream_peer begins: it loads the snapshot that is current.
Arrive(w, r) ==
  /\ pc[w] = "idle"
  /\ arrivals < MaxArrivals
  /\ arrivals' = arrivals + 1
  /\ pc' = [pc EXCEPT ![w] = "matching"]
  /\ request' = [request EXCEPT ![w] = r]
  /\ held' = [held EXCEPT ![w] = Len(installed)]
  /\ next' = [next EXCEPT ![w] = 1]
  /\ best' = [best EXCEPT ![w] = 0]
  /\ outcome' = [outcome EXCEPT ![w] = "none"]
  /\ UNCHANGED <<installed, counters, picks>>

\* Mutants of Replaces: the last, or the first, route that matches wins.
ReplacesAny(w, n) == Matches(Table(w)[n], request[w])
ReplacesNone(w, n) == Matches(Table(w)[n], request[w]) /\ best[w] = 0

\* One round of the loop in match_route.
Replaces(w, n) ==
  /\ Matches(Table(w)[n], request[w])
  /\ best[w] # 0 => IsBetter(Table(w)[n], Table(w)[best[w]])

\* Mutant of Examine: a route that does not match is examined again.
ExamineAgain(w) ==
  /\ pc[w] = "matching"
  /\ next[w] <= Len(Table(w))
  /\ Matches(Table(w)[next[w]], request[w])
  /\ next' = [next EXCEPT ![w] = @ + 1]
  /\ best' = [best EXCEPT ![w] = IF Replaces(w, next[w]) THEN next[w] ELSE @]
  /\ UNCHANGED <<installed, counters, picks, pc, request, held, outcome,
                 arrivals>>

Examine(w) ==
  /\ pc[w] = "matching"
  /\ next[w] <= Len(Table(w))
  /\ next' = [next EXCEPT ![w] = @ + 1]
  /\ best' = [best EXCEPT ![w] = IF Replaces(w, next[w]) THEN next[w] ELSE @]
  /\ UNCHANGED <<installed, counters, picks, pc, request, held, outcome,
                 arrivals>>

Answer(w, result) ==
  /\ pc' = [pc EXCEPT ![w] = "idle"]
  /\ outcome' = [outcome EXCEPT ![w] = result]

\* Mutant of EndMatch: the current snapshot is loaded a second time.
EndMatchReloading(w) ==
  /\ pc[w] = "matching"
  /\ next[w] > Len(Table(w))
  /\ IF best[w] = 0
       THEN Answer(w, "no route")
       ELSE pc' = [pc EXCEPT ![w] = "selecting"] /\ UNCHANGED outcome
  /\ held' = [held EXCEPT ![w] = Len(installed)]
  /\ UNCHANGED <<installed, counters, picks, request, next, best, arrivals>>

EndMatch(w) ==
  /\ pc[w] = "matching"
  /\ next[w] > Len(Table(w))
  /\ IF best[w] = 0
       THEN Answer(w, "no route")
       ELSE pc' = [pc EXCEPT ![w] = "selecting"] /\ UNCHANGED outcome
  /\ UNCHANGED <<installed, counters, picks, request, held, next, best,
                 arrivals>>

\* build_peer: an address, or an error when the URL gives none.
Peer(upstream) == IF upstream \in Unusable THEN "invalid" ELSE upstream

\* Mutant of Select: the clone of the route has a counter of its own.
SelectOnCopy(w) ==
  /\ pc[w] = "selecting"
  /\ IF Chosen(w).upstreams = << >>
       THEN Answer(w, "no upstream") /\ UNCHANGED picks
       ELSE LET upstream == Chosen(w).upstreams[1]
            IN  /\ picks' = [picks EXCEPT ![held[w]][best[w]] =
                               Append(@, upstream)]
                /\ Answer(w, Peer(upstream))
  /\ UNCHANGED <<installed, counters, request, held, next, best, arrivals>>

\* select_upstream, then build_peer.  The clone of the route that they work
\* on shares its counter with the snapshot.
Select(w) ==
  /\ pc[w] = "selecting"
  /\ IF Chosen(w).upstreams = << >>
       THEN Answer(w, "no upstream") /\ UNCHANGED <<counters, picks>>
       ELSE LET count == counters[held[w]][best[w]]
                upstream ==
                  Chosen(w).upstreams[(count % Len(Chosen(w).upstreams)) + 1]
            IN  /\ counters' = [counters EXCEPT ![held[w]][best[w]] =
                                  (count + 1) % CounterValues]
                /\ picks' = [picks EXCEPT ![held[w]][best[w]] =
                               Append(@, upstream)]
                /\ Answer(w, Peer(upstream))
  /\ UNCHANGED <<installed, request, held, next, best, arrivals>>

Proceed(w) == Examine(w) \/ EndMatch(w) \/ Select(w)

Next ==
  \/ \E table \in Tables : Update(table)
  \/ \E w \in Workers :
       \/ \E r \in Arrivals : Arrive(w, r)
       \/ Proceed(w)

Spec == Init /\ [][Next]_vars
FairSpec == Spec /\ \A w \in Workers : WF_vars(Proceed(w))

-----------------------------------------------------------------------------
(* Properties *)

TypeOK ==
  /\ Len(installed) \in 1..(MaxUpdates + 1)
  /\ Len(counters) = Len(installed) /\ Len(picks) = Len(installed)
  /\ \A g \in 1..Len(installed) :
       /\ IsTable(installed[g])
       /\ counters[g] \in [1..Len(installed[g]) -> 0..(CounterValues - 1)]
       /\ picks[g] \in [1..Len(installed[g]) -> Seq(Upstreams)]
  /\ outcome \in [Workers -> Outcomes]
  /\ pc \in [Workers -> {"idle", "matching", "selecting"}]
  /\ request \in [Workers -> Arrivals \cup {Absent}]
  /\ \A w \in Workers : pc[w] # "idle" => request[w] \in Arrivals
  /\ held \in [Workers -> 1..Len(installed)]
  /\ next \in [Workers -> Nat \ {0}]
  /\ best \in [Workers -> Nat]
  /\ \A w \in Workers : pc[w] # "idle" => best[w] < next[w]
  /\ \A w \in Workers : pc[w] # "idle" => next[w] <= Len(Table(w)) + 1
  /\ arrivals \in 0..MaxArrivals

\* The best of the positions 1..n of a table for a request, or 0: a matching
\* route that no other matching route beats.
IsBestOf(position, table, n, r) ==
  IF position = 0
    THEN \A m \in 1..n : ~Matches(table[m], r)
    ELSE /\ position \in 1..n
         /\ Matches(table[position], r)
         /\ \A m \in 1..n : m # position /\ Matches(table[m], r) =>
              IsBetter(table[position], table[m]) /\ ~IsBetter(table[m], table[position])

\* The loop of match_route carries the best route among those it has seen.
BestSoFar ==
  \A w \in Workers : pc[w] = "matching" =>
    IsBestOf(best[w], Table(w), next[w] - 1, request[w])

\* A request is routed by the one best route of one whole snapshot, although
\* snapshots are replaced while it runs; which one does not depend on the
\* order of the routes in the snapshot.
RoutedByBest ==
  \A w \in Workers : pc[w] = "selecting" =>
    /\ best[w] # 0
    /\ IsBestOf(best[w], Table(w), Len(Table(w)), request[w])

\* The upstreams of a route take turns, in the order in which they are listed,
\* among all requests that one snapshot routes, and start over when the counter
\* wraps around.
TakeTurns ==
  \A g \in 1..Len(installed) : \A n \in 1..Len(installed[g]) :
    LET list == installed[g][n].upstreams
        made == picks[g][n]
    IN  \A k \in 1..Len(made) :
          made[k] = list[(((k - 1) % CounterValues) % Len(list)) + 1]

\* Where routes with this id and these upstreams are: snapshot and position.
Generations(id, list) ==
  {gn \in UNION {{g} \X (1..Len(installed[g])) : g \in 1..Len(installed)} :
     /\ installed[gn[1]][gn[2]].id = id
     /\ installed[gn[1]][gn[2]].upstreams = list}

\* Every choice made for such a route: where, and which of those made there.
Turns(id, list) ==
  UNION {{gn} \X (1..Len(picks[gn[1]][gn[2]])) : gn \in Generations(id, list)}

ChosenIn(c) == picks[c[1][1]][c[1][2]][c[2]]

\* The counter was at zero when the choice was made.
StartsOver(c) == (c[2] - 1) % CounterValues = 0

\* Route::new gives a route that stays the same a new counter with every
\* snapshot, and a counter wraps around; both restart the turns at the first
\* upstream.  That is the only way for the loads of two upstreams to drift
\* apart: by one request at most for each restart, in favour of the upstream
\* that is listed first.
DriftBounded ==
  \A g \in 1..Len(installed) : \A n \in 1..Len(installed[g]) :
    LET list == installed[g][n].upstreams
        all == Turns(installed[g][n].id, list)
        Load(i) == Cardinality({c \in all : ChosenIn(c) = list[i]})
        restarts == Cardinality({c \in all : StartsOver(c)})
    IN  IsInjective(list) =>
          \A i, j \in 1..Len(list) : i < j =>
            Load(i) >= Load(j) /\ Load(i) <= Load(j) + restarts

\* Every request gets an answer.
EveryRequestAnswered ==
  \A w \in Workers : pc[w] # "idle" ~> pc[w] = "idle"
=============================================================================
