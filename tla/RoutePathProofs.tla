-------------------------- MODULE RoutePathProofs --------------------------
(***************************************************************************)
(* Well-formed filters mean to the requests what they meant to whoever     *)
(* posted them, for any contents of the routes table.                      *)
(***************************************************************************)
EXTENDS RoutePath, RequestRoutingProofs

-----------------------------------------------------------------------------
(* The two conversions of one route *)

Converted(spec) == ProtoToRoute(RouteToProto(spec))

\* The fields of a converted route, read from the JSON.
LEMMA ConvertedFields ==
  ASSUME NEW spec
  PROVE  LET prefix == Field(spec.match, "path_prefix", "string", << >>)
             host == Field(spec.match, "host", "string", Blank)
         IN  /\ Converted(spec).prefix = IF prefix = << >> THEN Absent ELSE prefix
             /\ Converted(spec).host = IF host = Blank THEN Absent ELSE host
             /\ Converted(spec).methods =
                  Strings(Field(spec.match, "method", "array", << >>))
BY DEF Converted, ProtoToRoute, RouteToProto, ParseMatch

\* A converted path filter.
LEMMA PrefixSurvives ==
  ASSUME NEW spec, WellFormed(spec), StringsFit(spec.match),
         NEW r \in HttpRequests
  PROVE  (Converted(spec).prefix # Absent => IsPrefix(Converted(spec).prefix, r.path))
           <=> (Written(spec, "path_prefix") =>
                  IsPrefix(Filter(spec, "path_prefix").string, r.path))
<1> DEFINE prefix == Field(spec.match, "path_prefix", "string", << >>)
<1>1. Converted(spec).prefix = IF prefix = << >> THEN Absent ELSE prefix
  BY ConvertedFields
<1>2. prefix = IF Written(spec, "path_prefix")
                 THEN Filter(spec, "path_prefix").string ELSE << >>
  BY DEF WellFormed, Written, Filter, Field
<1>3. prefix \in Seq(Letters)
  BY DEF StringsFit, WellFormed
<1> HIDE DEF prefix
<1>4. prefix # Absent
  BY <1>3, MatchVocabulary
<1>5. IsPrefix(<< >>, r.path)
  BY DEF IsPrefix, HttpRequests
<1> QED
  BY <1>1, <1>2, <1>4, <1>5

\* A converted host filter.
LEMMA HostSurvives ==
  ASSUME NEW spec, WellFormed(spec), StringsFit(spec.match), NEW r
  PROVE  (Converted(spec).host # Absent =>
            r.host # Absent /\ NormalHost[Converted(spec).host] = NormalHost[r.host])
           <=> (Written(spec, "host") =>
                  LET host == Filter(spec, "host").string
                  IN  host = Blank \/ (/\ r.host # Absent
                                       /\ NormalHost[host] = NormalHost[r.host]))
<1> DEFINE host == Field(spec.match, "host", "string", Blank)
<1>1. Converted(spec).host = IF host = Blank THEN Absent ELSE host
  BY ConvertedFields
<1>2. host = IF Written(spec, "host") THEN Filter(spec, "host").string ELSE Blank
  BY DEF WellFormed, Written, Filter, Field
<1>3. host \in Hosts \cup {Blank}
  BY DEF StringsFit, WellFormed
<1> HIDE DEF host
<1>4. host # Absent
  BY <1>3, MatchVocabulary, TablesAreDelivered
<1> QED
  BY <1>1, <1>2, <1>4

\* A converted method filter.
LEMMA MethodsSurvive ==
  ASSUME NEW spec, WellFormed(spec), NEW r
  PROVE  (Converted(spec).methods # {} =>
            \E m \in Converted(spec).methods : FoldMethod[m] = FoldMethod[r.method])
           <=> (Written(spec, "method") =>
                  LET items == Filter(spec, "method").array
                  IN  DOMAIN items = {} \/ \E i \in DOMAIN items :
                        FoldMethod[items[i].string] = FoldMethod[r.method])
<1> DEFINE items == Field(spec.match, "method", "array", << >>)
<1>1. Converted(spec).methods = Strings(items)
  BY ConvertedFields
<1>2. items = IF Written(spec, "method") THEN Filter(spec, "method").array ELSE << >>
  BY DEF WellFormed, Written, Filter, Field
<1>3. \A i \in DOMAIN items : "string" \in DOMAIN items[i]
  BY <1>2 DEF WellFormed
<1> HIDE DEF items
<1>4. Strings(items) = {items[i].string : i \in DOMAIN items}
  BY <1>3 DEF Strings
<1>5. << >> = items => DOMAIN items = {}
  OBVIOUS
<1> QED
  BY <1>1, <1>2, <1>4, <1>5

\* A route with well-formed rules matches what they admit.
LEMMA WellFormedSurvives ==
  ASSUME NEW spec, WellFormed(spec), StringsFit(spec.match),
         NEW r \in HttpRequests
  PROVE  Matches(Converted(spec), r) <=> Admits(spec, r)
BY PrefixSurvives, HostSurvives, MethodsSurvive DEF Matches, Admits

-----------------------------------------------------------------------------
(* Requests in progress *)

\* Every installed snapshot is a converted listing.
DeliveredAll ==
  /\ posted \in Seq(Listings \cup {<< >>})
  /\ Len(posted) = Len(installed)
  /\ \A g \in 1..Len(installed) : installed[g] = Delivered(posted[g])

\* A request that was turned away matched nothing in the snapshot it loaded.
TurnedAway ==
  \A w \in Workers : outcome[w] = "no route" =>
    /\ request[w] \in Arrivals
    /\ \A n \in 1..Len(Table(w)) : ~Matches(Table(w)[n], request[w])

PathInv == TypeInv /\ DeliveredAll /\ TurnedAway

\* The invariant holds initially ...
LEMMA InitPath == PathInit => PathInv
<1> SUFFICES ASSUME PathInit PROVE PathInv
  OBVIOUS
<1>1. TypeInv
  BY InitTypes DEF PathInit
<1>2. Delivered(<< >>) = << >>
  BY DEF Delivered
<1>3. DeliveredAll
  BY <1>2 DEF PathInit, Init, DeliveredAll
<1> QED
  BY <1>1, <1>3 DEF PathInit, Init, PathInv, TurnedAway

\* Every step of the path is one of the routing.
LEMMA PathStepIsStep == [PathNext]_pathVars => [Next]_vars
<1>1. \A listing \in Listings : Delivered(listing) \in Tables
  BY TablesAreDelivered
<1> QED
  BY <1>1 DEF PathNext, pathVars, Deliver, Next

\* An installed snapshot keeps its listing.
LEMMA StepDelivered == PathInv /\ [PathNext]_pathVars => DeliveredAll'
<1> SUFFICES ASSUME PathInv, [PathNext]_pathVars PROVE DeliveredAll'
  OBVIOUS
<1>1. ASSUME UNCHANGED <<installed, posted>>
      PROVE  DeliveredAll'
  BY <1>1 DEF PathInv, DeliveredAll
<1>2. ASSUME NEW listing \in Listings, Deliver(listing)
      PROVE  DeliveredAll'
  <2> DEFINE table == Delivered(listing)
  <2>1. table \in Tables
    BY TablesAreDelivered
  <2>2. /\ installed' = Append(installed, table) /\ posted' = Append(posted, listing)
        /\ installed \in Seq(Seq(Routes)) /\ table \in Seq(Routes)
        /\ posted \in Seq(Listings \cup {<< >>}) /\ Len(posted) = Len(installed)
        /\ \A g \in 1..Len(installed) : installed[g] = Delivered(posted[g])
    BY <1>2, <2>1, RoutingConstants
       DEF Deliver, Update, PathInv, TypeInv, RoutingInv, Holding, DeliveredAll, IsTable
  <2> HIDE DEF table
  <2>3. /\ posted' \in Seq(Listings \cup {<< >>})
        /\ Len(posted') = Len(installed')
        /\ Len(installed') = Len(installed) + 1 /\ Len(installed) \in Nat
        /\ \A g \in 1..Len(installed) :
             installed'[g] = installed[g] /\ posted'[g] = posted[g]
        /\ installed'[Len(installed) + 1] = table
        /\ posted'[Len(installed) + 1] = listing
    BY <2>2
  <2>4. \A g \in 1..Len(installed') : g \in 1..Len(installed) \/ g = Len(installed) + 1
    BY <2>3
  <2> QED
    BY <2>2, <2>3, <2>4 DEF DeliveredAll, table
<1> QED
  BY <1>1, <1>2
     DEF PathNext, pathVars, vars, Proceed, Arrive, Examine, EndMatch, Select

\* A request is turned away when its loop has passed every route and found none.
LEMMA StepTurnedAway == PathInv /\ [PathNext]_pathVars => TurnedAway'
<1> SUFFICES ASSUME PathInv, [PathNext]_pathVars PROVE TurnedAway'
  OBVIOUS
<1>1. TypeInv /\ TurnedAway
  BY DEF PathInv
<1>2. ASSUME UNCHANGED <<installed, held, request, outcome>>
      PROVE  TurnedAway'
  BY <1>1, <1>2 DEF TurnedAway, Table
<1>3. ASSUME NEW table \in Tables, Update(table)
      PROVE  TurnedAway'
  <2>1. UNCHANGED <<held, request, outcome>>
    BY <1>3 DEF Update
  <2>2. \A w \in Workers : Table(w)' = Table(w)
    BY <1>1, <1>3, <2>1, UpdateKeeps DEF TypeInv, RoutingInv, Holding, Table
  <2> QED
    BY <1>1, <2>1, <2>2 DEF TurnedAway
<1>4. ASSUME NEW w \in Workers, NEW r \in Arrivals, Arrive(w, r)
      PROVE  TurnedAway'
  <2>1. /\ UNCHANGED installed /\ outcome'[w] = "none"
        /\ \A v \in Workers \ {w} : /\ outcome'[v] = outcome[v]
                                    /\ request'[v] = request[v] /\ held'[v] = held[v]
    BY <1>1, <1>4 DEF Arrive, TypeInv, TypeOK
  <2> QED
    BY <1>1, <2>1 DEF TurnedAway, Table
<1>5. ASSUME NEW w \in Workers, EndMatch(w)
      PROVE  TurnedAway'
  <2>1. /\ UNCHANGED <<installed, request, held>> /\ pc[w] = "matching"
        /\ next[w] > Len(Table(w))
        /\ IF best[w] = 0 THEN outcome'[w] = "no route" ELSE outcome'[w] = outcome[w]
        /\ \A v \in Workers \ {w} : outcome'[v] = outcome[v]
    BY <1>1, <1>5 DEF EndMatch, Answer, TypeInv, TypeOK
  <2>2. \A v \in Workers : Table(v)' = Table(v)
    BY <2>1 DEF Table
  <2>3. /\ Len(Table(w)) \in Nat /\ next[w] - 1 = Len(Table(w))
        /\ request[w] \in Arrivals
        /\ IsBestOf(best[w], Table(w), next[w] - 1, request[w])
    <3>1. IsTable(Table(w))
      BY <1>1 DEF TypeInv, TypeOK, Table
    <3>2. /\ next[w] \in Nat /\ next[w] <= Len(Table(w)) + 1
          /\ request[w] \in Arrivals
      BY <1>1, <2>1 DEF TypeInv, TypeOK
    <3>3. IsBestOf(best[w], Table(w), next[w] - 1, request[w])
      BY <1>1, <2>1 DEF TypeInv, RoutingInv, BestSoFar
    <3>4. Len(Table(w)) \in Nat
      BY <3>1 DEF IsTable
    <3>5. next[w] - 1 = Len(Table(w))
      <4>1. next[w] > Len(Table(w))
        BY <2>1
      <4> HIDE <2>1
      <4> QED
        BY <3>2, <3>4, <4>1
    <3> QED
      BY <3>2, <3>3, <3>4, <3>5
  <2>4. best[w] = 0 => \A n \in 1..Len(Table(w)) : ~Matches(Table(w)[n], request[w])
    BY <2>3 DEF IsBestOf
  <2> QED
    BY <1>1, <2>1, <2>2, <2>3, <2>4 DEF TurnedAway
<1>6. ASSUME NEW w \in Workers, Select(w)
      PROVE  TurnedAway'
  <2>1. /\ UNCHANGED <<installed, request, held>>
        /\ \A v \in Workers \ {w} : outcome'[v] = outcome[v]
        /\ pc[w] = "selecting"
    BY <1>1, <1>6 DEF Select, Answer, TypeInv, TypeOK
  <2>2. \A v \in Workers : Table(v)' = Table(v)
    BY <2>1 DEF Table
  <2>3. outcome'[w] # "no route"
    <3>1. CASE Chosen(w).upstreams = << >>
      BY <1>1, <1>6, <3>1 DEF Select, Answer, TypeInv, TypeOK
    <3>2. CASE Chosen(w).upstreams # << >>
      <4> DEFINE list == Chosen(w).upstreams
                 count == counters[held[w]][best[w]]
                 upstream == list[(count % Len(list)) + 1]
      <4>1. outcome'[w] = Peer(upstream)
        <5>1. outcome' = [outcome EXCEPT ![w] = Peer(upstream)]
          BY <1>6, <3>2 DEF Select, Answer
        <5> HIDE DEF upstream
        <5> QED
          BY <1>1, <5>1 DEF TypeInv, TypeOK
      <4>2. list \in Seq(Upstreams) /\ count \in Nat
        <5>1. /\ list \in Seq(Upstreams) /\ best[w] \in 1..Len(Table(w))
              /\ counters[held[w]] \in [1..Len(Table(w)) -> 0..(CounterValues - 1)]
          BY <1>1, <2>1, Selecting
        <5> QED
          BY <5>1, RoutingConstants
      <4>3. upstream \in Upstreams
        <5> HIDE DEF list, count
        <5> QED
          BY <3>2, <4>2, TurnIsUpstream DEF list
      <4> HIDE DEF upstream
      <4> QED
        BY <4>1, <4>3, RoutingConstants DEF Peer, Failures
    <3> QED
      BY <3>1, <3>2
  <2> QED
    BY <1>1, <2>1, <2>2, <2>3 DEF TurnedAway
<1>7. \A listing \in Listings : Delivered(listing) \in Tables
  BY TablesAreDelivered
<1> QED
  BY <1>2, <1>3, <1>4, <1>5, <1>6, <1>7
     DEF PathNext, pathVars, vars, Proceed, Examine, Deliver

\* ... and after every step.
LEMMA StepPath == PathInv /\ [PathNext]_pathVars => PathInv'
BY PathStepIsStep, StepTypes, StepDelivered, StepTurnedAway DEF PathInv

-----------------------------------------------------------------------------
(* What was written and what is done *)

\* The routes of a snapshot are the posted ones, converted.
LEMMA TableConverted ==
  ASSUME PathInv, NEW w \in Workers
  PROVE  /\ 1..Len(Table(w)) = 1..Len(posted[held[w]])
         /\ \A n \in 1..Len(Table(w)) :
              /\ Table(w)[n] = Converted(posted[held[w]][n])
              /\ StringsFit(posted[held[w]][n].match)
<1> DEFINE listing == posted[held[w]]
<1>1. held[w] \in 1..Len(installed) /\ IsTable(Table(w))
  BY DEF PathInv, TypeInv, TypeOK, Table
<1>2. Table(w) = Delivered(listing) /\ listing \in Listings \cup {<< >>}
  BY <1>1 DEF PathInv, DeliveredAll, Table
<1>3. DOMAIN Table(w) = 1..Len(listing) /\ DOMAIN Table(w) = 1..Len(Table(w))
  BY <1>1, <1>2 DEF Delivered, IsTable
<1>4. \A n \in 1..Len(listing) : Table(w)[n] = Converted(listing[n])
  BY <1>2 DEF Delivered, Converted
<1>5. \A n \in 1..Len(listing) : StringsFit(listing[n].match)
  <2>1. CASE listing = << >>
    BY <2>1
  <2>2. CASE listing \in Listings
    BY <2>2, TablesAreDelivered
  <2> QED
    BY <1>2, <2>1, <2>2
<1> QED
  BY <1>3, <1>4, <1>5

\* Whatever is posted, and whenever it is replaced: well-formed rules mean to
\* the requests what they meant to whoever wrote them.
THEOREM RoutedAsWrittenHolds == PathSpec => []RoutedAsWritten
<1>1. PathInv => RoutedAsWritten
  <2> SUFFICES ASSUME PathInv, NEW w \in Workers
               PROVE  LET specs == posted[held[w]]
                      IN  /\ pc[w] = "selecting" /\ WellFormed(specs[best[w]]) =>
                               Admits(specs[best[w]], request[w])
                          /\ outcome[w] = "no route" =>
                               \A n \in 1..Len(specs) : ~Admits(specs[n], request[w])
    BY DEF RoutedAsWritten
  <2> DEFINE specs == posted[held[w]]
  <2>1. /\ 1..Len(Table(w)) = 1..Len(specs)
        /\ \A n \in 1..Len(Table(w)) :
             Table(w)[n] = Converted(specs[n]) /\ StringsFit(specs[n].match)
    BY TableConverted
  <2>2. ASSUME pc[w] = "selecting", WellFormed(specs[best[w]])
        PROVE  Admits(specs[best[w]], request[w])
    <3>1. best[w] \in 1..Len(Table(w)) /\ Matches(Table(w)[best[w]], request[w])
      BY <2>2 DEF PathInv, TypeInv, RoutingInv, RoutedByBest, IsBestOf
    <3>2. request[w] \in HttpRequests
      BY <2>2, RoutingConstants DEF PathInv, TypeInv, TypeOK
    <3> QED
      BY <2>1, <2>2, <3>1, <3>2, WellFormedSurvives
  <2>3. ASSUME outcome[w] = "no route", NEW n \in 1..Len(specs)
        PROVE  ~Admits(specs[n], request[w])
    <3>1. /\ request[w] \in HttpRequests
          /\ ~Matches(Table(w)[n], request[w])
      BY <2>1, <2>3, RoutingConstants DEF PathInv, TurnedAway
    <3>2. Admits(specs[n], request[w]) => WellFormed(specs[n])
      BY DEF Admits
    <3> QED
      BY <2>1, <3>1, <3>2, WellFormedSurvives
  <2> QED
    BY <2>2, <2>3
<1> QED
  BY <1>1, InitPath, StepPath, PTL DEF PathSpec

\* Delivered tables are tables: what RequestRoutingProofs shows of the loop of
\* match_route holds of them.
THEOREM DeliveredRoutedByBest == PathSpec => [](BestSoFar /\ RoutedByBest)
<1>1. PathInv => BestSoFar /\ RoutedByBest
  BY DEF PathInv, TypeInv, RoutingInv
<1> QED
  BY <1>1, InitPath, StepPath, PTL DEF PathSpec
=============================================================================
