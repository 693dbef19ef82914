----------------------------- MODULE RouteMatch -----------------------------
(***************************************************************************)
(* When a route matches a request, and which of two matching routes is the *)
(* better one: gateway-dp/src/router/matcher.rs.                           *)
(*                                                                         *)
(* A path and a path prefix are sequences of letters.  Ids are compared as *)
(* strings in the code; here an id is its rank in that order.  FoldMethod  *)
(* maps method names that differ in case alone to one value, NormalHost    *)
(* host names that differ in case, surrounding blanks or port.             *)
(***************************************************************************)
EXTENDS Naturals, SequencesExt

CONSTANTS Letters, Methods, FoldMethod, Hosts, NormalHost, Upstreams, Absent

ASSUME MatchVocabulary ==
  /\ Absent \notin Hosts
  /\ Absent \notin Seq(Letters)

Routes ==
  [id : Nat,
   prefix : Seq(Letters) \cup {Absent},
   methods : SUBSET Methods,
   host : Hosts \cup {Absent},
   upstreams : Seq(Upstreams)]

\* A snapshot lists routes whose ids differ (they are a primary key), in no
\* particular order.
IsTable(table) ==
  /\ table \in Seq(Routes)
  /\ \A m, n \in 1..Len(table) : m # n => table[m].id # table[n].id

HttpRequests ==
  [path : Seq(Letters), method : Methods, host : Hosts \cup {Absent}]

\* matches_route.
Matches(route, request) ==
  /\ route.prefix # Absent => IsPrefix(route.prefix, request.path)
  /\ route.methods # {} =>
       \E m \in route.methods : FoldMethod[m] = FoldMethod[request.method]
  /\ route.host # Absent =>
       /\ request.host # Absent
       /\ NormalHost[route.host] = NormalHost[request.host]

\* The fields of a Candidate.
PathLen(route) == IF route.prefix = Absent THEN 0 ELSE Len(route.prefix)
HostSpecific(route) == route.host # Absent
MethodSpecific(route) == route.methods # {}

\* is_better.
IsBetter(a, b) ==
  IF PathLen(a) # PathLen(b) THEN PathLen(a) > PathLen(b)
  ELSE IF HostSpecific(a) # HostSpecific(b) THEN HostSpecific(a)
  ELSE IF MethodSpecific(a) # MethodSpecific(b) THEN MethodSpecific(a)
  ELSE a.id < b.id
=============================================================================
