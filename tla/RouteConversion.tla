-------------------------- MODULE RouteConversion --------------------------
(***************************************************************************)
(* What becomes of a posted route on its way to the requests: list_routes  *)
(* and route_to_proto in gateway-cp, snapshot_to_routes in gateway-dp.     *)
(*                                                                         *)
(* The match rules of a route are any JSON value; nothing checks them.  A  *)
(* JSON value is a record with one field that names its kind: [string |->  *)
(* ...], [array |-> ...], [object |-> a record of values], and [other |->  *)
(* ...] for the rest.  A path is a sequence of letters, so the empty path  *)
(* is << >>; Blank is the empty host.                                      *)
(*                                                                         *)
(* Balancing, failover, weights and policies do not reach the requests     *)
(* (snapshot_to_routes drops them), so specs come without them here.       *)
(***************************************************************************)
EXTENDS RouteMatch

CONSTANT Blank

\* obj.get(key).and_then(as_<kind>), or a default.
Field(rules, key, kind, default) ==
  IF /\ "object" \in DOMAIN rules
     /\ key \in DOMAIN rules.object
     /\ kind \in DOMAIN rules.object[key]
    THEN rules.object[key][kind]
    ELSE default

\* The strings of an array, whose order no request can tell; other items are
\* passed over.
Strings(items) ==
  {items[i].string : i \in {j \in DOMAIN items : "string" \in DOMAIN items[j]}}

\* Mutant of ParseMatch: the key is spelled like the field of the message.
ParseMatchMethods(rules) ==
  [path_prefix |-> Field(rules, "path_prefix", "string", << >>),
   methods |-> Strings(Field(rules, "methods", "array", << >>)),
   host |-> Field(rules, "host", "string", Blank)]

ParseMatch(rules) ==
  [path_prefix |-> Field(rules, "path_prefix", "string", << >>),
   methods |-> Strings(Field(rules, "method", "array", << >>)),
   host |-> Field(rules, "host", "string", Blank)]

RouteToProto(spec) ==
  [id |-> spec.id, match |-> ParseMatch(spec.match), upstreams |-> spec.upstreams]

\* One round of snapshot_to_routes: an empty string is no filter.
ProtoToRoute(route) ==
  [id |-> route.id,
   prefix |-> IF route.match.path_prefix = << >>
                THEN Absent ELSE route.match.path_prefix,
   methods |-> route.match.methods,
   host |-> IF route.match.host = Blank THEN Absent ELSE route.match.host,
   upstreams |-> route.upstreams]

\* A listing as gateway-dp installs it.
Delivered(listing) ==
  [n \in 1..Len(listing) |-> ProtoToRoute(RouteToProto(listing[n]))]

\* list_routes: every route once, in the order of the ids.
IsListing(listing) ==
  \A m, n \in 1..Len(listing) : m < n => listing[m].id < listing[n].id
=============================================================================
