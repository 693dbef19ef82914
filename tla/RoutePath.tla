----------------------------- MODULE RoutePath -----------------------------
(***************************************************************************)
(* From the routes as they were posted to the route that a request takes:  *)
(* RequestRouting, where each snapshot is a listing of the routes table    *)
(* that went through both conversions.                                     *)
(***************************************************************************)
EXTENDS RequestRouting, RouteConversion

CONSTANT Listings    \* contents of the routes table, as list_routes gives them

\* A path where a path belongs, and so on: what a string is good for depends on
\* its key alone.
StringsFit(rules) ==
  "object" \in DOMAIN rules =>
    /\ Field(rules, "path_prefix", "string", << >>) \in Seq(Letters)
    /\ Field(rules, "host", "string", Blank) \in Hosts \cup {Blank}

ASSUME TablesAreDelivered ==
  /\ \A listing \in Listings : IsListing(listing)
  /\ \A listing \in Listings : \A n \in 1..Len(listing) :
       StringsFit(listing[n].match)
  /\ Blank # Absent
  /\ Tables = {Delivered(listing) : listing \in Listings}

VARIABLE posted    \* the listings behind the installed snapshots

pathVars == <<vars, posted>>

PathInit == Init /\ posted = << << >> >>

\* A publication arrives.
Deliver(listing) ==
  /\ Update(Delivered(listing))
  /\ posted' = Append(posted, listing)

PathNext ==
  \/ \E listing \in Listings : Deliver(listing)
  \/ /\ UNCHANGED posted
     /\ \E w \in Workers :
          \/ \E r \in Arrivals : Arrive(w, r)
          \/ Proceed(w)

PathSpec == PathInit /\ [][PathNext]_pathVars

-----------------------------------------------------------------------------
(* Properties *)

Written(spec, key) ==
  "object" \in DOMAIN spec.match /\ key \in DOMAIN spec.match.object

Filter(spec, key) == spec.match.object[key]

\* A filter that has the form of the examples in the features: a string, and
\* for methods a list of strings.
WellFormed(spec) ==
  /\ "object" \in DOMAIN spec.match
  /\ \A key \in {"path_prefix", "host"} :
       Written(spec, key) => "string" \in DOMAIN Filter(spec, key)
  /\ Written(spec, "method") =>
       /\ "array" \in DOMAIN Filter(spec, "method")
       /\ \A i \in DOMAIN Filter(spec, "method").array :
            "string" \in DOMAIN Filter(spec, "method").array[i]

\* What the rules say of a request, read from the JSON that was posted.
Admits(spec, r) ==
  /\ WellFormed(spec)
  /\ Written(spec, "path_prefix") => IsPrefix(Filter(spec, "path_prefix").string, r.path)
  /\ Written(spec, "host") =>
       LET host == Filter(spec, "host").string
       IN  host = Blank \/ (r.host # Absent /\ NormalHost[host] = NormalHost[r.host])
  /\ Written(spec, "method") =>
       LET items == Filter(spec, "method").array
       IN  DOMAIN items = {} \/ \E i \in DOMAIN items :
             FoldMethod[items[i].string] = FoldMethod[r.method]

\* Well-formed filters survive both conversions: the route that a request takes
\* was posted with filters that admit it, if they are well-formed, and a request
\* is turned away only if no posted route admits it.
RoutedAsWritten ==
  \A w \in Workers :
    LET specs == posted[held[w]]
    IN  /\ pc[w] = "selecting" /\ WellFormed(specs[best[w]]) =>
             Admits(specs[best[w]], request[w])
        /\ outcome[w] = "no route" =>
             \A n \in 1..Len(specs) : ~Admits(specs[n], request[w])

\* "Invalid configs fail fast" (gateway-planning-notes.md): a filter that is
\* written takes effect or the route is refused, so no request takes a route
\* whose rules do not admit it.
NoFilterIgnored ==
  \A w \in Workers : pc[w] = "selecting" =>
    Admits(posted[held[w]][best[w]], request[w])
=============================================================================
