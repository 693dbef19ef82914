------------------------------ MODULE Gateway ------------------------------
(***************************************************************************)
(* The whole system: one control plane (ControlPlane), the data planes and *)
(* the streams between them (ConfigSync).  The two share the watch         *)
(* channel, its receivers and the life of the control plane; every other   *)
(* variable belongs to one of them, but for the history variable past:     *)
(* every table of routes that the database has held.                       *)
(***************************************************************************)
EXTENDS AdminApi, WatchChannel, FiniteSets

CONSTANTS
  ToProto, MaxRequests, MaxCrashes,                      \* ControlPlane
  DataPlanes, DpRoutes, FromProto, DecodeLimit, Window,
  LinkFaults, MaxFaults                                  \* ConfigSync

ASSUME GatewayConstants ==
  /\ ToProto \in [Bodies -> WireBodies]
  /\ FromProto \in [WireBodies -> DpRoutes]
  /\ NoRoute \notin DpRoutes
  /\ DecodeLimit \in Nat /\ Window \in Nat \ {0}
  /\ MaxRequests \in Nat /\ MaxCrashes \in Nat /\ MaxFaults \in Nat

VARIABLES
  chan, receivers, up,
  policies, routes, version, pc, req, idx, ok, draft, reply,
  requests, crashes, rev, lost,
  listening, client, link, phase, seen, initial, wire, applied, taken,
  shutdown, faults,
  past

cpVars == <<policies, routes, version, pc, req, idx, ok, draft, reply,
            requests, crashes, rev, lost>>
streamVars == <<listening, client, link, phase, seen, initial, wire, applied,
                taken, shutdown, faults>>
vars == <<chan, receivers, up, cpVars, streamVars, past>>

Receivers == DataPlanes \X {"live", "lingering"}

CP == INSTANCE ControlPlane
Sync == INSTANCE ConfigSync

Init == CP!Init /\ Sync!StreamInit /\ past = {routes}

StreamsStay == UNCHANGED streamVars /\ past' = past \cup {routes'}
CpStays == UNCHANGED <<cpVars, past>>

CpStep == CP!ProcessNext /\ StreamsStay
StreamStep == Sync!StreamNext /\ CpStays
Crash == CP!Crash /\ Sync!ServerDies /\ UNCHANGED past

Next == CpStep \/ StreamStep \/ Crash

Spec == Init /\ [][Next]_vars

\* Both runtimes poll whatever is ready; whoever runs the control plane
\* restarts it.
Fairness ==
  /\ \A t \in Tasks : WF_vars(CP!Handle(t) /\ StreamsStay)
  /\ WF_vars(CP!Start /\ StreamsStay)
  /\ \A d \in DataPlanes :
       /\ WF_vars(Sync!ServerStep(d) /\ CpStays)
       /\ WF_vars(Sync!ClientStep(d) /\ CpStays)

FairSpec == Spec /\ Fairness

-----------------------------------------------------------------------------
(* Properties *)

\* The routes of the database as a data plane would serve them.
Desired ==
  [id \in RouteIds |-> IF routes[id] = NoRoute
                         THEN NoRoute ELSE FromProto[ToProto[routes[id]]]]

Serves(d) == applied[d] = Desired

\* Seen from the control plane the streams come and go as ControlPlane lets
\* them, whatever happens to links and data planes: all that a sender asks is
\* whether there is any receiver.
Publisher == INSTANCE ControlPlane WITH
               Receivers <- {"streams"},
               receivers <- IF receivers = {} THEN {} ELSE {"streams"}
PublisherSpec == Publisher!Spec

\* A data plane never serves a mixture: what it serves is, route by route, one
\* table that the database has held, whatever was overtaken, skipped or lost on
\* the way.
ServesWhatWasStored ==
  \A d \in DataPlanes : \E table \in past :
    applied[d] = [id \in RouteIds |-> IF table[id] = NoRoute THEN NoRoute
                                       ELSE FromProto[ToProto[table[id]]]]

\* With no handler running, a data plane that has received all there is to
\* receive serves the table of the database, or the publication of the latest
\* change was lost.
SettledServesTable ==
  \A d \in DataPlanes :
    /\ CP!Quiescent
    /\ phase[d] = "watching" /\ wire[d] = << >> /\ ~HasChanged(chan, seen[d])
    => Serves(d) \/ lost = rev

TableFits == Cardinality({id \in RouteIds : routes[id] # NoRoute}) <= DecodeLimit

\* End to end: a data plane that stays in service, and has its stream when the
\* gRPC server has ended, ends up with the routes of the database, unless the
\* publication of their latest change was lost on the control plane's side.
ServesUnlessLost ==
  \A d \in DataPlanes :
    <>[](/\ up /\ TableFits
         /\ client[d] # "stopped" /\ link[d] # "silent"
         /\ listening \/ link[d] = "up")
      => <>[](Serves(d) \/ lost = rev)

Created(id) == <>[](up /\ routes[id] # NoRoute)
Applied(d, id) == <>[](applied[d][id] # NoRoute)

\* Every data plane has its stream before the first route is written, and
\* keeps it.
Watched == [](rev > 0 => \A d \in DataPlanes : link[d] = "up")

\* "A route created in control plane is applied in the gateway" (cp_dp.feature),
\* for gateways that are connected all the time.
CreatedIsAppliedWhenWatched ==
  Watched => \A d \in DataPlanes, id \in RouteIds : Created(id) => Applied(d, id)

\* "Runtime config is delivered as versioned snapshots over a gRPC stream"
\* (architecture.md), for gateways that connect whenever they do.
CreatedIsApplied ==
  \A d \in DataPlanes, id \in RouteIds : Created(id) => Applied(d, id)

\* The same for a route that the data plane has already served: once the
\* control plane and the table are stable, it is served again.
AppliedIsRestored ==
  \A d \in DataPlanes, id \in RouteIds :
    <>(applied[d][id] # NoRoute) /\ Created(id) => Applied(d, id)
=============================================================================
