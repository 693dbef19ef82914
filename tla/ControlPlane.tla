---------------------------- MODULE ControlPlane ----------------------------
(***************************************************************************)
(* The gateway-cp process: the admin handlers of its REST API, the SQLite  *)
(* tables they write, and ConfigState, which publishes the table of routes *)
(* to the watch channel that configuration streams receive from.           *)
(*                                                                         *)
(* Handlers run as tasks of one multi-threaded runtime.  A task's pc is    *)
(* the next thing it does:                                                 *)
(*    "validate"  read the policy of its next reference (await)            *)
(*    "write"     execute its INSERT, UPDATE or DELETE  (await)            *)
(*    "list"      SELECT all routes for publish_from_db (await)            *)
(*    "build"     take a version number                                    *)
(*    "send"      put the snapshot into the channel                        *)
(* A single SQL statement is atomic.  A handler can be dropped (its client *)
(* went away) or meet a database error only where it awaits.               *)
(*                                                                         *)
(* rev and lost are history variables.  rev counts the committed changes   *)
(* of the routes table; lost is the value rev had when a publication was   *)
(* last lost: sent with no receiver, overtaken by the send of an older     *)
(* listing, cut off after its write, or forgotten by a restart.            *)
(***************************************************************************)
EXTENDS AdminApi, WatchChannel

CONSTANTS
  Receivers,     \* who may hold a receiver of the watch channel
  ToProto,       \* body -> wire body: route_to_proto
  MaxRequests,   \* bound: requests that arrive
  MaxCrashes     \* bound: crashes of the process

ASSUME ControlPlaneBounds ==
  /\ ToProto \in [Bodies -> WireBodies]
  /\ MaxRequests \in Nat
  /\ MaxCrashes \in Nat

VARIABLES
  policies,   \* table policies: key -> specification or NoPolicy
  routes,     \* table routes: id -> body or NoRoute
  version,    \* ConfigState.version
  chan,       \* ConfigState.tx
  receivers,  \* receivers that are alive
  up,         \* the process runs and serves
  pc, req,
  idx,        \* the validation loop's index
  ok,         \* no detail has been collected yet
  draft,      \* the snapshot publish_from_db is about to send
  reply,      \* the answer to the task's latest request
  requests, crashes,
  rev, lost

tables == <<policies, routes, rev>>
config == <<version, chan, receivers, lost>>
handlers == <<pc, req, idx, ok, draft, reply>>
bounds == <<requests, crashes>>
vars == <<policies, routes, version, chan, receivers, up, pc, req, idx, ok,
          draft, reply, requests, crashes, rev, lost>>

\* The rows as build_snapshot converts them.
Wire(table) ==
  [id \in RouteIds |-> IF table[id] = NoRoute THEN NoRoute
                                              ELSE ToProto[table[id]]]

WritesRoute(t) == req[t].op \in {"create_route", "update_route", "delete_route"}
Refs(t) == PoliciesOf[req[t].body]

Init ==
  /\ policies = [k \in PolicyKeys |-> NoPolicy]
  /\ routes = NoRoutes
  /\ version = 0
  /\ chan = NewChannel(EmptySnapshot)
  /\ receivers = {}
  /\ up = FALSE
  /\ pc = [t \in Tasks |-> "idle"]
  /\ req = [t \in Tasks |-> NoRequest]
  /\ idx = [t \in Tasks |-> 1]
  /\ ok = [t \in Tasks |-> TRUE]
  /\ draft = [t \in Tasks |-> EmptySnapshot]
  /\ reply = [t \in Tasks |-> "none"]
  /\ requests = 0
  /\ crashes = 0
  /\ rev = 0
  /\ lost = 0

\* Mutant of Finish: the task forgets to let go of its request.
FinishHolding(t, answer) ==
  /\ pc' = [pc EXCEPT ![t] = "idle"]
  /\ reply' = [reply EXCEPT ![t] = answer]
  /\ UNCHANGED <<req, idx, ok, draft>>

\* The handler of t ends and the client sees answer ("none" if it left).
Finish(t, answer) ==
  /\ pc' = [pc EXCEPT ![t] = "idle"]
  /\ req' = [req EXCEPT ![t] = NoRequest]
  /\ idx' = [idx EXCEPT ![t] = 1]
  /\ ok' = [ok EXCEPT ![t] = TRUE]
  /\ draft' = [draft EXCEPT ![t] = EmptySnapshot]
  /\ reply' = [reply EXCEPT ![t] = answer]

Goto(t, label) ==
  /\ pc' = [pc EXCEPT ![t] = label]
  /\ UNCHANGED <<req, idx, ok, draft, reply>>

-----------------------------------------------------------------------------
(* Requests *)

Arrives(t) ==
  /\ up
  /\ pc[t] = "idle"
  /\ requests < MaxRequests
  /\ requests' = requests + 1
  /\ UNCHANGED <<tables, config, up, crashes>>

\* A request reaches its handler.  Routes have their policies validated
\* first; a deletion, and a policy that is well formed, go to the database.
Receive(t, r) ==
  /\ Arrives(t)
  /\ r.op = "create_policy" => ValidSpec(r.spec)
  /\ pc' = [pc EXCEPT ![t] =
             IF r.op \in {"create_route", "update_route"} THEN "validate"
                                                          ELSE "write"]
  /\ req' = [req EXCEPT ![t] = r]
  /\ idx' = [idx EXCEPT ![t] = 1]
  /\ ok' = [ok EXCEPT ![t] = TRUE]
  /\ reply' = [reply EXCEPT ![t] = "none"]
  /\ UNCHANGED draft

RejectPolicy(t, r) ==
  /\ Arrives(t)
  /\ r.op = "create_policy"
  /\ ~ValidSpec(r.spec)
  /\ Finish(t, "invalid")

\* Mutant of CheckPolicy: the last reference decides.
CheckPolicyLast(t) ==
  /\ pc[t] = "validate"
  /\ idx[t] <= Len(Refs(t))
  /\ ok' = [ok EXCEPT ![t] = Admits(policies, Refs(t)[idx[t]])]
  /\ idx' = [idx EXCEPT ![t] = @ + 1]
  /\ UNCHANGED <<tables, config, up, pc, req, draft, reply, bounds>>

\* Mutant of CheckPolicy: a reference that fails is read again.
CheckPolicyAgain(t) ==
  /\ pc[t] = "validate"
  /\ idx[t] <= Len(Refs(t))
  /\ ok' = [ok EXCEPT ![t] = @ /\ Admits(policies, Refs(t)[idx[t]])]
  /\ idx' = [idx EXCEPT ![t] =
              IF Admits(policies, Refs(t)[@]) THEN @ + 1 ELSE @]
  /\ UNCHANGED <<tables, config, up, pc, req, draft, reply, bounds>>

\* One round of validate_route_policies: failures are collected, and the
\* loop goes on.
CheckPolicy(t) ==
  /\ pc[t] = "validate"
  /\ idx[t] <= Len(Refs(t))
  /\ ok' = [ok EXCEPT ![t] = @ /\ Admits(policies, Refs(t)[idx[t]])]
  /\ idx' = [idx EXCEPT ![t] = @ + 1]
  /\ UNCHANGED <<tables, config, up, pc, req, draft, reply, bounds>>

EndValidation(t) ==
  /\ pc[t] = "validate"
  /\ idx[t] > Len(Refs(t))
  /\ IF ok[t] THEN Goto(t, "write") ELSE Finish(t, "invalid")
  /\ UNCHANGED <<tables, config, up, bounds>>

-----------------------------------------------------------------------------
(* The write *)

AtWrite(t, op) ==
  /\ pc[t] = "write"
  /\ req[t].op = op
  /\ UNCHANGED <<config, up, bounds>>

\* Mutant of InsertPolicy: INSERT OR REPLACE.
ReplacePolicy(t) ==
  /\ AtWrite(t, "create_policy")
  /\ policies' = [policies EXCEPT ![req[t].key] = req[t].spec]
  /\ Goto(t, "list")
  /\ UNCHANGED <<routes, rev>>

InsertPolicy(t) ==
  /\ AtWrite(t, "create_policy")
  /\ policies[req[t].key] = NoPolicy
  /\ policies' = [policies EXCEPT ![req[t].key] = req[t].spec]
  /\ Goto(t, "list")
  /\ UNCHANGED <<routes, rev>>

StoreRoute(id, row) ==
  /\ routes' = [routes EXCEPT ![id] = row]
  /\ rev' = rev + 1
  /\ UNCHANGED policies

InsertRoute(t) ==
  /\ AtWrite(t, "create_route")
  /\ routes[req[t].id] = NoRoute
  /\ StoreRoute(req[t].id, req[t].body)
  /\ Goto(t, "list")

\* Mutant of UpdateRoute: a row that is missing is made.
UpsertRoute(t) ==
  /\ AtWrite(t, "update_route")
  /\ StoreRoute(req[t].id, req[t].body)
  /\ Goto(t, "list")

UpdateRoute(t) ==
  /\ AtWrite(t, "update_route")
  /\ routes[req[t].id] # NoRoute
  /\ StoreRoute(req[t].id, req[t].body)
  /\ Goto(t, "list")

\* Mutant of DeleteRoute: the deletion is not published.
DeleteRouteQuietly(t) ==
  /\ AtWrite(t, "delete_route")
  /\ routes[req[t].id] # NoRoute
  /\ StoreRoute(req[t].id, NoRoute)
  /\ Finish(t, "success")

DeleteRoute(t) ==
  /\ AtWrite(t, "delete_route")
  /\ routes[req[t].id] # NoRoute
  /\ StoreRoute(req[t].id, NoRoute)
  /\ Goto(t, "list")

\* The primary key is taken: 409, and nothing is published.
RefuseConflict(t) ==
  /\ \/ AtWrite(t, "create_policy") /\ policies[req[t].key] # NoPolicy
     \/ AtWrite(t, "create_route") /\ routes[req[t].id] # NoRoute
  /\ Finish(t, "conflict")
  /\ UNCHANGED tables

\* No row was affected: 404, and nothing is published.
RefuseMissing(t) ==
  /\ AtWrite(t, "update_route") \/ AtWrite(t, "delete_route")
  /\ routes[req[t].id] = NoRoute
  /\ Finish(t, "missing")
  /\ UNCHANGED tables

-----------------------------------------------------------------------------
(* publish_from_db *)

\* Mutant of ListRoutes: the rows are laid over what was published before.
OverlayRoutes(t) ==
  /\ pc[t] = "list"
  /\ draft' = [draft EXCEPT ![t] =
                [version |-> 0,
                 routes |-> [id \in RouteIds |->
                               IF routes[id] = NoRoute
                                 THEN chan.value.routes[id]
                                 ELSE ToProto[routes[id]]],
                 rev |-> rev]]
  /\ pc' = [pc EXCEPT ![t] = "build"]
  /\ UNCHANGED <<tables, config, up, req, idx, ok, reply, bounds>>

\* Mutant of ListRoutes: only the route that the request wrote is listed.
ListOwnRoute(t) ==
  /\ pc[t] = "list"
  /\ draft' = [draft EXCEPT ![t] =
                [version |-> 0,
                 routes |-> [id \in RouteIds |->
                               IF WritesRoute(t) /\ id = req[t].id
                                 THEN Wire(routes)[id] ELSE NoRoute],
                 rev |-> rev]]
  /\ pc' = [pc EXCEPT ![t] = "build"]
  /\ UNCHANGED <<tables, config, up, req, idx, ok, reply, bounds>>

ListRoutes(t) ==
  /\ pc[t] = "list"
  /\ draft' = [draft EXCEPT ![t] =
                [version |-> 0, routes |-> Wire(routes), rev |-> rev]]
  /\ pc' = [pc EXCEPT ![t] = "build"]
  /\ UNCHANGED <<tables, config, up, req, idx, ok, reply, bounds>>

\* Mutant of BuildSnapshot: the version is counted on from the channel's.
BuildFromChannel(t) ==
  /\ pc[t] = "build"
  /\ version' = chan.value.version + 1
  /\ draft' = [draft EXCEPT ![t].version = chan.value.version + 1]
  /\ pc' = [pc EXCEPT ![t] = "send"]
  /\ UNCHANGED <<tables, chan, receivers, lost, up, req, idx, ok, reply,
                 bounds>>

BuildSnapshot(t) ==
  /\ pc[t] = "build"
  /\ version' = version + 1
  /\ draft' = [draft EXCEPT ![t].version = version + 1]
  /\ pc' = [pc EXCEPT ![t] = "send"]
  /\ UNCHANGED <<tables, chan, receivers, lost, up, req, idx, ok, reply,
                 bounds>>

\* A send loses a publication when nobody receives, or when what it replaces
\* was listed later.
LosesPublication(t) ==
  \/ receivers = {}
  \/ draft[t].rev < chan.value.rev

\* Mutant of SendSnapshot: a snapshot with an older version than the
\* channel's is not sent.
SendIfNewer(t) ==
  /\ pc[t] = "send"
  /\ chan' = IF draft[t].version > chan.value.version
               THEN Send(chan, receivers, draft[t]) ELSE chan
  /\ lost' = IF LosesPublication(t) THEN rev ELSE lost
  /\ Finish(t, "success")
  /\ UNCHANGED <<tables, version, receivers, up, bounds>>

SendSnapshot(t) ==
  /\ pc[t] = "send"
  /\ chan' = Send(chan, receivers, draft[t])
  /\ lost' = IF LosesPublication(t) THEN rev ELSE lost
  /\ Finish(t, "success")
  /\ UNCHANGED <<tables, version, receivers, up, bounds>>

-----------------------------------------------------------------------------
(* Faults *)

Awaits(t) ==
  \/ /\ pc[t] = "validate"
     /\ idx[t] <= Len(Refs(t))
     /\ Refs(t)[idx[t]].params \in ObjectParams   \* else no query is made
  \/ pc[t] \in {"write", "list"}

\* Between its write and its listing, a task that changed routes owes a
\* publication; ending it there loses it.
GiveUp(t, answer) ==
  /\ Awaits(t)
  /\ lost' = IF pc[t] = "list" /\ WritesRoute(t) THEN rev ELSE lost
  /\ Finish(t, answer)
  /\ UNCHANGED <<tables, version, chan, receivers, up, bounds>>

\* A query fails.  While policies are read the error becomes a validation
\* error; later it is answered as an internal error.
DbError(t) ==
  /\ "db_error" \in Faults
  /\ GiveUp(t, IF pc[t] = "validate" THEN "invalid" ELSE "error")

\* The client disconnects and the server drops the handler's future.
Cancel(t) ==
  /\ "cancel" \in Faults
  /\ GiveUp(t, "none")

\* The process dies: tables stay, all else is gone.
Crash ==
  /\ "crash" \in Faults
  /\ up
  /\ crashes < MaxCrashes
  /\ crashes' = crashes + 1
  /\ up' = FALSE
  /\ version' = 0
  /\ chan' = NewChannel(EmptySnapshot)
  /\ receivers' = {}
  /\ pc' = [t \in Tasks |-> "idle"]
  /\ req' = [t \in Tasks |-> NoRequest]
  /\ idx' = [t \in Tasks |-> 1]
  /\ ok' = [t \in Tasks |-> TRUE]
  /\ draft' = [t \in Tasks |-> EmptySnapshot]
  /\ reply' = [t \in Tasks |-> "none"]
  /\ UNCHANGED <<tables, lost, requests>>

\* build_state_and_listener: a fresh ConfigState, then publish_from_db
\* before either server listens.
Start ==
  /\ ~up
  /\ up' = TRUE
  /\ version' = 1
  /\ chan' = Send(NewChannel(EmptySnapshot), receivers,
                  [version |-> 1, routes |-> Wire(routes), rev |-> rev])
  /\ lost' = rev
  /\ UNCHANGED <<tables, receivers, handlers, bounds>>

-----------------------------------------------------------------------------
(* Configuration streams, as far as the channel is concerned *)

Subscribe(r) ==
  /\ up
  /\ r \notin receivers
  /\ receivers' = receivers \cup {r}
  /\ UNCHANGED <<tables, version, chan, lost, up, handlers, bounds>>

Unsubscribe(r) ==
  /\ r \in receivers
  /\ receivers' = receivers \ {r}
  /\ UNCHANGED <<tables, version, chan, lost, up, handlers, bounds>>

-----------------------------------------------------------------------------

\* What a task does once it has its request.
Handle(t) ==
  \/ CheckPolicy(t) \/ EndValidation(t)
  \/ InsertPolicy(t) \/ InsertRoute(t) \/ UpdateRoute(t) \/ DeleteRoute(t)
  \/ RefuseConflict(t) \/ RefuseMissing(t)
  \/ ListRoutes(t) \/ BuildSnapshot(t) \/ SendSnapshot(t)

\* Everything the process does by itself or at its clients' hands.
ProcessNext ==
  \/ \E t \in Tasks :
       \/ \E r \in Requests : Receive(t, r) \/ RejectPolicy(t, r)
       \/ Handle(t)
       \/ DbError(t)
       \/ Cancel(t)
  \/ Start

StreamsNext == \E r \in Receivers : Subscribe(r) \/ Unsubscribe(r)

Next == ProcessNext \/ StreamsNext \/ Crash

Spec == Init /\ [][Next]_vars

\* The runtime polls every task that can go on, and operators restart a
\* process that died.
Fairness ==
  /\ \A t \in Tasks : WF_vars(Handle(t))
  /\ WF_vars(Start)

FairSpec == Spec /\ Fairness

-----------------------------------------------------------------------------
(* Properties *)

TablesType ==
  /\ policies \in PolicyTables
  /\ routes \in RouteTables
  /\ rev \in Nat

ConfigType ==
  /\ version \in Nat
  /\ chan \in [value : Snapshots, seq : Nat]
  /\ receivers \subseteq Receivers
  /\ lost \in Nat
  /\ up \in BOOLEAN

HandlersType ==
  /\ pc \in [Tasks -> {"idle", "validate", "write", "list", "build", "send"}]
  /\ req \in [Tasks -> Requests \cup {NoRequest}]
  /\ \A t \in Tasks :
       /\ pc[t] = "idle" <=> req[t] = NoRequest
       /\ pc[t] = "validate" => req[t] \in RouteWrites
  /\ idx \in [Tasks -> Nat \ {0}]
  /\ ok \in [Tasks -> BOOLEAN]
  /\ draft \in [Tasks -> Snapshots]
  /\ reply \in [Tasks -> Replies]

BoundsType ==
  /\ requests \in 0..MaxRequests
  /\ crashes \in 0..MaxCrashes

TypeOK == TablesType /\ ConfigType /\ HandlersType /\ BoundsType

\* Every stored route carries only policies that exist and admit it, however
\* the reads of validate_route_policies interleave with other handlers'
\* writes (api/routes.rs validates and writes in separate queries, without a
\* transaction).
StoredRoutesValid ==
  \A id \in RouteIds :
    routes[id] # NoRoute => AdmitsAll(policies, routes[id])

\* Within one life of the process no two snapshots share a version: not the
\* empty one the channel starts with, not the one it holds, not those that
\* concurrent handlers are about to send.
VersionsDistinct ==
  /\ chan.value.version = 0 => chan.value = EmptySnapshot
  /\ \A t \in Tasks : pc[t] = "send" =>
       /\ draft[t].version \in 1..version
       /\ draft[t].version # chan.value.version
       /\ \A u \in Tasks \ {t} :
            pc[u] = "send" => draft[u].version # draft[t].version

Quiescent == up /\ \A t \in Tasks : pc[t] = "idle"

\* When no handler is running, new subscribers are served the routes of the
\* table, unless the publication of the table's latest change was lost in
\* one of the ways that set lost: there is no other way for ConfigState to
\* fall behind the database.
StaleOnlyAfterLoss ==
  Quiescent /\ chan.value.routes # Wire(routes) => lost = rev

\* Why that is so: while the channel is behind, some handler that changed
\* routes has yet to list them, or is about to send a listing of the latest
\* revision.
PublicationOwed ==
  up =>
    \/ chan.value.rev = rev
    \/ lost = rev
    \/ \E t \in Tasks :
         /\ WritesRoute(t)
         /\ \/ pc[t] = "list"
            \/ pc[t] \in {"build", "send"} /\ draft[t].rev = rev

\* Nothing is published that the table did not contain as a whole: a snapshot
\* of the table's present revision, in the channel or in the hands of a
\* handler, lists the table exactly, and none is of a future revision.
Exact(snapshot) ==
  /\ snapshot.rev <= rev
  /\ snapshot.rev = rev => snapshot.routes = Wire(routes)

ListingsExact ==
  /\ rev = 0 => routes = NoRoutes
  /\ Exact(chan.value)
  /\ \A t \in Tasks : pc[t] \in {"build", "send"} => Exact(draft[t])

\* The loop invariant of validate_route_policies, which other handlers'
\* insertions of policies must not disturb, and what it leaves behind.
ValidatedSoFar ==
  \A t \in Tasks :
    /\ pc[t] = "validate" /\ ok[t] =>
         \A i \in 1..Len(Refs(t)) : i < idx[t] => Admits(policies, Refs(t)[i])
    /\ pc[t] = "write" /\ req[t].op \in {"create_route", "update_route"} =>
         AdmitsAll(policies, req[t].body)

\* A handler that runs comes to its end.
EveryRequestEnds ==
  \A t \in Tasks : pc[t] # "idle" ~> pc[t] = "idle"

\* The handlers implement requests that take effect at one instant: the
\* instant of a rejection is the read of the failing policy, the instant of
\* a write is the write.
storePhase ==
  [t \in Tasks |->
     CASE pc[t] = "idle" -> "idle"
       [] pc[t] = "validate" -> IF ok[t] THEN "pending" ELSE "rejected"
       [] pc[t] = "write" -> "pending"
       [] OTHER -> "committed"]

Store == INSTANCE AdminStore WITH phase <- storePhase
StoreSpec == Store!Spec
=============================================================================
