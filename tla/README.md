# A verification project for the Yali gateway

Yali is a gateway of two kinds of processes.  `gateway-cp`, the control plane,
takes routes and policies through a REST API, keeps them in SQLite and streams
configuration snapshots over gRPC.  `gateway-dp`, the data plane, subscribes to
them, swaps its route table on every snapshot, and proxies requests.  This
directory models both and the streams between them in TLA+, checks the models
with TLC and proves the properties that matter most with TLAPS.

What it found, in one paragraph: the admin handlers are sound as far as the
database goes (no interleaving stores a route that its policies do not admit,
and every request takes effect at one instant), the migration of an old database
survives crashes and races, parameters are merged as the tests describe, the
streams converge, routing is deterministic, and well-formed filters reach the
requests unchanged.  Malformed filters are accepted and ignored.  And the
*publication* of the table is not reliable.  There are four ways in which the
channel falls behind the database and stays behind until some later request
publishes again: a listing that overlaps a later one and is sent after it, a
publication with nobody subscribed (which `watch::Sender::send` drops), a
handler that ends between its write and its listing, and a restart.  There is no
fifth, which is proved for the whole system, and three runs show what a gateway
makes of the first, the second and the fourth.

## Inventory

| Component | State | Operations | Talks to |
|---|---|---|---|
| Admin API `gateway-cp/src/api` | one task per request | create / update / delete route, create policy (reads change nothing) | validation, database, ConfigState |
| Validation `service/` | the loop's index and the failures so far | check a policy, check a route's references in order | database (one query per reference), merge |
| Merge `service/merge.rs` | the copy of the default configuration | lay a reference's parameters over it | validation |
| Route conversion `grpc/mod.rs`, `sync.rs` | none | JSON to message, message to route | ConfigState, CpSync |
| Database `db/` | tables `policies`, `routes` | one statement at a time, no transactions; migration at start | SQLite, pool of 8 connections |
| ConfigState `grpc/mod.rs` | `version`, the watch channel `tx` | list, number, send; subscribe | all handlers, all streams |
| Subscribe stream `grpc/mod.rs` | receiver, cloned initial value | initial value, first value, every change | the watch channel, HTTP/2 |
| CpSync `gateway-dp/src/sync.rs` | position in the connect / receive / sleep loop | connect, apply, retry, stop | control plane, State |
| State `state.rs` | an `ArcSwap` with the current snapshot | load, swap | CpSync, requests |
| Router `router/` | per-route round-robin counters | match, select an upstream | State |
| Proxy `proxy.rs` | one task per request | load, match, select, build a peer | State, Router, pingora |

Not listed: bootstrap configuration and logging (read once, pure I/O), the
placeholder crates `policy-sdk` and `policy-runtime`, the `_legacy_*.rs` files
that no `mod` names, and the integration tests.

What is hard here, and what makes each component correct:

* *Handlers* run concurrently, each in several queries, and can be dropped at
  any `await` or meet a database error.  Correct: a stored route is valid, a
  reply tells what happened, every request ends.
* *Publication* reads the table, takes a number and sends, unordered among
  handlers.  Correct: snapshots are whole tables, versions are unique, and the
  channel ends up with the latest table.
* *Streams* subscribe, clone and poll at three different times while snapshots
  are stored, skip what was stored in between, and run over links that break.
  Correct: the latest value is never the one that is missing, no client goes back
  to an earlier store, the client converges and stops when asked.
* *Conversions* turn JSON that nobody has validated into a message, and its
  empty fields into absent filters.  Correct: the request that takes a route is
  one that the JSON admits.
* *Merging* changes a copy while it walks over the parameters.  Correct: the
  result is that of laying one document over the other, path by path.
* *Requests* work on a snapshot while it is being replaced, and share counters.
  Correct: one snapshot per request, the best route whatever the order of the
  table, upstreams in turn, and no more imbalance than new snapshots explain.

`PROJECT.json` lists the hazards with the lines where they bite.

## Modules

```
ConfigProto ──┬── AdminApi ──┬── AdminStore          (abstract)
WatchChannel ─┤              └── ControlPlane ── implements AdminStore
              └── ConfigSync ── ConfigDelivery       (with a publisher of its own)
ControlPlane + ConfigSync ── Gateway                 (the whole system)
RouteMatch ─┬─ RequestRouting ─┬─ RoutePath          (from JSON to requests)
            └─ RouteConversion ┘
PolicyMerge                                          (inside validation)
SchemaMigration                                      (before serving)
```

* **ConfigProto** – the `Snapshot` message.  Routes have a unique id and are
  listed in its order, so a snapshot's routes are a function from ids to opaque
  bodies.
* **WatchChannel** – `tokio::sync::watch` as it is used: one slot, a store
  counter, and a `send` that does nothing without receivers.  The library is
  not in the repository, so the module is marked external; the behaviour of
  `send` is that of the version in `Cargo.lock`.
* **AdminApi** – requests, `validate_policy_spec`, and what one round of
  `validate_route_policies` decides.  A policy is its stages and an opaque
  configuration: hash, schema and default.  `SoundConfigs` are the configurations
  whose hash is not blank and whose default is an object that the schema, which
  compiles, accepts; what a schema makes of the default merged with parameters is
  the constant relation `Conforming`.  A row reads as it was inserted: the
  fallbacks of `row_to_policy` are for columns and JSON that `insert_policy` and
  the migration do not leave behind, and are not modelled.
* **AdminStore** – what the API promises: each request takes effect at one
  instant between arrival and answer, judged by the tables of that instant.
* **ControlPlane** – the handlers, one action per query or step: `Receive`,
  `CheckPolicy` (one reference), `EndValidation`, `InsertPolicy`,
  `InsertRoute`, `UpdateRoute`, `DeleteRoute`, `RefuseConflict`,
  `RefuseMissing`, `ListRoutes`, `BuildSnapshot`, `SendSnapshot`; the faults
  `DbError`, `Cancel` and `Crash`; and `Start`.  `pc` names the next thing a
  task does.  `rev` and `lost` are history variables: `rev` counts committed
  changes of `routes`, `lost` is the revision at which a publication was last
  lost.  They restrict no action.
* **ConfigSync** – server half, link and client half of each stream.  A stream
  whose client is gone keeps its receiver (`Lingering`) until the server
  notices.  `AcceptFails` ends the gRPC server and not the process: `run` awaits
  its task only after axum's server, which never ends.  A message with more than
  `DecodeLimit` routes stands for one above tonic's default limit for decoding.
  Messages are modelled with the number of the store they come from, and the
  history variable `taken` is the number that a data plane applied last; only
  properties read them.
* **ConfigDelivery** – ConfigSync with handlers that know no database: they take
  numbers (`BuildSnapshot`) and send some time later, in any order and with any
  table (`SendSnapshot`), as overlapping calls of `publish_from_db` do.  So what
  holds here holds of the streams, whoever publishes.
* **Gateway** – `ControlPlane` and `ConfigSync` over one channel.  The history
  variable `past` keeps the tables that the database has held.  `Publisher` is
  ControlPlane again, with one receiver that stands for all streams.
* **RouteMatch**, **RequestRouting** – `matches_route`, `is_better`, the loop of
  `match_route` one round at a time, `select_upstream`, `build_peer`, and
  `State::update` between any two of these steps.
  `CounterValues` is the number of values of a counter.  Balancing, weights,
  priorities and failover are left out because `snapshot_to_routes` drops them.
* **RouteConversion**, **RoutePath** – `parse_match`, `route_to_proto` and
  `snapshot_to_routes` on JSON values (records whose one field names the kind),
  and RequestRouting over tables that are *delivered*: listings of the routes
  table after both conversions.  `posted` keeps the listings, for the properties.
* **PolicyMerge** – `deep_merge_default_with_params`.  A document is a function
  from key paths to `Object` or a leaf.  One action is one round of the loop in
  `merge_objects`; the recursion is in `todo`, the paths still to be visited, so
  that any order of keys is allowed.
* **SchemaMigration** – `db::init`, statement by statement, in several processes
  that start on one database.  `column_exists` and `ALTER TABLE` are separate
  steps, so that a start can lose the race for a column and fail.  A row keeps
  of its columns the old and the new configuration.

Definitions whose comment begins with *Mutant of* are plausible bugs.  No
specification uses them; each shows that some property would notice the bug.

## Runs

| Run | Shows | Size |
|---|---|---|
| `admin_store` | validity of stored routes, the validation loop, refinement of AdminStore, every request ends | 2 tasks, 3 requests, 1 route, 2 policies, bodies with 0–2 good or bad references; disconnect, database error, crash |
| `publish` | versions, exact listings, the complete list of losses | 3 tasks, 3 requests, 1 route, 1 policy, one receiver that comes and goes; same faults; tasks symmetric |
| `streams` | a drained stream is current; order; convergence, stopping | 1 data plane, 2 routes, 2 numbers, sent in any order, window 2, 2 faults (link, listener or restart), 1 crash |
| `gateway` | what is served was stored; who has received everything serves the table, unless its publication was lost, and everybody gets there; refinement of ControlPlane | 2 tasks, 2 requests, 2 routes, 1 data plane; 1 crash, disconnects, 1 fault of a link, the listener or the data plane |
| `overlap` | *violated*: overlapping POSTs, a gateway that is always connected | 2 tasks, 2 routes, no faults |
| `late_subscriber` | *violated*: created before the gateway connects | 1 task, no faults |
| `restart` | *violated*: served, then lost after a restart | 1 task, 1 crash |
| `route_path` | the loop of `match_route`; filters mean what was posted | 1 request; every listing of 2 routes with 12 kinds of match rules and of 3 routes with 7, which tie in every respect but one |
| `filter_ignored` | *violated*: a malformed filter is no filter | as `route_path` |
| `turns` | routing under snapshot swaps, round robin with its wrap, drift of the loads, answers | 2 requests at a time, 5 in all, 2 swaps, counters of 4 values |
| `merge` | the merge at every step, its result, its end | 2 keys, 2 leaves, documents up to two levels deep, parameters that are absent or no object |
| `migration` | a process that serves finds everything migrated; every start succeeds in the end | 2 processes, 2 rows with an absent, an empty or another configuration, 2 deaths |

*Are the bounds enough?*  A race needs two handlers; the third of `publish` is
there because a listing can be overtaken by a send that is itself overtaken.
Three requests create, change and delete a route, or create the two policies of
one.  One data plane is enough for the properties of `ConfigSync`, because
streams share nothing but the channel, which they do not write, and the set of
receivers, of which the publisher asks only whether it is empty; a second
stream makes that less often so, which a receiver that is always present covers.
A window of two messages lets a stream be full; the empty table and two stores
let it skip one, and the two may be sent in the wrong order.  A counter of four
values wraps within five requests, and three upstreams do not divide it, which is
when the wrap shows.  `gateway` leaves out database
errors, which end a handler at the same places as a disconnect does.  Two nested
levels are enough for the merge, which does the same on every level;
`MergedByPathHolds` is proved for any depth.
Two deaths cut off each of two starts once, or one start twice, anywhere.

*Deadlock* is checked in `admin_store` and `publish`, where streams always come
and go.  In the other runs it is switched off: when all requests of
the bound have arrived and every link is quiet, both programs rightly wait, and
processes that have migrated a database wait when no key is left for a policy;
a merge that is done stops.

*Fairness.*  Steps of handlers, of the server's half and of the client's half
of a stream, and of requests are weakly fair, because the tokio and pingora
runtimes poll what is ready.  `Start` is, because whoever operates the control
plane starts it again; for the same reason the starts of `SchemaMigration` are,
which fail when they lose the race for a column.  `Stop` is strongly fair:
`select!` polls its branches in random order, so a shutdown that is requested is
not passed over for ever, but the sleep between attempts takes turns with it and
disables it.  Faults, arrivals, subscriptions and publications by others are
never fair.
`EventuallyCurrent` and `ServesUnlessLost` are conditional on what the code
cannot mend: the control plane stays up and its gRPC server listens (or the
stream is there already), the table fits a message, and the link is not silently
dead.  There is no keep-alive and no timeout, so a data plane whose peer vanishes
without closing the connection waits in `stream.message()` with the routes it has
until it is stopped or started again; nothing is claimed of it.  A merge is a
loop of one thread: `WF` on all its steps.

## The violations

* `overlap` – "A route created in control plane is applied in the gateway"
  (`gateway-it/features/cp_dp.feature:3`).  Handler A writes and lists, handler
  B writes, lists and sends, A sends: the channel now holds A's listing, which
  lacks B's route.  Nothing publishes again.
* `late_subscriber` – `let _ = self.tx.send(snapshot)` with no receiver stores
  nothing, so the gateway that connects next gets the empty snapshot.
* `restart` – `build_state_and_listener` publishes before the gRPC server
  exists, so for the same reason that send is always lost; gateways that
  reconnect apply the empty snapshot and stop serving every route.

Each of these counterexamples is found under fairness, so the route is not
merely late.

* `filter_ignored` – "Invalid configs fail fast with actionable errors."
  (`gateway-planning-notes.md:185`).  `RouteSpec.match_rules` is any JSON value;
  `parse_match` skips what has the wrong kind.  A route with
  `"method": "POST"` (no list) is accepted with 201 and takes GET requests.

## Proofs

All proofs are for arbitrary sets of tasks, routes, policies, bodies,
receivers, workers and tables, and for arbitrary bounds.  They rest on the named
assumptions about constants (`RequestVocabulary`, `ControlPlaneBounds`,
`NoRouteIsNoBody`, `StreamConstants`, `GatewayConstants`, `MatchVocabulary`,
`RoutingConstants`, `TablesAreDelivered`, `Documents`, `MigrationConstants`),
which TLC evaluates in the runs.

* `ControlPlaneProofs`
  * `TypeCorrect`.  `TypeOK` is inductive; it ties `pc` to `req`, which the
    other proofs need to know which request a task is serving.
  * `PublishedListingsAreExact`.  Inductive with the types: a change of the
    table raises `rev` above that of every listing there is.
  * `PublicationIsOwed`, and from it `StaleOnlyAfterLossHolds`.  That the channel
    is current when nobody runs is not inductive, since it says nothing about
    states in which somebody runs.  `PublicationOwed` is what does the work: the
    channel is behind only while a task that changed routes has yet to list, or
    is about to send a listing of the latest revision, or the loss was recorded.
    The step of `SendSnapshot` uses exact listings: what has the latest revision
    cannot be overtaken without loss.
  * `VersionsStayDistinct`.  Strengthened by `VersionsHandedOut`: every version
    in a draft or in the channel is at most the counter.
  * `ValidationIsStable`.  Policies are only ever added, so what a round of the
    loop has read stays true until the write.  This is why the missing
    transaction does no harm; an update or a deletion of policies would break it.
  * `StoredRoutesStayValid` follows from it at the write.
  * `HandlersImplementStore`.  Refinement mapping `storePhase`: validating
    without a failure and waiting to write are *pending*, a failure is the
    instant of rejection, the write is the instant of effect.  The step theorem
    has one case for every action and uses the two invariants above.
* `RequestRoutingProofs`
  * `is_better` is asymmetric, transitive and total on routes whose ids differ
    (lemmas), hence one more round of the loop keeps the best (`OneMore`), hence
    `BestSoFarHolds` and `RoutedByBestHolds`.
  * `RoutingTypeCorrect`.  Inductive together with `RoutingInv`, which gives the
    position of a request's route, and with `Shape`: snapshots, counters and
    choices are sequences of the same lengths.
  * `TakeTurnsHolds`.  The choices alone do not say whose turn is next; `Counted`
    adds that a counter is the number of choices made with it, modulo its width.
    So the turn starts over when the counter does, which is no error of the model:
    a width that the number of upstreams does not divide cuts the last round short.
  * `DriftBoundedHolds`.  A corollary of the turns, for any history of choices.
    Loads are compared by injections and not by counting: to a choice of a later
    upstream belongs the choice of the earlier one in the same round (`EarlierLoad`),
    and to a choice of an earlier upstream that of the later one, unless its round
    was cut short; then it is charged to the restart that began the counter's
    cycle (`LaterLoad`).  A cycle has one round that is cut short, so no restart is
    charged twice.
* `RoutePathProofs`
  * `RoutedAsWrittenHolds`.  For one route, a lemma per filter says that the
    converted filter holds of a request exactly when the written one does, if it
    is well-formed.  `PathInv` adds to the types of RequestRouting that each
    installed snapshot is its converted listing, and that a request that was
    turned away matched nothing in the snapshot it loaded.
  * `DeliveredRoutedByBest`: the same invariant carries the two properties of the
    loop of `match_route` over to the tables that are delivered.
* `ConfigSyncProofs` has no theorem about a specification, because ConfigSync has
  no publisher of its own.  `StreamInv` holds at the start and is kept by every
  step of the streams, by a store, by a start and by a crash (`StreamStepKeeps`,
  `StoreKeeps`, `StartKeeps`, `CrashKeeps`), whoever publishes.  That a drained
  stream is current says nothing of one with messages in flight; `Newest` does: a
  stream that has seen the latest store has it at the end of `wire`, or has
  applied it.  `InOrder` makes `StreamInOrder` inductive: what was applied, what is
  in flight, what the stream yields next (the cloned value, or the channel's) and
  the channel come from stores in this order.  Each step changes one stream
  (`OthersKeep`) or, like a store, only the channel.
* `ConfigDeliveryProofs`
  * `StreamsTypeCorrect`, `DrainedIsCurrentHolds`, `StreamInOrderHolds`, under a
    publisher that may send any table under any of its numbers at any time, from
    `StreamInv`.  Order is that of the stores.  Versions are *not* in order: a
    handler may number its snapshot first and send it last, so that a stream
    carries version 2 and then version 1.  What is shown is that the streams add
    no disorder of their own.
* `GatewayProofs`, which uses the theorems of two other modules through instances
  of them: `Whole` is ControlPlaneProofs with one receiver for all streams,
  `Streams` is ConfigSyncProofs.
  * `GatewayImplementsControlPlane`.  Every step of the system is a step of
    ControlPlane or a stutter.  A sender asks only whether there is a receiver, so
    the streams map to one receiver that is there while any of them is: the first
    to subscribe and the last to leave are `Subscribe` and `Unsubscribe`, the rest
    stutters.  With it all that is proved of ControlPlane holds of the system.
  * `GatewayStreamsHold`: types, `DrainedIsCurrent` and `StreamInOrder`, from the
    lemmas of ConfigSyncProofs with ControlPlane for the publisher.
  * `SettledServesTableHolds`, the end-to-end statement without time.  The channel
    is behind the table only after a loss (`StaleOnlyAfterLoss`), a stream that has
    nothing to deliver is not behind the channel (`DrainedIsCurrent`), and both
    conversions of a table together are `Desired` (`DecodeOfWire`).
  * `ServesWhatWasStoredHolds`.  `StoredInv` follows a snapshot through every
    place it passes: whatever a draft, the channel, a cloned initial value or a
    message in flight lists is a table of `past`, and what is applied is such a
    table, converted.
* `PolicyMergeProofs`
  * `MergeTypeCorrect`, `MergedSoFarHolds`, `MergedByPathHolds`, for documents of
    any depth and any set of keys.  `MergedSoFar` is the loop invariant of the
    whole recursion: the merged value is the default overlaid with the paths
    visited so far.  Strengthened by facts on `todo`: a path that waits has
    objects above it on both sides, and no path that waits is above another.
* `SchemaMigrationProofs`
  * `ServesMigratedHolds` and `MigrationTypeCorrect`.  The inductive
    `MigrationInv` says what each starter has `Reached` by where it is, and that
    a row whose default is not its configuration still has the `{}` it was given
    with the column: what is left to do can be told from the row, so a second
    backfill repeats or completes the first and harms no policy registered since.

*Only model-checked:* everything under fairness (`EveryRequestEnds`,
`EventuallyCurrent`, `StopsWhenAsked`, `ServesUnlessLost`,
`EveryRequestAnswered`, `EveryStartSucceeds`, `MergeEnds`), which is beyond the
prover.  Every invariant and every refinement that a run checks is proved.

## Not modelled, and the plan

The order was: the control plane, its abstract specification and the streams;
their composition; the request path; the migration; the conversions and the
merge; proofs of their safety.  That is done.
What is left, in order of value:

1. **Schema verdicts**: `Conforming` is any relation between configurations and
   parameters; what the `jsonschema` crate decides is not modelled.
2. **Reading policies back**: the fallbacks of `row_to_policy` for rows that
   another program wrote.

Left out for good: the contents of HTTP messages, TLS, logging and metrics,
bootstrap configuration, pingora's connection handling, and the GET handlers of
the admin API, which change no state.
