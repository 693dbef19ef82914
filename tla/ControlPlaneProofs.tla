------------------------- MODULE ControlPlaneProofs -------------------------
(***************************************************************************)
(* What holds of ControlPlane for any set of tasks, routes, policies and   *)
(* receivers, any faults and any bounds: its types, what is published, the *)
(* validity of what is stored, and that it implements AdminStore.          *)
(***************************************************************************)
EXTENDS ControlPlane, TLAPS

-----------------------------------------------------------------------------
(* Types *)

\* The value that the channel starts with is a snapshot.
LEMMA EmptyType == EmptySnapshot \in Snapshots
BY DEF EmptySnapshot, Snapshots, NoRoutes, WireTables

\* The record that stands for no request is none.
LEMMA NoRequestIsNone == NoRequest \notin Requests
BY DEF NoRequest, Requests, RouteWrites, RouteDeletes, PolicyWrites

\* The rows convert to a table of the wire.
LEMMA WireType ==
  ASSUME NEW table \in RouteTables
  PROVE  Wire(table) \in WireTables
BY ControlPlaneBounds, RequestVocabulary DEF Wire, WireTables, RouteTables

\* Sending keeps the type of the channel.
LEMMA SendType ==
  ASSUME NEW ch \in [value : Snapshots, seq : Nat], NEW R,
         NEW v \in Snapshots
  PROVE  Send(ch, R, v) \in [value : Snapshots, seq : Nat]
BY DEF Send

\* Writing a row, or removing it, leaves a table of routes.
LEMMA StoreRouteType ==
  ASSUME TablesType, NEW id, NEW row \in Bodies \cup {NoRoute},
         StoreRoute(id, row)
  PROVE  TablesType'
<1>1. routes' \in RouteTables
  BY DEF TablesType, RouteTables, StoreRoute
<1>2. policies' \in PolicyTables /\ rev' \in Nat
  BY DEF TablesType, StoreRoute
<1> QED
  BY <1>1, <1>2 DEF TablesType

\* The initial state has the right types.
LEMMA InitType == Init => TypeOK
<1> SUFFICES ASSUME Init PROVE TypeOK
  OBVIOUS
<1>1. TablesType
  BY DEF Init, TablesType, PolicyTables, RouteTables, NoRoutes
<1>2. ConfigType
  BY EmptyType DEF Init, ConfigType, NewChannel
<1>3. HandlersType
  BY EmptyType DEF Init, HandlersType, Replies
<1>4. BoundsType
  BY ControlPlaneBounds DEF Init, BoundsType
<1> QED
  BY <1>1, <1>2, <1>3, <1>4 DEF TypeOK

\* Ending a handler keeps the types of what handlers own.
LEMMA FinishType ==
  ASSUME HandlersType, NEW t \in Tasks, NEW answer \in Replies,
         Finish(t, answer)
  PROVE  HandlersType'
BY EmptyType DEF HandlersType, Finish

\* So does moving on to the write or to the publication.
LEMMA GotoType ==
  ASSUME HandlersType, NEW t \in Tasks, pc[t] # "idle",
         NEW label \in {"write", "list"}, Goto(t, label)
  PROVE  HandlersType'
BY DEF HandlersType, Goto

\* Every step keeps the types.
LEMMA StepType == TypeOK /\ [Next]_vars => TypeOK'
<1> SUFFICES ASSUME TypeOK, [Next]_vars PROVE TypeOK'
  OBVIOUS
<1> USE DEF TypeOK
<1>1. ASSUME NEW t \in Tasks, NEW r \in Requests, Receive(t, r)
      PROVE  TypeOK'
  <2>1. BoundsType' /\ TablesType' /\ ConfigType'
    BY <1>1, ControlPlaneBounds DEF Receive, Arrives, BoundsType,
                TablesType, ConfigType, tables, config
  <2>2. HandlersType'
    <3>1. r # NoRequest
      BY NoRequestIsNone
    <3>2. r.op \in {"create_route", "update_route"} => r \in RouteWrites
      BY DEF Requests, RouteWrites, RouteDeletes, PolicyWrites
    <3> QED
      BY <1>1, <3>1, <3>2 DEF Receive, HandlersType, Replies
  <2> QED
    BY <2>1, <2>2
<1>2. ASSUME NEW t \in Tasks, NEW r \in Requests, RejectPolicy(t, r)
      PROVE  TypeOK'
  <2>1. BoundsType' /\ TablesType' /\ ConfigType'
    BY <1>2, ControlPlaneBounds DEF RejectPolicy, Arrives, BoundsType,
                TablesType, ConfigType, tables, config
  <2>2. HandlersType'
    BY <1>2, FinishType DEF RejectPolicy, Replies
  <2> QED
    BY <2>1, <2>2
<1>3. ASSUME NEW t \in Tasks, CheckPolicy(t)
      PROVE  TypeOK'
  <2>1. BoundsType' /\ TablesType' /\ ConfigType'
    BY <1>3 DEF CheckPolicy, BoundsType, TablesType, ConfigType, tables,
                config, bounds
  <2>2. (ok[t] /\ Admits(policies, Refs(t)[idx[t]])) \in BOOLEAN
    BY DEF HandlersType
  <2>3. HandlersType'
    BY <1>3, <2>2 DEF CheckPolicy, HandlersType
  <2> QED
    BY <2>1, <2>3
<1>4. ASSUME NEW t \in Tasks, EndValidation(t)
      PROVE  TypeOK'
  <2>1. BoundsType' /\ TablesType' /\ ConfigType'
    BY <1>4 DEF EndValidation, BoundsType, TablesType, ConfigType, tables,
                config, bounds
  <2>2. HandlersType'
    BY <1>4, FinishType, GotoType DEF EndValidation, Replies
  <2> QED
    BY <2>1, <2>2
<1>5. ASSUME NEW t \in Tasks, InsertPolicy(t)
      PROVE  TypeOK'
  <2>1. BoundsType' /\ ConfigType' /\ HandlersType'
    BY <1>5, GotoType DEF InsertPolicy, AtWrite, BoundsType, ConfigType,
                          config, bounds
  <2>2. req[t] \in PolicyWrites
    BY <1>5, NoRequestIsNone
    DEF InsertPolicy, AtWrite, HandlersType, Requests, RouteWrites,
        RouteDeletes, PolicyWrites, NoRequest
  <2>3. TablesType'
    BY <1>5, <2>2 DEF InsertPolicy, TablesType, PolicyTables, PolicyWrites
  <2> QED
    BY <2>1, <2>3
<1>6. ASSUME NEW t \in Tasks, InsertRoute(t) \/ UpdateRoute(t)
      PROVE  TypeOK'
  <2>1. BoundsType' /\ ConfigType' /\ HandlersType'
    BY <1>6, GotoType DEF InsertRoute, UpdateRoute, AtWrite, BoundsType,
                          ConfigType, config, bounds
  <2>2. req[t] \in RouteWrites
    BY <1>6, NoRequestIsNone
    DEF InsertRoute, UpdateRoute, AtWrite, HandlersType, Requests,
        RouteWrites, RouteDeletes, PolicyWrites, NoRequest
  <2>3. TablesType'
    BY <1>6, <2>2, StoreRouteType DEF InsertRoute, UpdateRoute, RouteWrites
  <2> QED
    BY <2>1, <2>3
<1>7. ASSUME NEW t \in Tasks, DeleteRoute(t)
      PROVE  TypeOK'
  <2>1. BoundsType' /\ ConfigType' /\ HandlersType'
    BY <1>7, GotoType DEF DeleteRoute, AtWrite, BoundsType, ConfigType,
                          config, bounds
  <2>2. TablesType'
    BY <1>7, StoreRouteType DEF DeleteRoute
  <2> QED
    BY <2>1, <2>2
<1>8. ASSUME NEW t \in Tasks, RefuseConflict(t) \/ RefuseMissing(t)
      PROVE  TypeOK'
  <2>1. BoundsType' /\ TablesType' /\ ConfigType'
    BY <1>8 DEF RefuseConflict, RefuseMissing, AtWrite, BoundsType,
                TablesType, ConfigType, tables, config, bounds
  <2>2. HandlersType'
    BY <1>8, FinishType DEF RefuseConflict, RefuseMissing, Replies
  <2> QED
    BY <2>1, <2>2
<1>9. ASSUME NEW t \in Tasks, ListRoutes(t)
      PROVE  TypeOK'
  <2>1. BoundsType' /\ TablesType' /\ ConfigType'
    BY <1>9 DEF ListRoutes, BoundsType, TablesType, ConfigType, tables,
                config, bounds
  <2>2. [version |-> 0, routes |-> Wire(routes), rev |-> rev] \in Snapshots
    BY WireType DEF TablesType, Snapshots
  <2>3. HandlersType'
    BY <1>9, <2>2 DEF ListRoutes, HandlersType
  <2> QED
    BY <2>1, <2>3
<1>10. ASSUME NEW t \in Tasks, BuildSnapshot(t)
       PROVE  TypeOK'
  <2>1. BoundsType' /\ TablesType' /\ ConfigType'
    BY <1>10 DEF BuildSnapshot, BoundsType, TablesType, ConfigType, tables,
                 bounds
  <2>2. [draft[t] EXCEPT !.version = version + 1] \in Snapshots
    BY DEF HandlersType, ConfigType, Snapshots
  <2>3. HandlersType'
    BY <1>10, <2>2 DEF BuildSnapshot, HandlersType
  <2> QED
    BY <2>1, <2>3
<1>11. ASSUME NEW t \in Tasks, SendSnapshot(t)
       PROVE  TypeOK'
  <2>1. BoundsType' /\ TablesType'
    BY <1>11 DEF SendSnapshot, BoundsType, TablesType, tables, bounds
  <2>2. ConfigType'
    BY <1>11, SendType DEF SendSnapshot, ConfigType, HandlersType, TablesType
  <2>3. HandlersType'
    BY <1>11, FinishType DEF SendSnapshot, Replies
  <2> QED
    BY <2>1, <2>2, <2>3
<1>12. ASSUME NEW t \in Tasks, DbError(t) \/ Cancel(t)
       PROVE  TypeOK'
  <2>1. BoundsType' /\ TablesType' /\ ConfigType'
    BY <1>12 DEF DbError, Cancel, GiveUp, BoundsType, TablesType, ConfigType,
                 tables, bounds
  <2>2. HandlersType'
    BY <1>12, FinishType DEF DbError, Cancel, GiveUp, Replies
  <2> QED
    BY <2>1, <2>2
<1>13. ASSUME Crash
       PROVE  TypeOK'
  <2>1. TablesType' /\ ConfigType'
    BY <1>13, EmptyType DEF Crash, TablesType, ConfigType, NewChannel, tables
  <2>2. HandlersType'
    BY <1>13, EmptyType DEF Crash, HandlersType, Replies
  <2>3. BoundsType'
    BY <1>13, ControlPlaneBounds DEF Crash, BoundsType
  <2> QED
    BY <2>1, <2>2, <2>3
<1>14. ASSUME Start
       PROVE  TypeOK'
  <2>1. [version |-> 1, routes |-> Wire(routes), rev |-> rev] \in Snapshots
    BY WireType DEF TablesType, Snapshots
  <2>2. NewChannel(EmptySnapshot) \in [value : Snapshots, seq : Nat]
    BY EmptyType DEF NewChannel
  <2>3. ConfigType'
    BY <1>14, <2>1, <2>2, SendType DEF Start, ConfigType, TablesType
  <2>4. BoundsType' /\ TablesType' /\ HandlersType'
    BY <1>14 DEF Start, BoundsType, TablesType, HandlersType, tables, bounds,
                 handlers
  <2> QED
    BY <2>3, <2>4
<1>15. ASSUME NEW r \in Receivers, Subscribe(r) \/ Unsubscribe(r)
       PROVE  TypeOK'
  BY <1>15 DEF Subscribe, Unsubscribe, BoundsType, TablesType, ConfigType,
               HandlersType, tables, bounds, handlers
<1>16. ASSUME UNCHANGED vars
       PROVE  TypeOK'
  BY <1>16 DEF vars, BoundsType, TablesType, ConfigType, HandlersType
<1> QED
  BY <1>1, <1>2, <1>3, <1>4, <1>5, <1>6, <1>7, <1>8, <1>9, <1>10, <1>11,
     <1>12, <1>13, <1>14, <1>15, <1>16
  DEF Next, ProcessNext, StreamsNext, Handle

\* Every variable of the control plane keeps its type, whatever the handlers,
\* the faults and the streams do.
THEOREM TypeCorrect == Spec => []TypeOK
BY InitType, StepType, PTL DEF Spec

-----------------------------------------------------------------------------
(* What is published *)

\* An empty table is an empty snapshot.
LEMMA WireOfNoRoutes == Wire(NoRoutes) = NoRoutes
BY DEF Wire, NoRoutes

\* A step that touches neither the table nor the channel, and brings no task
\* to a listing, keeps every listing exact.
LEMMA QuietExact ==
  ASSUME ListingsExact, UNCHANGED <<routes, rev, chan>>,
         \A t \in Tasks : pc'[t] \in {"build", "send"} =>
           pc'[t] = pc[t] /\ draft'[t] = draft[t]
  PROVE  ListingsExact'
BY DEF ListingsExact, Exact, Wire

\* A change of the table makes every listing there is an old one.
LEMMA StoreExact ==
  ASSUME TypeOK, ListingsExact, NEW t \in Tasks, NEW id, NEW row,
         StoreRoute(id, row), Goto(t, "list"), UNCHANGED chan
  PROVE  ListingsExact'
<1>1. rev \in Nat /\ rev' = rev + 1
  BY DEF TypeOK, TablesType, StoreRoute
<1>2. chan.value.rev \in Nat
  BY DEF TypeOK, ConfigType, Snapshots
<1>3. \A u \in Tasks : draft[u].rev \in Nat
  BY DEF TypeOK, HandlersType, Snapshots
<1>4. Exact(chan.value)'
  BY <1>1, <1>2 DEF ListingsExact, Exact
<1>5. ASSUME NEW u \in Tasks, pc'[u] \in {"build", "send"}
      PROVE  Exact(draft[u])'
  <2>1. pc[u] \in {"build", "send"} /\ draft'[u] = draft[u]
    BY <1>5 DEF Goto, TypeOK, HandlersType
  <2> QED
    BY <1>1, <1>3, <2>1 DEF ListingsExact, Exact
<1> QED
  BY <1>1, <1>4, <1>5 DEF ListingsExact

\* The listings are exact initially and after every step.
LEMMA InitExact == Init => ListingsExact
BY WireOfNoRoutes DEF Init, ListingsExact, Exact, NewChannel, EmptySnapshot

\* Only ListRoutes makes a listing, of the table as it is, and only a send
\* or a start puts one into the channel.
LEMMA StepExact == TypeOK /\ ListingsExact /\ [Next]_vars => ListingsExact'
<1> SUFFICES ASSUME TypeOK, ListingsExact, [Next]_vars PROVE ListingsExact'
  OBVIOUS
<1>1. ASSUME NEW t \in Tasks, NEW r \in Requests,
             Receive(t, r) \/ RejectPolicy(t, r)
      PROVE  ListingsExact'
  BY <1>1, QuietExact DEF Receive, RejectPolicy, Arrives, Finish, TypeOK,
                          HandlersType, tables, config
<1>2. ASSUME NEW t \in Tasks,
             \/ CheckPolicy(t) \/ EndValidation(t) \/ InsertPolicy(t)
             \/ RefuseConflict(t) \/ RefuseMissing(t)
             \/ DbError(t) \/ Cancel(t)
      PROVE  ListingsExact'
  BY <1>2, QuietExact
  DEF CheckPolicy, EndValidation, InsertPolicy, RefuseConflict,
      RefuseMissing, DbError, Cancel, GiveUp, AtWrite, Finish, Goto, TypeOK,
      HandlersType, tables, config
<1>3. ASSUME NEW t \in Tasks,
             InsertRoute(t) \/ UpdateRoute(t) \/ DeleteRoute(t)
      PROVE  ListingsExact'
  BY <1>3, StoreExact DEF InsertRoute, UpdateRoute, DeleteRoute, AtWrite, config
<1>4. ASSUME NEW t \in Tasks, ListRoutes(t)
      PROVE  ListingsExact'
  <2>1. draft'[t].rev = rev' /\ draft'[t].routes = Wire(routes)'
    BY <1>4 DEF ListRoutes, TypeOK, HandlersType, tables, Wire
  <2>2. UNCHANGED <<routes, rev, chan>>
    BY <1>4 DEF ListRoutes, tables, config
  <2>3. \A u \in Tasks \ {t} : pc'[u] = pc[u] /\ draft'[u] = draft[u]
    BY <1>4 DEF ListRoutes, TypeOK, HandlersType
  <2> QED
    BY <2>1, <2>2, <2>3 DEF ListingsExact, Exact, Wire, TypeOK, TablesType
<1>5. ASSUME NEW t \in Tasks, BuildSnapshot(t)
      PROVE  ListingsExact'
  <2>1. UNCHANGED <<routes, rev, chan>>
    BY <1>5 DEF BuildSnapshot, tables
  <2>2. \A u \in Tasks : /\ draft'[u].rev = draft[u].rev
                         /\ draft'[u].routes = draft[u].routes
                         /\ u # t => pc'[u] = pc[u]
    BY <1>5 DEF BuildSnapshot, TypeOK, HandlersType, Snapshots
  <2>3. pc[t] = "build"
    BY <1>5 DEF BuildSnapshot
  <2> QED
    BY <2>1, <2>2, <2>3 DEF ListingsExact, Exact, Wire
<1>6. ASSUME NEW t \in Tasks, SendSnapshot(t)
      PROVE  ListingsExact'
  <2>1. UNCHANGED <<routes, rev>>
    BY <1>6 DEF SendSnapshot, tables
  <2>2. \A u \in Tasks : pc'[u] \in {"build", "send"} =>
                           pc'[u] = pc[u] /\ draft'[u] = draft[u]
    BY <1>6 DEF SendSnapshot, Finish, TypeOK, HandlersType
  <2>3. chan'.value \in {chan.value, draft[t]} /\ pc[t] = "send"
    BY <1>6 DEF SendSnapshot, Send
  <2> QED
    BY <2>1, <2>2, <2>3 DEF ListingsExact, Exact, Wire
<1>7. ASSUME Crash
      PROVE  ListingsExact'
  <2>1. Exact(EmptySnapshot)'
    BY <1>7, WireOfNoRoutes
    DEF Crash, ListingsExact, Exact, EmptySnapshot, Wire, tables, TypeOK,
        TablesType
  <2> QED
    BY <1>7, <2>1 DEF Crash, ListingsExact, NewChannel, tables
<1>8. ASSUME Start
      PROVE  ListingsExact'
  <2>1. UNCHANGED <<routes, rev, pc, draft>>
    BY <1>8 DEF Start, tables, handlers
  <2>2. \/ chan'.value = EmptySnapshot
        \/ chan'.value.rev = rev /\ chan'.value.routes = Wire(routes)
    BY <1>8 DEF Start, Send, NewChannel
  <2>3. Exact(chan.value)'
    BY <2>1, <2>2, WireOfNoRoutes
    DEF ListingsExact, Exact, EmptySnapshot, Wire, TypeOK, TablesType
  <2> QED
    BY <2>1, <2>3 DEF ListingsExact, Exact, Wire
<1>9. ASSUME NEW r \in Receivers, Subscribe(r) \/ Unsubscribe(r)
      PROVE  ListingsExact'
  BY <1>9, QuietExact DEF Subscribe, Unsubscribe, tables, handlers
<1>10. ASSUME UNCHANGED vars
       PROVE  ListingsExact'
  BY <1>10, QuietExact DEF vars
<1> QED
  BY <1>1, <1>2, <1>3, <1>4, <1>5, <1>6, <1>7, <1>8, <1>9, <1>10
  DEF Next, ProcessNext, StreamsNext, Handle

\* A snapshot of the present revision lists the present table, wherever it is
\* on its way from the database to the streams.
THEOREM PublishedListingsAreExact == Spec => []ListingsExact
BY TypeCorrect, InitExact, StepExact, PTL DEF Spec

\* A step that starts from no debt, and leaves the table, the channel and the
\* record of losses alone, leaves the debt with the tasks that had it.
LEMMA QuietOwed ==
  ASSUME PublicationOwed, up, UNCHANGED <<rev, chan, lost>>,
         \A t \in Tasks :
           WritesRoute(t) /\ pc[t] \in {"list", "build", "send"} =>
             pc'[t] = pc[t] /\ draft'[t] = draft[t] /\ req'[t] = req[t]
  PROVE  PublicationOwed'
BY DEF PublicationOwed, WritesRoute

\* The process that has not started owes nothing.
LEMMA InitOwed == Init => PublicationOwed
BY DEF Init, PublicationOwed

\* A write makes its own task owe the publication; a task that stops owing it
\* has sent the latest revision, or has set lost.
LEMMA StepOwed ==
  TypeOK /\ ListingsExact /\ PublicationOwed /\ [Next]_vars => PublicationOwed'
<1> SUFFICES ASSUME TypeOK, ListingsExact, PublicationOwed, [Next]_vars
             PROVE  PublicationOwed'
  OBVIOUS
<1>1. ASSUME NEW t \in Tasks, NEW r \in Requests,
             Receive(t, r) \/ RejectPolicy(t, r)
      PROVE  PublicationOwed'
  <2>1. pc[t] = "idle" /\ up /\ UNCHANGED <<rev, chan, lost>>
    BY <1>1 DEF Receive, RejectPolicy, Arrives, tables, config
  <2>2. \A u \in Tasks \ {t} :
          pc'[u] = pc[u] /\ draft'[u] = draft[u] /\ req'[u] = req[u]
    BY <1>1 DEF Receive, RejectPolicy, Finish, TypeOK, HandlersType
  <2> QED
    BY <2>1, <2>2, QuietOwed
<1>2. ASSUME NEW t \in Tasks,
             \/ CheckPolicy(t) \/ EndValidation(t) \/ InsertPolicy(t)
             \/ RefuseConflict(t) \/ RefuseMissing(t)
      PROVE  PublicationOwed'
  <2>1. /\ pc[t] \in {"validate", "write"}
        /\ UNCHANGED <<rev, chan, lost, up>>
    BY <1>2 DEF CheckPolicy, EndValidation, InsertPolicy, RefuseConflict,
                RefuseMissing, AtWrite, tables, config
  <2>2. \A u \in Tasks \ {t} :
          pc'[u] = pc[u] /\ draft'[u] = draft[u] /\ req'[u] = req[u]
    BY <1>2 DEF CheckPolicy, EndValidation, InsertPolicy, RefuseConflict,
                RefuseMissing, Finish, Goto, TypeOK, HandlersType
  <2>3. CASE up
    BY <2>1, <2>2, <2>3, QuietOwed
  <2>4. CASE ~up
    BY <2>1, <2>4 DEF PublicationOwed
  <2> QED
    BY <2>3, <2>4
<1>3. ASSUME NEW t \in Tasks,
             InsertRoute(t) \/ UpdateRoute(t) \/ DeleteRoute(t)
      PROVE  PublicationOwed'
  <2>1. WritesRoute(t)' /\ pc'[t] = "list"
    BY <1>3 DEF InsertRoute, UpdateRoute, DeleteRoute, AtWrite, Goto,
                WritesRoute, TypeOK, HandlersType
  <2> QED
    BY <2>1 DEF PublicationOwed
<1>4. ASSUME NEW t \in Tasks, ListRoutes(t)
      PROVE  PublicationOwed'
  <2>1. /\ pc[t] = "list" /\ pc'[t] = "build"
        /\ draft'[t].rev = rev
        /\ UNCHANGED <<rev, chan, lost, up, req>>
    BY <1>4 DEF ListRoutes, TypeOK, HandlersType, tables, config
  <2>2. \A u \in Tasks \ {t} : pc'[u] = pc[u] /\ draft'[u] = draft[u]
    BY <1>4 DEF ListRoutes, TypeOK, HandlersType
  <2> QED
    BY <2>1, <2>2 DEF PublicationOwed, WritesRoute
<1>5. ASSUME NEW t \in Tasks, BuildSnapshot(t)
      PROVE  PublicationOwed'
  <2>1. /\ pc[t] = "build" /\ pc'[t] = "send"
        /\ draft'[t].rev = draft[t].rev
        /\ UNCHANGED <<rev, chan, lost, up, req>>
    BY <1>5 DEF BuildSnapshot, TypeOK, HandlersType, Snapshots, tables
  <2>2. \A u \in Tasks \ {t} : pc'[u] = pc[u] /\ draft'[u] = draft[u]
    BY <1>5 DEF BuildSnapshot, TypeOK, HandlersType
  <2> QED
    BY <2>1, <2>2 DEF PublicationOwed, WritesRoute
<1>6. ASSUME NEW t \in Tasks, SendSnapshot(t)
      PROVE  PublicationOwed'
  <2>1. UNCHANGED <<rev, up>> /\ pc[t] = "send"
    BY <1>6 DEF SendSnapshot, tables
  <2>2. CASE LosesPublication(t)
    BY <1>6, <2>1, <2>2 DEF SendSnapshot, PublicationOwed
  <2>3. CASE ~LosesPublication(t)
    <3>1. chan'.value = draft[t] /\ lost' = lost
      BY <1>6, <2>3 DEF SendSnapshot, Send, LosesPublication
    <3>2. /\ draft[t].rev \in Nat /\ chan.value.rev \in Nat /\ rev \in Nat
          /\ draft[t].rev <= rev
          /\ chan.value.rev <= draft[t].rev
      BY <2>1, <2>3 DEF LosesPublication, ListingsExact, Exact, TypeOK,
                        HandlersType, ConfigType, TablesType, Snapshots
    <3>3. \A u \in Tasks \ {t} :
            pc'[u] = pc[u] /\ draft'[u] = draft[u] /\ req'[u] = req[u]
      BY <1>6 DEF SendSnapshot, Finish, TypeOK, HandlersType
    <3>4. CASE draft[t].rev = rev
      BY <2>1, <3>1, <3>4 DEF PublicationOwed
    <3>5. CASE draft[t].rev # rev
      <4>1. chan.value.rev # rev
        BY <3>2, <3>5
      <4> QED
        BY <2>1, <3>1, <3>3, <3>5, <4>1 DEF PublicationOwed, WritesRoute
    <3> QED
      BY <3>4, <3>5
  <2> QED
    BY <2>2, <2>3
<1>7. ASSUME NEW t \in Tasks, DbError(t) \/ Cancel(t)
      PROVE  PublicationOwed'
  <2>1. PICK answer : GiveUp(t, answer)
    BY <1>7 DEF DbError, Cancel
  <2>2. UNCHANGED <<rev, chan, up>> /\ pc[t] \in {"validate", "write", "list"}
    BY <2>1 DEF GiveUp, Awaits, tables
  <2>3. CASE pc[t] = "list" /\ WritesRoute(t)
    BY <2>1, <2>2, <2>3 DEF GiveUp, PublicationOwed
  <2>4. CASE ~(pc[t] = "list" /\ WritesRoute(t))
    <3>1. lost' = lost
      BY <2>1, <2>4 DEF GiveUp
    <3>2. \A u \in Tasks \ {t} :
            pc'[u] = pc[u] /\ draft'[u] = draft[u] /\ req'[u] = req[u]
      BY <2>1 DEF GiveUp, Finish, TypeOK, HandlersType
    <3>3. CASE up
      BY <2>2, <2>4, <3>1, <3>2, <3>3, QuietOwed
    <3>4. CASE ~up
      BY <2>2, <3>4 DEF PublicationOwed
    <3> QED
      BY <3>3, <3>4
  <2> QED
    BY <2>3, <2>4
<1>8. ASSUME Crash \/ Start
      PROVE  PublicationOwed'
  BY <1>8 DEF Crash, Start, PublicationOwed, tables
<1>9. ASSUME NEW r \in Receivers, Subscribe(r) \/ Unsubscribe(r)
      PROVE  PublicationOwed'
  BY <1>9 DEF Subscribe, Unsubscribe, PublicationOwed, WritesRoute, tables,
              handlers
<1>10. ASSUME UNCHANGED vars
       PROVE  PublicationOwed'
  BY <1>10 DEF vars, PublicationOwed, WritesRoute
<1> QED
  BY <1>1, <1>2, <1>3, <1>4, <1>5, <1>6, <1>7, <1>8, <1>9, <1>10
  DEF Next, ProcessNext, StreamsNext, Handle

\* While the channel is behind the table, a handler owes the publication or
\* the publication was lost.
THEOREM PublicationIsOwed == Spec => []PublicationOwed
BY TypeCorrect, PublishedListingsAreExact, InitOwed, StepOwed, PTL DEF Spec

\* With no handler running, what new subscribers get is the table, or the
\* publication of its latest change was lost.
THEOREM StaleOnlyAfterLossHolds == Spec => []StaleOnlyAfterLoss
<1>1. TypeOK /\ ListingsExact /\ PublicationOwed => StaleOnlyAfterLoss
  BY DEF StaleOnlyAfterLoss, Quiescent, PublicationOwed, ListingsExact, Exact
<1> QED
  BY <1>1, TypeCorrect, PublishedListingsAreExact, PublicationIsOwed, PTL

-----------------------------------------------------------------------------
(* Versions *)

\* Strengthening: versions are handed out from the counter, and a process that
\* is down has no handler and no receiver.
VersionsHandedOut ==
  /\ chan.value.version <= version
  /\ ~up => receivers = {} /\ \A t \in Tasks : pc[t] = "idle"

VersionsInv == VersionsDistinct /\ VersionsHandedOut

\* Nothing has a version but the empty snapshot.
LEMMA InitVersions == Init => VersionsInv
BY DEF Init, VersionsInv, VersionsDistinct, VersionsHandedOut, NewChannel,
       EmptySnapshot

\* A step that leaves the channel and the counter alone and brings no task to
\* its send keeps the versions apart.
LEMMA QuietVersions ==
  ASSUME VersionsInv, UNCHANGED <<version, chan>>,
         \A t \in Tasks : pc'[t] = "send" =>
           pc[t] = "send" /\ draft'[t] = draft[t],
         ~up' => receivers' = {} /\ \A t \in Tasks : pc'[t] = "idle"
  PROVE  VersionsInv'
BY DEF VersionsInv, VersionsDistinct, VersionsHandedOut

\* A version is handed out once, and goes from its task into the channel.
LEMMA StepVersions == TypeOK /\ VersionsInv /\ [Next]_vars => VersionsInv'
<1> SUFFICES ASSUME TypeOK, VersionsInv, [Next]_vars PROVE VersionsInv'
  OBVIOUS
<1>1. ASSUME NEW t \in Tasks, NEW r \in Requests,
             Receive(t, r) \/ RejectPolicy(t, r)
      PROVE  VersionsInv'
  <2>1. UNCHANGED <<version, chan, up>> /\ up
    BY <1>1 DEF Receive, RejectPolicy, Arrives, config
  <2>2. \A u \in Tasks : pc'[u] = "send" =>
          pc[u] = "send" /\ draft'[u] = draft[u]
    BY <1>1 DEF Receive, RejectPolicy, Finish, TypeOK, HandlersType
  <2> QED
    BY <2>1, <2>2, QuietVersions
<1>2. ASSUME NEW t \in Tasks,
             \/ CheckPolicy(t) \/ EndValidation(t) \/ InsertPolicy(t)
             \/ InsertRoute(t) \/ UpdateRoute(t) \/ DeleteRoute(t)
             \/ RefuseConflict(t) \/ RefuseMissing(t) \/ ListRoutes(t)
             \/ DbError(t) \/ Cancel(t)
      PROVE  VersionsInv'
  <2>1. UNCHANGED <<version, chan, up>>
    BY <1>2 DEF CheckPolicy, EndValidation, InsertPolicy, InsertRoute,
                UpdateRoute, DeleteRoute, RefuseConflict, RefuseMissing,
                ListRoutes, DbError, Cancel, GiveUp, AtWrite, config
  <2>2. up
    BY <1>2 DEF CheckPolicy, EndValidation, InsertPolicy, InsertRoute,
                UpdateRoute, DeleteRoute, RefuseConflict, RefuseMissing,
                ListRoutes, DbError, Cancel, GiveUp, Awaits, AtWrite,
                VersionsInv, VersionsHandedOut
  <2>3. \A u \in Tasks : pc'[u] = "send" =>
          pc[u] = "send" /\ draft'[u] = draft[u]
    BY <1>2 DEF CheckPolicy, EndValidation, InsertPolicy, InsertRoute,
                UpdateRoute, DeleteRoute, RefuseConflict, RefuseMissing,
                ListRoutes, DbError, Cancel, GiveUp, Finish, Goto, TypeOK,
                HandlersType
  <2> QED
    BY <2>1, <2>2, <2>3, QuietVersions
<1>3. ASSUME NEW t \in Tasks, BuildSnapshot(t)
      PROVE  VersionsInv'
  <2>1. /\ version \in Nat /\ version' = version + 1
        /\ chan.value.version \in Nat
        /\ UNCHANGED <<chan, up, receivers>> /\ pc[t] = "build"
        /\ pc' = [pc EXCEPT ![t] = "send"]
    BY <1>3 DEF BuildSnapshot, TypeOK, ConfigType, Snapshots
  <2>2. draft'[t].version = version + 1
    BY <1>3 DEF BuildSnapshot, TypeOK, HandlersType, Snapshots
  <2>3. \A u \in Tasks \ {t} : /\ pc'[u] = pc[u] /\ draft'[u] = draft[u]
                               /\ draft[u].version \in Nat
    BY <1>3 DEF BuildSnapshot, TypeOK, HandlersType, Snapshots
  <2>4. pc'[t] = "send"
    BY <2>1 DEF TypeOK, HandlersType
  <2>5. up
    BY <2>1 DEF VersionsInv, VersionsHandedOut
  <2> QED
    BY <2>1, <2>2, <2>3, <2>4, <2>5
    DEF VersionsInv, VersionsDistinct, VersionsHandedOut
<1>4. ASSUME NEW t \in Tasks, SendSnapshot(t)
      PROVE  VersionsInv'
  <2>1. /\ pc[t] = "send" /\ UNCHANGED <<version, up, receivers>>
        /\ chan'.value \in {chan.value, draft[t]}
    BY <1>4 DEF SendSnapshot, Send
  <2>2. \A u \in Tasks : pc'[u] = "send" =>
          u # t /\ pc[u] = "send" /\ draft'[u] = draft[u]
    BY <1>4 DEF SendSnapshot, Finish, TypeOK, HandlersType
  <2>3. version \in Nat /\ up
    BY <2>1 DEF TypeOK, ConfigType, VersionsInv, VersionsHandedOut
  <2> QED
    BY <2>1, <2>2, <2>3 DEF VersionsInv, VersionsDistinct, VersionsHandedOut
<1>5. ASSUME Crash
      PROVE  VersionsInv'
  BY <1>5 DEF Crash, VersionsInv, VersionsDistinct, VersionsHandedOut,
              NewChannel, EmptySnapshot
<1>6. ASSUME Start
      PROVE  VersionsInv'
  BY <1>6 DEF Start, VersionsInv, VersionsDistinct, VersionsHandedOut,
              NewChannel, EmptySnapshot, Send, handlers
<1>7. ASSUME NEW r \in Receivers, Subscribe(r) \/ Unsubscribe(r)
      PROVE  VersionsInv'
  BY <1>7, QuietVersions DEF Subscribe, Unsubscribe, handlers, VersionsInv,
                             VersionsHandedOut
<1>8. ASSUME UNCHANGED vars
      PROVE  VersionsInv'
  BY <1>8 DEF vars, VersionsInv, VersionsDistinct, VersionsHandedOut
<1> QED
  BY <1>1, <1>2, <1>3, <1>4, <1>5, <1>6, <1>7, <1>8
  DEF Next, ProcessNext, StreamsNext, Handle

\* In one life of the process a version names one snapshot.
THEOREM VersionsStayDistinct == Spec => []VersionsDistinct
<1>1. VersionsInv => VersionsDistinct
  BY DEF VersionsInv
<1> QED
  BY <1>1, TypeCorrect, InitVersions, StepVersions, PTL DEF Spec

-----------------------------------------------------------------------------
(* Validation, and the requests of AdminStore *)

\* Policies are never changed or removed.
PoliciesStay ==
  \A k \in PolicyKeys : policies[k] # NoPolicy => policies'[k] = policies[k]

\* No handler changes or removes a policy that is there.
LEMMA StepPolicies == TypeOK /\ [Next]_vars => PoliciesStay
<1> SUFFICES ASSUME TypeOK, [Next]_vars PROVE PoliciesStay
  OBVIOUS
<1>1. ASSUME NEW t \in Tasks, InsertPolicy(t)
      PROVE  PoliciesStay
  BY <1>1 DEF InsertPolicy, PoliciesStay, TypeOK, TablesType, PolicyTables
<1>2. ASSUME NEW t \in Tasks, Handle(t), ~InsertPolicy(t)
      PROVE  UNCHANGED policies
  BY <1>2 DEF Handle, CheckPolicy, EndValidation, InsertRoute, UpdateRoute,
              DeleteRoute, StoreRoute, RefuseConflict, RefuseMissing,
              ListRoutes, BuildSnapshot, SendSnapshot, tables
<1>3. ASSUME NEW t \in Tasks, NEW r \in Requests,
             Receive(t, r) \/ RejectPolicy(t, r)
      PROVE  UNCHANGED policies
  BY <1>3 DEF Receive, RejectPolicy, Arrives, tables
<1>4. ASSUME \/ \E t \in Tasks : DbError(t) \/ Cancel(t)
             \/ Crash \/ Start
             \/ \E r \in Receivers : Subscribe(r) \/ Unsubscribe(r)
             \/ UNCHANGED vars
      PROVE  UNCHANGED policies
  BY <1>4 DEF DbError, Cancel, GiveUp, Crash, Start, Subscribe, Unsubscribe,
              vars, tables
<1> QED
  BY <1>1, <1>2, <1>3, <1>4 DEF Next, ProcessNext, StreamsNext, PoliciesStay

\* What a table of policies admits, a table that keeps those policies admits.
LEMMA AdmitsKept ==
  ASSUME PoliciesStay, NEW ref, ref.key \in PolicyKeys, Admits(policies, ref)
  PROVE  Admits(policies', ref)
BY DEF PoliciesStay, Admits, PolicyOf, Accepts

\* The references of a body are a sequence of references.
LEMMA RefsOfBody ==
  ASSUME NEW body \in Bodies
  PROVE  /\ Len(PoliciesOf[body]) \in Nat
         /\ \A i \in 1..Len(PoliciesOf[body]) :
              PoliciesOf[body][i].key \in PolicyKeys
<1>1. PoliciesOf[body] \in Seq(PolicyRefs)
  BY RequestVocabulary
<1>2. \A ref \in PolicyRefs : ref.key \in PolicyKeys
  BY DEF PolicyRefs
<1> QED
  BY <1>1, <1>2

\* So a whole list of references that was admitted stays admitted.
LEMMA AdmitsAllKept ==
  ASSUME PoliciesStay, NEW body \in Bodies, AdmitsAll(policies, body)
  PROVE  AdmitsAll(policies', body)
BY AdmitsKept, RefsOfBody DEF AdmitsAll

\* A request that writes a route carries an id and a body.
LEMMA RouteWriteBody ==
  ASSUME TypeOK, NEW t \in Tasks, req[t].op \in {"create_route", "update_route"}
  PROVE  req[t] \in RouteWrites /\ req[t].id \in RouteIds /\ req[t].body \in Bodies
BY DEF TypeOK, HandlersType, Requests, RouteWrites, RouteDeletes, PolicyWrites,
       NoRequest

-----------------------------------------------------------------------------
(* The validation loop *)

\* No handler runs and no route is stored.
LEMMA InitValidated == Init => ValidatedSoFar /\ StoredRoutesValid
BY DEF Init, ValidatedSoFar, StoredRoutesValid, NoRoutes

\* What is known of one task.
Validated(t) ==
  /\ pc[t] = "validate" /\ ok[t] =>
       \A i \in 1..Len(Refs(t)) : i < idx[t] => Admits(policies, Refs(t)[i])
  /\ pc[t] = "write" /\ req[t].op \in {"create_route", "update_route"} =>
       AdmitsAll(policies, req[t].body)

\* A task that does nothing keeps what it knows, whatever policies others add.
LEMMA OthersValidated ==
  ASSUME TypeOK, PoliciesStay, NEW t \in Tasks, Validated(t),
         pc'[t] = pc[t], req'[t] = req[t], idx'[t] = idx[t], ok'[t] = ok[t]
  PROVE  Validated(t)'
<1>1. ASSUME pc[t] = "validate", ok[t],
             NEW i \in 1..Len(Refs(t)), i < idx[t]
      PROVE  Admits(policies', Refs(t)[i])
  <2>1. req[t].body \in Bodies
    BY <1>1 DEF TypeOK, HandlersType, RouteWrites
  <2>2. Refs(t)[i].key \in PolicyKeys
    BY <2>1, RefsOfBody DEF Refs
  <2>3. Admits(policies, Refs(t)[i])
    BY <1>1 DEF Validated
  <2> QED
    BY <2>2, <2>3, AdmitsKept
<1>2. ASSUME pc[t] = "write", req[t].op \in {"create_route", "update_route"}
      PROVE  AdmitsAll(policies', req[t].body)
  BY <1>2, RouteWriteBody, AdmitsAllKept DEF Validated
<1> QED
  BY <1>1, <1>2 DEF Validated, Refs, Admits, AdmitsAll

\* A task at none of the two labels has nothing to know.
LEMMA ElsewhereValidated ==
  ASSUME NEW t \in Tasks, pc'[t] \notin {"validate", "write"}
  PROVE  Validated(t)'
BY DEF Validated

\* CheckPolicy extends what is known by one reference; every other step
\* leaves it, since policies stay.
LEMMA StepValidated == TypeOK /\ ValidatedSoFar /\ [Next]_vars => ValidatedSoFar'
<1> SUFFICES ASSUME TypeOK, \A u \in Tasks : Validated(u), [Next]_vars,
                    NEW u \in Tasks
             PROVE  Validated(u)'
  BY DEF ValidatedSoFar, Validated
<1>0. PoliciesStay
  BY StepPolicies
<1> DEFINE Still == /\ pc'[u] = pc[u] /\ req'[u] = req[u]
                    /\ idx'[u] = idx[u] /\ ok'[u] = ok[u]
<1>1. ASSUME NEW t \in Tasks, NEW r \in Requests,
             Receive(t, r) \/ RejectPolicy(t, r)
      PROVE  Validated(u)'
  <2>1. CASE u # t
    <3>1. Still
      BY <1>1, <2>1 DEF Receive, RejectPolicy, Finish, TypeOK, HandlersType
    <3> QED
      BY <1>0, <3>1, OthersValidated
  <2>2. CASE u = t /\ Receive(t, r)
    <3>1. /\ idx'[t] = 1 /\ req'[t] = r
          /\ pc'[t] = IF r.op \in {"create_route", "update_route"}
                        THEN "validate" ELSE "write"
      BY <2>2 DEF Receive, TypeOK, HandlersType
    <3>2. \A i \in 1..Len(Refs(t))' : ~(i < idx'[t])
      BY <3>1
    <3> QED
      BY <2>2, <3>1, <3>2 DEF Validated
  <2>3. CASE u = t /\ RejectPolicy(t, r)
    BY <2>3, ElsewhereValidated DEF RejectPolicy, Finish, TypeOK, HandlersType
  <2> QED
    BY <1>1, <2>1, <2>2, <2>3
<1>2. ASSUME NEW t \in Tasks, CheckPolicy(t)
      PROVE  Validated(u)'
  <2>1. CASE u # t
    <3>1. Still
      BY <1>2, <2>1 DEF CheckPolicy, TypeOK, HandlersType
    <3> QED
      BY <1>0, <3>1, OthersValidated
  <2>2. CASE u = t
    <3>1. /\ pc[t] = "validate" /\ pc'[t] = "validate"
          /\ UNCHANGED <<req, policies>>
          /\ idx'[t] = idx[t] + 1 /\ idx[t] \in Nat
          /\ ok'[t] = (ok[t] /\ Admits(policies, Refs(t)[idx[t]]))
      BY <1>2 DEF CheckPolicy, TypeOK, HandlersType, tables
    <3>2. req[t].body \in Bodies
      BY <3>1 DEF TypeOK, HandlersType, RouteWrites
    <3>3. Len(Refs(t)) \in Nat
      BY <3>2, RefsOfBody DEF Refs
    <3>4. ASSUME ok'[t], NEW i \in 1..Len(Refs(t)), i < idx'[t]
          PROVE  Admits(policies, Refs(t)[i])
      <4>1. CASE i = idx[t]
        BY <3>1, <3>4, <4>1
      <4>2. CASE i # idx[t]
        <5>1. i < idx[t]
          BY <3>1, <3>3, <3>4, <4>2
        <5> QED
          BY <3>1, <3>4, <5>1 DEF Validated
      <4> QED
        BY <4>1, <4>2
    <3>5. Refs(t)' = Refs(t)
      BY <3>1 DEF Refs
    <3>6. \A i \in 1..Len(Refs(t)) :
            Admits(policies, Refs(t)[i]) => Admits(policies', Refs(t)'[i])
      BY <3>1, <3>5
    <3> QED
      BY <2>2, <3>1, <3>4, <3>5, <3>6 DEF Validated
  <2> QED
    BY <2>1, <2>2
<1>3. ASSUME NEW t \in Tasks, EndValidation(t)
      PROVE  Validated(u)'
  <2>1. CASE u # t
    <3>1. Still
      BY <1>3, <2>1 DEF EndValidation, Finish, Goto, TypeOK, HandlersType
    <3> QED
      BY <1>0, <3>1, OthersValidated
  <2>2. CASE u = t /\ ok[t]
    <3>1. /\ pc[t] = "validate" /\ pc'[t] = "write"
          /\ UNCHANGED <<req, policies>>
          /\ idx[t] > Len(Refs(t)) /\ idx[t] \in Nat
      BY <1>3, <2>2 DEF EndValidation, Goto, TypeOK, HandlersType, tables
    <3>2. req[t].body \in Bodies
      BY <3>1 DEF TypeOK, HandlersType, RouteWrites
    <3>3. \A i \in 1..Len(Refs(t)) : i < idx[t]
      BY <3>1, <3>2, RefsOfBody DEF Refs
    <3>4. AdmitsAll(policies, req[t].body)
      BY <2>2, <3>1, <3>3 DEF Validated, AdmitsAll, Refs
    <3> QED
      BY <2>2, <3>1, <3>4 DEF Validated
  <2>3. CASE u = t /\ ~ok[t]
    BY <1>3, <2>3, ElsewhereValidated
    DEF EndValidation, Finish, TypeOK, HandlersType
  <2> QED
    BY <2>1, <2>2, <2>3
<1>4. ASSUME NEW t \in Tasks,
             \/ InsertPolicy(t) \/ InsertRoute(t) \/ UpdateRoute(t)
             \/ DeleteRoute(t) \/ RefuseConflict(t) \/ RefuseMissing(t)
             \/ ListRoutes(t) \/ BuildSnapshot(t) \/ SendSnapshot(t)
             \/ DbError(t) \/ Cancel(t)
      PROVE  Validated(u)'
  <2> USE DEF InsertPolicy, InsertRoute, UpdateRoute, DeleteRoute,
              RefuseConflict, RefuseMissing, ListRoutes, BuildSnapshot,
              SendSnapshot, DbError, Cancel, GiveUp, Finish, Goto, TypeOK,
              HandlersType
  <2>1. CASE u # t
    <3>1. Still
      BY <1>4, <2>1
    <3> QED
      BY <1>0, <3>1, OthersValidated
  <2>2. CASE u = t
    BY <1>4, <2>2, ElsewhereValidated
  <2> QED
    BY <2>1, <2>2
<1>5. ASSUME Crash
      PROVE  Validated(u)'
  BY <1>5, ElsewhereValidated DEF Crash
<1>6. ASSUME \/ Start
             \/ \E r \in Receivers : Subscribe(r) \/ Unsubscribe(r)
             \/ UNCHANGED vars
      PROVE  Validated(u)'
  <2>1. Still
    BY <1>6 DEF Start, Subscribe, Unsubscribe, vars, handlers
  <2> QED
    BY <1>0, <2>1, OthersValidated
<1> QED
  BY <1>1, <1>2, <1>3, <1>4, <1>5, <1>6
  DEF Next, ProcessNext, StreamsNext, Handle

\* The reads of validate_route_policies stay true while the loop goes on and
\* when the write is made.
THEOREM ValidationIsStable == Spec => []ValidatedSoFar
BY TypeCorrect, InitValidated, StepValidated, PTL DEF Spec

-----------------------------------------------------------------------------
(* Stored routes *)

\* A route is stored by a task that knows it to be admitted.
LEMMA StepStored ==
  TypeOK /\ ValidatedSoFar /\ StoredRoutesValid /\ [Next]_vars
    => StoredRoutesValid'
<1> SUFFICES ASSUME TypeOK, ValidatedSoFar, StoredRoutesValid, [Next]_vars,
                    NEW id \in RouteIds, routes'[id] # NoRoute
             PROVE  AdmitsAll(policies', routes'[id])
  BY DEF StoredRoutesValid, AdmitsAll, Admits
<1>0. PoliciesStay
  BY StepPolicies
<1>1. CASE routes'[id] = routes[id]
  <2>1. routes[id] \in Bodies /\ AdmitsAll(policies, routes[id])
    BY <1>1 DEF TypeOK, TablesType, RouteTables, StoredRoutesValid
  <2> QED
    BY <1>0, <1>1, <2>1, AdmitsAllKept
<1>2. CASE routes'[id] # routes[id]
  <2>1. PICK t \in Tasks : InsertRoute(t) \/ UpdateRoute(t) \/ DeleteRoute(t)
    BY <1>2
    DEF Next, ProcessNext, StreamsNext, Handle, Receive, RejectPolicy,
        Arrives, CheckPolicy, EndValidation, InsertPolicy, RefuseConflict,
        RefuseMissing, ListRoutes, BuildSnapshot, SendSnapshot, DbError,
        Cancel, GiveUp, Crash, Start, Subscribe, Unsubscribe, vars, tables
  <2>2. ~DeleteRoute(t)
    BY <1>2 DEF DeleteRoute, StoreRoute, TypeOK, TablesType, RouteTables
  <2>3. /\ req[t].op \in {"create_route", "update_route"} /\ pc[t] = "write"
        /\ routes' = [routes EXCEPT ![req[t].id] = req[t].body]
        /\ UNCHANGED policies
    BY <2>1, <2>2 DEF InsertRoute, UpdateRoute, AtWrite, StoreRoute
  <2>4. routes'[id] = req[t].body
    BY <1>2, <2>3 DEF TypeOK, TablesType, RouteTables
  <2>5. AdmitsAll(policies, req[t].body)
    BY <2>3 DEF ValidatedSoFar
  <2> QED
    BY <2>3, <2>4, <2>5
<1> QED
  BY <1>1, <1>2

\* Every stored route is admitted by the policies it names, for any number of
\* handlers validating and writing at the same time.
THEOREM StoredRoutesStayValid == Spec => []StoredRoutesValid
BY TypeCorrect, ValidationIsStable, InitValidated, StepStored, PTL DEF Spec

-----------------------------------------------------------------------------
(* Refinement *)

\* A policy reaches its INSERT only with a specification that was validated.
SpecsValidated ==
  \A t \in Tasks :
    pc[t] = "write" /\ req[t].op = "create_policy" => ValidSpec(req[t].spec)

\* create_policy validates before its handler gets to the write.
LEMMA StepSpecs == TypeOK /\ SpecsValidated /\ [Next]_vars => SpecsValidated'
<1> SUFFICES ASSUME TypeOK, SpecsValidated, [Next]_vars, NEW u \in Tasks,
                    pc'[u] = "write", req'[u].op = "create_policy"
             PROVE  ValidSpec(req'[u].spec)
  BY DEF SpecsValidated, ValidSpec
<1>1. CASE pc[u] = "write" /\ req'[u] = req[u]
  BY <1>1 DEF SpecsValidated, ValidSpec
<1>2. ASSUME NEW t \in Tasks, NEW r \in Requests,
             Receive(t, r) \/ RejectPolicy(t, r)
      PROVE  ValidSpec(req'[u].spec)
  <2>1. CASE u = t
    BY <1>2, <2>1 DEF Receive, RejectPolicy, Finish, TypeOK, HandlersType
  <2>2. CASE u # t
    BY <1>1, <1>2, <2>2 DEF Receive, RejectPolicy, Finish, TypeOK, HandlersType
  <2> QED
    BY <2>1, <2>2
<1>3. ASSUME NEW t \in Tasks, EndValidation(t)
      PROVE  ValidSpec(req'[u].spec)
  <2>1. u # t
    BY <1>3 DEF EndValidation, Finish, Goto, TypeOK, HandlersType, RouteWrites
  <2> QED
    BY <1>1, <1>3, <2>1 DEF EndValidation, Finish, Goto, TypeOK, HandlersType
<1>4. ASSUME NEW t \in Tasks,
             \/ CheckPolicy(t) \/ InsertPolicy(t) \/ InsertRoute(t)
             \/ UpdateRoute(t) \/ DeleteRoute(t) \/ RefuseConflict(t)
             \/ RefuseMissing(t) \/ ListRoutes(t) \/ BuildSnapshot(t)
             \/ SendSnapshot(t) \/ DbError(t) \/ Cancel(t)
      PROVE  ValidSpec(req'[u].spec)
  BY <1>1, <1>4
  DEF CheckPolicy, InsertPolicy, InsertRoute, UpdateRoute, DeleteRoute,
      RefuseConflict, RefuseMissing, ListRoutes, BuildSnapshot, SendSnapshot,
      DbError, Cancel, GiveUp, Finish, Goto, TypeOK, HandlersType
<1>5. ASSUME \/ Crash \/ Start
             \/ \E r \in Receivers : Subscribe(r) \/ Unsubscribe(r)
             \/ UNCHANGED vars
      PROVE  ValidSpec(req'[u].spec)
  BY <1>1, <1>5 DEF Crash, Start, Subscribe, Unsubscribe, vars, handlers
<1> QED
  BY <1>2, <1>3, <1>4, <1>5 DEF Next, ProcessNext, StreamsNext, Handle

\* The abstract specification judges requests by the same rules.
LEMMA SameRules ==
  /\ Store!Requests = Requests
  /\ Store!NoRequest = NoRequest
  /\ \A spec : Store!ValidSpec(spec) <=> ValidSpec(spec)
  /\ \A table, body : Store!AdmitsAll(table, body) <=> AdmitsAll(table, body)
<1>1. Store!Requests = Requests
  BY DEF Store!Requests, Requests, Store!RouteWrites, RouteWrites,
         Store!RouteDeletes, RouteDeletes, Store!PolicyWrites, PolicyWrites
<1>2. Store!NoRequest = NoRequest
  BY DEF Store!NoRequest, NoRequest
<1>3. \A spec : Store!ValidSpec(spec) <=> ValidSpec(spec)
  BY DEF Store!ValidSpec, ValidSpec, Store!SupportedStages, SupportedStages
<1>4. \A table, body : Store!AdmitsAll(table, body) <=> AdmitsAll(table, body)
  BY DEF Store!AdmitsAll, AdmitsAll, Store!Admits, Admits,
     Store!PolicyOf, PolicyOf, Store!Accepts, Accepts
<1> QED
  BY <1>1, <1>2, <1>3, <1>4

\* A handler that ends looks idle, and changes no table.
LEMMA FinishMaps ==
  ASSUME TypeOK, NEW t \in Tasks, NEW answer, Finish(t, answer),
         UNCHANGED <<policies, routes>>
  PROVE  Store!Finish(t, answer)
BY SameRules DEF Finish, Store!Finish, storePhase, TypeOK, HandlersType

\* A write looks like the instant at which the request takes effect.
LEMMA WriteMaps ==
  ASSUME TypeOK, NEW t \in Tasks, pc[t] = "write", Goto(t, "list")
  PROVE  /\ storePhase[t] = "pending"
         /\ storePhase' = [storePhase EXCEPT ![t] = "committed"]
         /\ UNCHANGED <<req, reply>>
BY DEF Goto, storePhase, TypeOK, HandlersType

\* A handler that moves within a phase is not seen to move.
LEMMA StutterMaps ==
  ASSUME UNCHANGED <<policies, routes, req, reply>>,
         \A u \in Tasks : storePhase'[u] = storePhase[u]
  PROVE  UNCHANGED Store!storeVars
BY DEF Store!storeVars, storePhase

\* Initial states map to initial states.
LEMMA InitMaps == Init => Store!Init
BY SameRules DEF Init, Store!Init, storePhase, NoRoutes

\* Every step maps to a step of AdminStore or to a stutter.
LEMMA StepMaps ==
  TypeOK /\ ValidatedSoFar /\ SpecsValidated /\ [Next]_vars
    => [Store!Next]_(Store!storeVars)
<1> SUFFICES ASSUME TypeOK, ValidatedSoFar, SpecsValidated, [Next]_vars
             PROVE  Store!Next \/ UNCHANGED Store!storeVars
  OBVIOUS
<1>1. ASSUME NEW t \in Tasks, NEW r \in Requests, Receive(t, r)
      PROVE  Store!Submit(t, r)
  <2>1. /\ pc[t] = "idle" /\ UNCHANGED <<policies, routes>>
        /\ req' = [req EXCEPT ![t] = r]
        /\ reply' = [reply EXCEPT ![t] = "none"]
    BY <1>1 DEF Receive, Arrives, tables
  <2>2. storePhase' = [storePhase EXCEPT ![t] = "pending"]
    BY <1>1 DEF Receive, storePhase, TypeOK, HandlersType
  <2> QED
    BY <2>1, <2>2 DEF Store!Submit, storePhase
<1>2. ASSUME NEW t \in Tasks, NEW r \in Requests, RejectPolicy(t, r)
      PROVE  Store!RefuseSpec(t, r)
  BY <1>2, FinishMaps, SameRules
  DEF RejectPolicy, Arrives, Store!RefuseSpec, storePhase, tables
<1>3. ASSUME NEW t \in Tasks, CheckPolicy(t)
      PROVE  Store!Reject(t) \/ UNCHANGED Store!storeVars
  <2>1. /\ pc[t] = "validate" /\ UNCHANGED <<policies, routes, req, reply, pc>>
        /\ idx[t] <= Len(Refs(t)) /\ idx[t] \in Nat \ {0}
        /\ ok' = [ok EXCEPT ![t] =
                    ok[t] /\ Admits(policies, Refs(t)[idx[t]])]
    BY <1>3 DEF CheckPolicy, tables, TypeOK, HandlersType
  <2>2. req[t] \in RouteWrites /\ req[t].body \in Bodies
    BY <2>1 DEF TypeOK, HandlersType, RouteWrites
  <2>3. CASE ok'[t] = ok[t]
    <3>1. \A u \in Tasks : ok'[u] = ok[u]
      BY <2>1, <2>3 DEF TypeOK, HandlersType
    <3>2. \A u \in Tasks : storePhase'[u] = storePhase[u]
      BY <2>1, <3>1 DEF storePhase
    <3> QED
      BY <2>1, <3>2, StutterMaps
  <2>4. CASE ok'[t] # ok[t]
    <3>1. ok[t] /\ ~ok'[t] /\ ~Admits(policies, Refs(t)[idx[t]])
      BY <2>1, <2>4 DEF TypeOK, HandlersType
    <3>2. idx[t] \in 1..Len(PoliciesOf[req[t].body])
      BY <2>1, <2>2, RefsOfBody DEF Refs
    <3>3. ~Store!AdmitsAll(policies, req[t].body)
      BY <3>1, <3>2, SameRules DEF AdmitsAll, Refs
    <3>4. /\ storePhase[t] = "pending"
          /\ storePhase' = [storePhase EXCEPT ![t] = "rejected"]
      BY <2>1, <3>1 DEF storePhase, TypeOK, HandlersType
    <3>5. req[t].op \in {"create_route", "update_route"}
      BY <2>2 DEF RouteWrites
    <3> QED
      BY <2>1, <3>3, <3>4, <3>5 DEF Store!Reject
  <2> QED
    BY <2>3, <2>4
<1>4. ASSUME NEW t \in Tasks, EndValidation(t)
      PROVE  Store!Answer(t) \/ UNCHANGED Store!storeVars
  <2>1. pc[t] = "validate" /\ UNCHANGED <<policies, routes>>
    BY <1>4 DEF EndValidation, tables
  <2>2. CASE ok[t]
    <3>1. UNCHANGED <<req, reply>> /\ pc' = [pc EXCEPT ![t] = "write"] /\ ok' = ok
      BY <1>4, <2>2 DEF EndValidation, Goto
    <3>2. \A u \in Tasks : storePhase'[u] = storePhase[u]
      BY <2>1, <2>2, <3>1 DEF storePhase, TypeOK, HandlersType
    <3> QED
      BY <2>1, <3>1, <3>2, StutterMaps
  <2>3. CASE ~ok[t]
    <3>1. Store!Finish(t, "invalid")
      BY <1>4, <2>1, <2>3, FinishMaps DEF EndValidation
    <3>2. storePhase[t] = "rejected"
      BY <2>1, <2>3 DEF storePhase
    <3> QED
      BY <3>1, <3>2 DEF Store!Answer
  <2> QED
    BY <2>2, <2>3
<1>5. ASSUME NEW t \in Tasks, InsertPolicy(t)
      PROVE  Store!Commit(t)
  <2>1. pc[t] = "write" /\ Goto(t, "list") /\ req[t].op = "create_policy"
    BY <1>5 DEF InsertPolicy, AtWrite
  <2>2. Store!ValidSpec(req[t].spec)
    BY <2>1, SameRules DEF SpecsValidated
  <2>3. Store!CommitPolicy(t)
    BY <1>5, <2>1, <2>2 DEF InsertPolicy, Store!CommitPolicy
  <2> QED
    BY <2>1, <2>3, WriteMaps DEF Store!Commit
<1>6. ASSUME NEW t \in Tasks, InsertRoute(t) \/ UpdateRoute(t)
      PROVE  Store!Commit(t)
  <2>1. /\ pc[t] = "write" /\ Goto(t, "list")
        /\ req[t].op \in {"create_route", "update_route"}
    BY <1>6 DEF InsertRoute, UpdateRoute, AtWrite
  <2>2. Store!AdmitsAll(policies, req[t].body)
    BY <2>1, SameRules DEF ValidatedSoFar
  <2>3. Store!CommitRoute(t)
    BY <1>6, <2>1, <2>2
    DEF InsertRoute, UpdateRoute, AtWrite, StoreRoute, Store!CommitRoute
  <2> QED
    BY <2>1, <2>3, WriteMaps DEF Store!Commit
<1>7. ASSUME NEW t \in Tasks, DeleteRoute(t)
      PROVE  Store!Commit(t)
  <2>1. pc[t] = "write" /\ Goto(t, "list")
    BY <1>7 DEF DeleteRoute, AtWrite
  <2>2. Store!CommitDelete(t)
    BY <1>7 DEF DeleteRoute, AtWrite, StoreRoute, Store!CommitDelete
  <2> QED
    BY <2>1, <2>2, WriteMaps DEF Store!Commit
<1>8. ASSUME NEW t \in Tasks, RefuseConflict(t)
      PROVE  Store!Conflict(t)
  <2>1. storePhase[t] = "pending"
    BY <1>8 DEF RefuseConflict, AtWrite, storePhase
  <2>2. Store!Finish(t, "conflict")
    BY <1>8, FinishMaps DEF RefuseConflict, tables
  <2> QED
    BY <1>8, <2>1, <2>2 DEF RefuseConflict, AtWrite, Store!Conflict
<1>9. ASSUME NEW t \in Tasks, RefuseMissing(t)
      PROVE  Store!Missing(t)
  <2>1. storePhase[t] = "pending"
    BY <1>9 DEF RefuseMissing, AtWrite, storePhase
  <2>2. Store!Finish(t, "missing")
    BY <1>9, FinishMaps DEF RefuseMissing, tables
  <2> QED
    BY <1>9, <2>1, <2>2 DEF RefuseMissing, AtWrite, Store!Missing
<1>10. ASSUME NEW t \in Tasks, ListRoutes(t) \/ BuildSnapshot(t)
       PROVE  UNCHANGED Store!storeVars
  <2>1. UNCHANGED <<policies, routes, req, reply, ok>>
    BY <1>10 DEF ListRoutes, BuildSnapshot, tables
  <2>2. \A u \in Tasks : storePhase'[u] = storePhase[u]
    BY <1>10, <2>1 DEF ListRoutes, BuildSnapshot, storePhase, TypeOK,
                       HandlersType
  <2> QED
    BY <2>1, <2>2, StutterMaps
<1>11. ASSUME NEW t \in Tasks, SendSnapshot(t)
       PROVE  Store!Answer(t)
  <2>1. storePhase[t] = "committed"
    BY <1>11 DEF SendSnapshot, storePhase
  <2>2. Store!Finish(t, "success")
    BY <1>11, FinishMaps DEF SendSnapshot, tables
  <2> QED
    BY <2>1, <2>2 DEF Store!Answer
<1>12. ASSUME NEW t \in Tasks, DbError(t)
       PROVE  Store!Fail(t)
  <2>1. Store!Finish(t, IF pc[t] = "validate" THEN "invalid" ELSE "error")
    BY <1>12, FinishMaps DEF DbError, GiveUp, tables
  <2>2. /\ pc[t] = "validate" => storePhase[t] \in {"pending", "rejected"}
        /\ pc[t] # "validate" => storePhase[t] \in {"pending", "committed"}
    BY <1>12 DEF DbError, GiveUp, Awaits, storePhase
  <2> QED
    BY <1>12, <2>1, <2>2 DEF DbError, Store!Fail
<1>13. ASSUME NEW t \in Tasks, Cancel(t)
       PROVE  Store!Abandon(t)
  <2>1. Store!Finish(t, "none")
    BY <1>13, FinishMaps DEF Cancel, GiveUp, tables
  <2>2. storePhase[t] # "idle"
    BY <1>13 DEF Cancel, GiveUp, Awaits, storePhase
  <2> QED
    BY <1>13, <2>1, <2>2 DEF Cancel, Store!Abandon
<1>14. ASSUME Crash
       PROVE  Store!Crash
  <2>1. storePhase' = [t \in Tasks |-> "idle"]
    BY <1>14 DEF Crash, storePhase
  <2> QED
    BY <1>14, <2>1, SameRules DEF Crash, Store!Crash, tables
<1>15. ASSUME \/ Start
              \/ \E r \in Receivers : Subscribe(r) \/ Unsubscribe(r)
              \/ UNCHANGED vars
       PROVE  UNCHANGED Store!storeVars
  <2>1. UNCHANGED <<policies, routes, req, reply, pc, ok>>
    BY <1>15 DEF Start, Subscribe, Unsubscribe, vars, tables, handlers
  <2> QED
    BY <2>1, StutterMaps DEF storePhase
<1> QED
  BY <1>1, <1>2, <1>3, <1>4, <1>5, <1>6, <1>7, <1>8, <1>9, <1>10, <1>11,
     <1>12, <1>13, <1>14, <1>15, SameRules
  DEF Next, ProcessNext, StreamsNext, Handle, Store!Next

\* The handlers implement AdminStore: with the tables, requests and replies
\* as they are, and the phase that their pc stands for, every behaviour of the
\* control plane is one in which each request takes effect at one instant.
THEOREM HandlersImplementStore == Spec => StoreSpec
<1>1. Init => SpecsValidated
  BY DEF Init, SpecsValidated
<1>2. Spec => []SpecsValidated
  BY <1>1, TypeCorrect, StepSpecs, PTL DEF Spec
<1> QED
  BY <1>2, TypeCorrect, ValidationIsStable, InitMaps, StepMaps, PTL
  DEF Spec, StoreSpec, Store!Spec
=============================================================================
