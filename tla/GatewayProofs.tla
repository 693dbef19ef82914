--------------------------- MODULE GatewayProofs ---------------------------
(***************************************************************************)
(* What holds of the whole system for any number of data planes, handlers  *)
(* and routes.  The control plane is ControlPlane with one receiver that   *)
(* stands for all streams, so that what ControlPlaneProofs shows of it     *)
(* holds here (Whole); the streams are those of ConfigSyncProofs (Streams) *)
(* with ControlPlane for their publisher.  From the two follows what each  *)
(* data plane serves.                                                      *)
(***************************************************************************)
EXTENDS Gateway, TLAPS

\* What a sender sees of the streams.
Someone == IF receivers = {} THEN {} ELSE {"streams"}

Whole == INSTANCE ControlPlaneProofs WITH
           Receivers <- {"streams"}, receivers <- Someone

Streams == INSTANCE ConfigSyncProofs

-----------------------------------------------------------------------------
(* Steps of the control plane *)

\* One receiver is as good as any number: a step of the process is the same
\* step of ControlPlane.
LEMMA ProcessMaps ==
  ASSUME CP!ProcessNext
  PROVE  Whole!ProcessNext
<1> USE DEF Someone, CP!Finish, Whole!Finish, CP!NoRequest, Whole!NoRequest,
         CP!EmptySnapshot, Whole!EmptySnapshot, CP!NoRoutes, Whole!NoRoutes,
         CP!tables, Whole!tables, CP!config, Whole!config, CP!bounds,
         Whole!bounds
<1>1. ASSUME NEW t \in Tasks,
             CP!CheckPolicy(t) \/ CP!EndValidation(t)
      PROVE  Whole!CheckPolicy(t) \/ Whole!EndValidation(t)
  BY <1>1 DEF CP!CheckPolicy, Whole!CheckPolicy, CP!EndValidation,
         Whole!EndValidation, CP!Refs, Whole!Refs, CP!Admits, Whole!Admits,
         CP!Goto, Whole!Goto, CP!PolicyOf, Whole!PolicyOf, CP!Accepts,
         Whole!Accepts
<1>2. ASSUME NEW t \in Tasks,
             \/ CP!InsertPolicy(t) \/ CP!InsertRoute(t)
             \/ CP!UpdateRoute(t) \/ CP!DeleteRoute(t)
      PROVE  \/ Whole!InsertPolicy(t) \/ Whole!InsertRoute(t)
             \/ Whole!UpdateRoute(t) \/ Whole!DeleteRoute(t)
  BY <1>2 DEF CP!InsertPolicy, Whole!InsertPolicy, CP!InsertRoute,
         Whole!InsertRoute, CP!UpdateRoute, Whole!UpdateRoute, CP!DeleteRoute,
         Whole!DeleteRoute, CP!AtWrite, Whole!AtWrite, CP!Goto, Whole!Goto,
         CP!StoreRoute, Whole!StoreRoute
<1>3. ASSUME NEW t \in Tasks,
             CP!RefuseConflict(t) \/ CP!RefuseMissing(t)
      PROVE  Whole!RefuseConflict(t) \/ Whole!RefuseMissing(t)
  BY <1>3 DEF CP!RefuseConflict, Whole!RefuseConflict, CP!RefuseMissing,
         Whole!RefuseMissing, CP!AtWrite, Whole!AtWrite
<1>4. ASSUME NEW t \in Tasks,
             \/ CP!ListRoutes(t) \/ CP!BuildSnapshot(t)
             \/ CP!SendSnapshot(t)
      PROVE  \/ Whole!ListRoutes(t) \/ Whole!BuildSnapshot(t)
             \/ Whole!SendSnapshot(t)
  BY <1>4 DEF CP!ListRoutes, Whole!ListRoutes, CP!BuildSnapshot,
         Whole!BuildSnapshot, CP!SendSnapshot, Whole!SendSnapshot, CP!Wire,
         Whole!Wire, CP!Send, Whole!Send, CP!LosesPublication,
         Whole!LosesPublication
<1>5. ASSUME NEW t \in Tasks,
             CP!DbError(t) \/ CP!Cancel(t)
      PROVE  Whole!DbError(t) \/ Whole!Cancel(t)
  BY <1>5 DEF CP!DbError, Whole!DbError, CP!Cancel, Whole!Cancel, CP!GiveUp,
         Whole!GiveUp, CP!Awaits, Whole!Awaits, CP!WritesRoute,
         Whole!WritesRoute, CP!Refs, Whole!Refs
<1>6. ASSUME NEW t \in Tasks, NEW r, CP!Receive(t, r) \/ CP!RejectPolicy(t, r)
      PROVE  Whole!Receive(t, r) \/ Whole!RejectPolicy(t, r)
  BY <1>6 DEF CP!Receive, Whole!Receive, CP!RejectPolicy, Whole!RejectPolicy,
         CP!Arrives, Whole!Arrives, CP!ValidSpec, Whole!ValidSpec,
         CP!SupportedStages, Whole!SupportedStages
<1>7. ASSUME CP!Start
      PROVE  Whole!Start
  BY <1>7 DEF CP!Start, Whole!Start, CP!Send, Whole!Send, CP!NewChannel,
         Whole!NewChannel, CP!Wire, Whole!Wire, CP!handlers, Whole!handlers
<1>8. Whole!Requests = CP!Requests
  BY DEF CP!Requests, Whole!Requests, CP!RouteWrites, Whole!RouteWrites,
         CP!RouteDeletes, Whole!RouteDeletes, CP!PolicyWrites,
         Whole!PolicyWrites
<1> QED
  BY <1>1, <1>2, <1>3, <1>4, <1>5, <1>6, <1>7, <1>8
  DEF CP!ProcessNext, Whole!ProcessNext, CP!Handle, Whole!Handle

\* So is a crash.
LEMMA CrashMaps ==
  ASSUME CP!Crash
  PROVE  Whole!Crash
BY DEF Someone, CP!Crash, Whole!Crash, CP!NewChannel, Whole!NewChannel,
       CP!EmptySnapshot, Whole!EmptySnapshot, CP!NoRequest, Whole!NoRequest,
       CP!tables, Whole!tables, CP!NoRoutes, Whole!NoRoutes

\* The streams do not touch the channel, and none begins while the process is
\* down.
LEMMA StreamsLeave ==
  ASSUME Sync!StreamNext
  PROVE  UNCHANGED <<chan, up>> /\ (receivers' # {} => up \/ receivers # {})
BY DEF Sync!StreamNext, Sync!AcceptFails, Sync!ServerStep,
       Sync!CloneInitial, Sync!YieldInitial, Sync!YieldFirst,
       Sync!YieldChange, Sync!Emit, Sync!ClientStep, Sync!Subscribe,
       Sync!Apply, Sync!DecodeFails, Sync!StreamEnds, Sync!Wake, Sync!Stop,
       Sync!NoticeGone, Sync!ConnectFails, Sync!RequestShutdown,
       Sync!Restart, Sync!BreakLink, Sync!LoseSilently, Sync!Sever,
       Sync!shared, Sync!streamVars

\* Streams come and go as one.
LEMMA StreamsMap ==
  ASSUME Sync!StreamNext, UNCHANGED cpVars
  PROVE  [Whole!StreamsNext]_(Whole!vars)
<1>1. UNCHANGED <<chan, up>> /\ (receivers' # {} => up \/ receivers # {})
  BY StreamsLeave
<1>2. CASE Someone' = Someone
  BY <1>1, <1>2 DEF cpVars, Whole!vars
<1>3. CASE Someone = {} /\ Someone' = {"streams"}
  <2>1. Whole!Subscribe("streams")
    BY <1>1, <1>3 DEF Someone, Whole!Subscribe, cpVars, Whole!tables,
                      Whole!handlers, Whole!bounds
  <2> QED
    BY <2>1 DEF Whole!StreamsNext
<1>4. CASE Someone = {"streams"} /\ Someone' = {}
  <2>1. Whole!Unsubscribe("streams")
    BY <1>1, <1>4 DEF Whole!Unsubscribe, cpVars, Whole!tables, Whole!handlers,
                      Whole!bounds
  <2> QED
    BY <2>1 DEF Whole!StreamsNext
<1> QED
  BY <1>2, <1>3, <1>4 DEF Someone

\* The whole system is ControlPlane, whatever happens to the streams.
LEMMA StepWhole == [Next]_vars => [Whole!Next]_(Whole!vars)
<1> SUFFICES ASSUME [Next]_vars PROVE [Whole!Next]_(Whole!vars)
  OBVIOUS
<1>1. CASE CpStep
  BY <1>1, ProcessMaps DEF CpStep, Whole!Next
<1>2. CASE StreamStep
  BY <1>2, StreamsMap DEF StreamStep, CpStays, Whole!Next
<1>3. CASE Crash
  BY <1>3, CrashMaps DEF Crash, Whole!Next
<1>4. CASE UNCHANGED vars
  BY <1>4 DEF vars, cpVars, Someone, Whole!vars
<1> QED
  BY <1>1, <1>2, <1>3, <1>4 DEF Next

\* Both start alike.
LEMMA InitWhole == Init => Whole!Init
BY DEF Init, CP!Init, Whole!Init, Someone, CP!NewChannel, Whole!NewChannel,
       CP!EmptySnapshot, Whole!EmptySnapshot, CP!NoRoutes, Whole!NoRoutes,
       CP!NoRequest, Whole!NoRequest

\* A behaviour of the system is one of ControlPlane.
LEMMA RefinesWhole == Spec => Whole!Spec
BY InitWhole, StepWhole, PTL DEF Spec, Whole!Spec

\* Publisher, of which Gateway speaks, is the ControlPlane of Whole.
LEMMA SamePublisher ==
  /\ Whole!Init => Publisher!Init
  /\ [Whole!Next]_(Whole!vars) => [Publisher!Next]_(Publisher!vars)
<1>1. Whole!Init => Publisher!Init
  BY DEF Whole!Init, Publisher!Init, Someone, Whole!NewChannel,
         Publisher!NewChannel, Whole!EmptySnapshot, Publisher!EmptySnapshot,
         Whole!NoRoutes, Publisher!NoRoutes, Whole!NoRequest,
         Publisher!NoRequest
<1>2. Whole!Next => Publisher!Next
  BY DEF Publisher!Next, Whole!Next, Publisher!ProcessNext, Whole!ProcessNext,
         Publisher!StreamsNext, Whole!StreamsNext, Publisher!Crash,
         Whole!Crash, Publisher!Requests, Whole!Requests, Publisher!Receive,
         Whole!Receive, Publisher!RejectPolicy, Whole!RejectPolicy,
         Publisher!Handle, Whole!Handle, Publisher!DbError, Whole!DbError,
         Publisher!Cancel, Whole!Cancel, Publisher!Start, Whole!Start,
         Publisher!Subscribe, Whole!Subscribe, Publisher!Unsubscribe,
         Whole!Unsubscribe, Publisher!NewChannel, Whole!NewChannel,
         Publisher!EmptySnapshot, Whole!EmptySnapshot, Publisher!NoRequest,
         Whole!NoRequest, Publisher!tables, Whole!tables,
         Publisher!RouteWrites, Whole!RouteWrites, Publisher!RouteDeletes,
         Whole!RouteDeletes, Publisher!PolicyWrites, Whole!PolicyWrites,
         Publisher!Arrives, Whole!Arrives, Publisher!ValidSpec,
         Whole!ValidSpec, Publisher!Finish, Whole!Finish,
         Publisher!CheckPolicy, Whole!CheckPolicy, Publisher!EndValidation,
         Whole!EndValidation, Publisher!InsertPolicy, Whole!InsertPolicy,
         Publisher!InsertRoute, Whole!InsertRoute, Publisher!UpdateRoute,
         Whole!UpdateRoute, Publisher!DeleteRoute, Whole!DeleteRoute,
         Publisher!RefuseConflict, Whole!RefuseConflict,
         Publisher!RefuseMissing, Whole!RefuseMissing, Publisher!ListRoutes,
         Whole!ListRoutes, Publisher!BuildSnapshot, Whole!BuildSnapshot,
         Publisher!SendSnapshot, Whole!SendSnapshot, Publisher!GiveUp,
         Whole!GiveUp, Publisher!Send, Whole!Send, Publisher!Wire, Whole!Wire,
         Publisher!handlers, Whole!handlers, Publisher!bounds, Whole!bounds,
         Publisher!NoRoutes, Whole!NoRoutes, Publisher!config, Whole!config,
         Publisher!SupportedStages, Whole!SupportedStages, Publisher!Refs,
         Whole!Refs, Publisher!Admits, Whole!Admits, Publisher!Goto,
         Whole!Goto, Publisher!AtWrite, Whole!AtWrite, Publisher!StoreRoute,
         Whole!StoreRoute, Publisher!LosesPublication, Whole!LosesPublication,
         Publisher!Awaits, Whole!Awaits, Publisher!WritesRoute,
         Whole!WritesRoute, Publisher!PolicyOf, Whole!PolicyOf,
         Publisher!Accepts, Whole!Accepts, Someone
<1>3. Whole!vars = Publisher!vars
  BY DEF Whole!vars, Publisher!vars, Someone
<1>4. UNCHANGED Whole!vars => UNCHANGED Publisher!vars
  BY DEF Whole!vars, Publisher!vars, Someone
<1> QED
  BY <1>1, <1>2, <1>4

\* Whatever links, streams and data planes do, the control plane keeps what
\* ControlPlane says, with anybody or nobody receiving.
THEOREM GatewayImplementsControlPlane == Spec => PublisherSpec
BY RefinesWhole, SamePublisher, PTL DEF Whole!Spec, PublisherSpec, Publisher!Spec

\* What holds of every ControlPlane holds here.
LEMMA WholeHolds == Spec => [](Whole!TypeOK /\ Whole!StaleOnlyAfterLoss)
<1>1. /\ NoRoute \notin WireBodies
      /\ PoliciesOf \in [Bodies -> Seq(Whole!PolicyRefs)]
      /\ Specs \subseteq [stages : SUBSET Stages, config : Configs]
      /\ NoRoute \notin Bodies
      /\ NoPolicy \notin Specs
  BY NoRouteIsNoBody, RequestVocabulary DEF PolicyRefs, Whole!PolicyRefs
<1>2. /\ ToProto \in [Bodies -> WireBodies]
      /\ MaxRequests \in Nat /\ MaxCrashes \in Nat
  BY GatewayConstants
<1>3. Whole!Spec => []Whole!TypeOK
  BY <1>1, <1>2, Whole!TypeCorrect
<1>4. Whole!Spec => []Whole!StaleOnlyAfterLoss
  BY <1>1, <1>2, Whole!StaleOnlyAfterLossHolds
<1> QED
  BY RefinesWhole, <1>3, <1>4, PTL

-----------------------------------------------------------------------------
(* Steps of the streams *)

\* What ConfigSyncProofs assumes of the constants.
LEMMA StreamsConstants ==
  /\ NoRoute \notin WireBodies
  /\ FromProto \in [WireBodies -> DpRoutes]
  /\ NoRoute \notin DpRoutes
  /\ DecodeLimit \in Nat
  /\ Window \in Nat \ {0}
  /\ MaxFaults \in Nat
BY NoRouteIsNoBody, GatewayConstants

\* Gateway's streams are those of ConfigSyncProofs.
LEMMA SameStreams ==
  /\ Sync!StreamInit <=> Streams!StreamInit
  /\ Sync!ServerDies <=> Streams!ServerDies
  /\ Sync!StreamNext <=> Streams!StreamNext
<1>0. Sync!EmptyStore = Streams!EmptyStore
  BY DEF Sync!EmptyStore, Streams!EmptyStore, Sync!NewChannel,
         Streams!NewChannel, Sync!EmptySnapshot, Streams!EmptySnapshot,
         Sync!NoRoutes, Streams!NoRoutes
<1>1. Sync!StreamInit <=> Streams!StreamInit
  BY <1>0 DEF Sync!StreamInit, Streams!StreamInit, Sync!NoRoutes, Streams!NoRoutes
<1>2. Sync!ServerDies <=> Streams!ServerDies
  BY <1>0 DEF Sync!ServerDies, Streams!ServerDies
<1>3. \A S : Sync!Cardinality(S) = Streams!Cardinality(S)
  BY DEF Sync!Cardinality, Streams!Cardinality
<1>4. \A snapshot : Sync!Fits(snapshot) <=> Streams!Fits(snapshot)
  BY <1>3 DEF Sync!Fits, Streams!Fits
<1>5. \A d : /\ Sync!Apply(d) <=> Streams!Apply(d)
             /\ Sync!DecodeFails(d) <=> Streams!DecodeFails(d)
  BY <1>0, <1>4 DEF Sync!Apply, Streams!Apply, Sync!DecodeFails,
         Streams!DecodeFails, Sync!Decode, Streams!Decode, Sync!shared,
         Streams!shared, Sync!Sever, Streams!Sever, Sync!Live, Streams!Live,
         Sync!Lingering, Streams!Lingering
<1>6. \A d : /\ Sync!CloneInitial(d) <=> Streams!CloneInitial(d)
             /\ Sync!YieldInitial(d) <=> Streams!YieldInitial(d)
             /\ Sync!YieldFirst(d) <=> Streams!YieldFirst(d)
             /\ Sync!YieldChange(d) <=> Streams!YieldChange(d)
  BY <1>0 DEF Sync!CloneInitial, Streams!CloneInitial, Sync!YieldInitial,
         Streams!YieldInitial, Sync!YieldFirst, Streams!YieldFirst,
         Sync!YieldChange, Streams!YieldChange, Sync!shared, Streams!shared,
         Sync!Emit, Streams!Emit, Sync!HasChanged, Streams!HasChanged
<1>7. \A d : /\ Sync!Subscribe(d) <=> Streams!Subscribe(d)
             /\ Sync!StreamEnds(d) <=> Streams!StreamEnds(d)
             /\ Sync!Wake(d) <=> Streams!Wake(d)
             /\ Sync!NoticeGone(d) <=> Streams!NoticeGone(d)
  BY DEF Sync!Subscribe, Streams!Subscribe, Sync!StreamEnds,
         Streams!StreamEnds, Sync!Wake, Streams!Wake, Sync!NoticeGone,
         Streams!NoticeGone, Sync!Live, Streams!Live, Sync!shared,
         Streams!shared, Sync!Lingering, Streams!Lingering, Sync!streamVars,
         Streams!streamVars
<1>8. \A d : /\ Sync!ConnectFails(d) <=> Streams!ConnectFails(d)
             /\ Sync!RequestShutdown(d) <=> Streams!RequestShutdown(d)
  BY DEF Sync!ConnectFails, Streams!ConnectFails, Sync!RequestShutdown,
         Streams!RequestShutdown, Sync!Fault, Streams!Fault, Sync!shared,
         Streams!shared
<1>9. \A d : /\ Sync!Stop(d) <=> Streams!Stop(d)
             /\ Sync!Restart(d) <=> Streams!Restart(d)
             /\ Sync!BreakLink(d) <=> Streams!BreakLink(d)
             /\ Sync!LoseSilently(d) <=> Streams!LoseSilently(d)
  BY <1>0 DEF Sync!Stop, Streams!Stop, Sync!Restart, Streams!Restart,
         Sync!BreakLink, Streams!BreakLink, Sync!LoseSilently,
         Streams!LoseSilently, Sync!Sever, Streams!Sever, Sync!Fault,
         Streams!Fault, Sync!NoRoutes, Streams!NoRoutes, Sync!Live,
         Streams!Live, Sync!Lingering, Streams!Lingering
<1>10. Sync!AcceptFails <=> Streams!AcceptFails
  BY DEF Sync!AcceptFails, Streams!AcceptFails, Sync!Fault, Streams!Fault,
         Sync!shared, Streams!shared
<1>11. Sync!StreamNext <=> Streams!StreamNext
  BY <1>5, <1>6, <1>7, <1>8, <1>9, <1>10
  DEF Sync!StreamNext, Streams!StreamNext, Sync!ServerStep, Streams!ServerStep,
      Sync!ClientStep, Streams!ClientStep
<1> QED
  BY <1>1, <1>2, <1>11

\* What the process does to the state that it shares with the streams.
LEMMA ProcessStores ==
  ASSUME CP!ProcessNext
  PROVE  /\ UNCHANGED receivers
         /\ \/ UNCHANGED <<chan, up>>
            \/ \E t \in Tasks : chan' = Send(chan, receivers, draft[t]) /\ up' = up
            \/ ~up /\ up'
<1> USE DEF CP!tables, CP!config, CP!bounds, CP!handlers, CP!Send, Send
<1>1. ASSUME NEW t \in Tasks, CP!SendSnapshot(t)
      PROVE  UNCHANGED <<receivers, up>> /\ chan' = Send(chan, receivers, draft[t])
  BY <1>1 DEF CP!SendSnapshot
<1>2. ASSUME CP!Start
      PROVE  UNCHANGED receivers /\ ~up /\ up'
  BY <1>2 DEF CP!Start
<1>3. ASSUME NEW t \in Tasks, CP!Handle(t), ~CP!SendSnapshot(t)
      PROVE  UNCHANGED <<receivers, up, chan>>
  BY <1>3 DEF CP!Handle, CP!CheckPolicy, CP!EndValidation, CP!InsertPolicy,
              CP!InsertRoute, CP!UpdateRoute, CP!DeleteRoute, CP!AtWrite,
              CP!RefuseConflict, CP!RefuseMissing, CP!ListRoutes, CP!BuildSnapshot
<1>4. ASSUME NEW t \in Tasks, NEW r,
             \/ CP!Receive(t, r) \/ CP!RejectPolicy(t, r)
             \/ CP!DbError(t) \/ CP!Cancel(t)
      PROVE  UNCHANGED <<receivers, up, chan>>
  BY <1>4 DEF CP!Receive, CP!RejectPolicy, CP!Arrives, CP!DbError, CP!Cancel,
              CP!GiveUp
<1> QED
  BY <1>1, <1>2, <1>3, <1>4 DEF CP!ProcessNext

\* No stream has begun.
LEMMA InitStreamInv == Init => Streams!StreamInv
<1> SUFFICES ASSUME Init PROVE Streams!StreamInv
  OBVIOUS
<1>1. /\ Streams!StreamInit /\ receivers = {} /\ up = FALSE
      /\ chan = Streams!NewChannel(Streams!EmptySnapshot)
  BY SameStreams DEF Init, CP!Init, CP!NewChannel, Streams!NewChannel,
     CP!EmptySnapshot, Streams!EmptySnapshot, CP!NoRoutes, Streams!NoRoutes
<1> QED
  BY <1>1, StreamsConstants, Streams!InitStreams

\* Whatever ControlPlane publishes, the streams keep what they promise.
LEMMA StepStreamInv ==
  Streams!StreamInv /\ Whole!TypeOK /\ Whole!TypeOK' /\ [Next]_vars
    => Streams!StreamInv'
<1> SUFFICES ASSUME Streams!StreamInv, Whole!TypeOK, Whole!TypeOK', [Next]_vars
             PROVE  Streams!StreamInv'
  OBVIOUS
<1>1. Whole!Snapshots = Streams!Snapshots
  BY DEF Whole!Snapshots, Streams!Snapshots, Whole!WireTables, Streams!WireTables
<1>2. /\ chan' \in Streams!Stores /\ up' \in BOOLEAN
      /\ \A t \in Tasks : draft[t] \in Streams!Snapshots
  BY <1>1 DEF Whole!TypeOK, Whole!ConfigType, Whole!HandlersType, Streams!Stores
<1>3. CASE CpStep
  <2>1. CP!ProcessNext /\ UNCHANGED streamVars
    BY <1>3 DEF CpStep, StreamsStay
  <2>2. UNCHANGED Streams!streamVars
    BY <2>1 DEF streamVars, Streams!streamVars
  <2>3. CASE UNCHANGED <<chan, receivers, up>>
    BY <2>2, <2>3, StreamsConstants, Streams!StutterKeeps
  <2>4. ASSUME NEW t \in Tasks, chan' = Send(chan, receivers, draft[t]),
               UNCHANGED <<receivers, up>>
        PROVE  Streams!StreamInv'
    <3>1. chan' = Streams!Send(chan, receivers, draft[t])
      BY <2>4 DEF Send, Streams!Send
    <3> QED
      BY <1>2, <2>2, <2>4, <3>1, StreamsConstants, Streams!StoreKeeps
  <2>5. CASE ~up /\ up' /\ UNCHANGED receivers
    BY <1>2, <2>2, <2>5, StreamsConstants, Streams!StartKeeps
  <2> QED
    BY <2>1, <2>3, <2>4, <2>5, ProcessStores
<1>4. CASE StreamStep
  BY <1>4, SameStreams, StreamsConstants, Streams!StreamStepKeeps DEF StreamStep
<1>5. CASE Crash
  <2>1. /\ up' = FALSE /\ receivers' = {} /\ Streams!ServerDies
        /\ chan' = Streams!NewChannel(Streams!EmptySnapshot)
    BY <1>5, SameStreams DEF Crash, CP!Crash, CP!NewChannel, Streams!NewChannel,
       CP!EmptySnapshot, Streams!EmptySnapshot, CP!NoRoutes, Streams!NoRoutes
  <2> QED
    BY <2>1, StreamsConstants, Streams!CrashKeeps
<1>6. CASE UNCHANGED vars
  <2>1. UNCHANGED <<chan, receivers, up, Streams!streamVars>>
    BY <1>6 DEF vars, streamVars, Streams!streamVars
  <2> QED
    BY <2>1, StreamsConstants, Streams!StutterKeeps
<1> QED
  BY <1>3, <1>4, <1>5, <1>6 DEF Next

\* By induction over the steps.
LEMMA StreamsHold == Spec => []Streams!StreamInv
<1>1. Spec => []Whole!TypeOK
  BY WholeHolds, PTL
<1> QED
  BY <1>1, InitStreamInv, StepStreamInv, PTL DEF Spec

\* The streams of the whole system have the right types, none of them has
\* skipped the latest value, and none takes a data plane back to an earlier store.
THEOREM GatewayStreamsHold ==
  Spec => [](Sync!StreamTypeOK /\ Sync!DrainedIsCurrent /\ Sync!StreamInOrder)
<1>1. Streams!StreamInv => /\ Streams!StreamTypeOK /\ Streams!DrainedIsCurrent
                           /\ Streams!StreamInOrder
  BY StreamsConstants, Streams!StreamInvSuffices
<1>2. Streams!StreamTypeOK => Sync!StreamTypeOK
  BY DEF Sync!StreamTypeOK, Streams!StreamTypeOK, Sync!Snapshots,
         Streams!Snapshots, Sync!DpTables, Streams!DpTables,
         Sync!StreamReceivers, Streams!StreamReceivers, Sync!Live,
         Streams!Live, Sync!WireTables, Streams!WireTables, Sync!Stores,
         Streams!Stores
<1>3. Streams!DrainedIsCurrent => Sync!DrainedIsCurrent
  BY DEF Sync!DrainedIsCurrent, Streams!DrainedIsCurrent, Sync!HasChanged,
         Streams!HasChanged, Sync!Decode, Streams!Decode
<1>4. Streams!StreamInOrder => Sync!StreamInOrder
  BY DEF Sync!StreamInOrder, Streams!StreamInOrder, Sync!Upcoming,
         Streams!Upcoming
<1> QED
  BY <1>1, <1>2, <1>3, <1>4, StreamsHold, PTL

-----------------------------------------------------------------------------
(* What a data plane serves *)

\* A table of the database as the data planes serve it: Desired for any table.
Serving(table) ==
  [id \in RouteIds |-> IF table[id] = NoRoute
                         THEN NoRoute ELSE FromProto[ToProto[table[id]]]]

\* Decoding undoes no more than was done: what is absent stays absent, and
\* nothing else is.
LEMMA DecodeOfWire ==
  ASSUME NEW table \in RouteTables, NEW snapshot, snapshot.routes = CP!Wire(table)
  PROVE  Sync!Decode(snapshot) = Serving(table)
<1>1. ASSUME NEW id \in RouteIds
      PROVE  CP!Wire(table)[id] = IF table[id] = NoRoute THEN NoRoute
                                                         ELSE ToProto[table[id]]
  BY DEF CP!Wire
<1>2. ASSUME NEW id \in RouteIds
      PROVE  CP!Wire(table)[id] = NoRoute <=> table[id] = NoRoute
  <2>1. table[id] # NoRoute => ToProto[table[id]] \in WireBodies
    BY GatewayConstants DEF RouteTables
  <2> QED
    BY <1>1, <2>1, NoRouteIsNoBody
<1> QED
  BY <1>1, <1>2 DEF Sync!Decode, Serving

\* The channel is behind the table only after a loss, and a stream that has
\* nothing more to deliver is not behind the channel.
THEOREM SettledServesTableHolds == Spec => []SettledServesTable
<1>1. /\ Whole!TypeOK /\ Whole!StaleOnlyAfterLoss /\ Sync!DrainedIsCurrent
      => SettledServesTable
  <2> SUFFICES ASSUME Whole!TypeOK, Whole!StaleOnlyAfterLoss, Sync!DrainedIsCurrent,
                      NEW d \in DataPlanes, CP!Quiescent, phase[d] = "watching",
                      wire[d] = << >>, ~HasChanged(chan, seen[d]), lost # rev
               PROVE  Serves(d)
    BY DEF SettledServesTable
  <2>1. applied[d] = Sync!Decode(chan.value)
    BY DEF Sync!DrainedIsCurrent, HasChanged, Sync!HasChanged
  <2>2. chan.value.routes = CP!Wire(routes)
    BY DEF Whole!StaleOnlyAfterLoss, CP!Quiescent, Whole!Quiescent, CP!Wire,
           Whole!Wire
  <2>3. routes \in RouteTables
    BY DEF Whole!TypeOK, Whole!TablesType, Whole!RouteTables, RouteTables
  <2> QED
    BY <2>1, <2>2, <2>3, DecodeOfWire DEF Serves, Desired, Serving
<1> QED
  BY <1>1, WholeHolds, GatewayStreamsHold, PTL

-----------------------------------------------------------------------------
(* Nothing is served that was not stored *)

\* What snapshots may list, and what data planes may serve.
Listings == {CP!Wire(table) : table \in past}
Servings == {Serving(table) : table \in past}

PastType ==
  /\ past \subseteq RouteTables
  /\ routes \in past
  /\ NoRoutes \in past

Carried(d) ==
  /\ initial[d].value.routes \in Listings
  /\ \A i \in 1..Len(wire[d]) : wire[d][i].value.routes \in Listings
  /\ applied[d] \in Servings

\* Wherever a snapshot is on its way from the database to a data plane, it
\* lists a table that the database has held.
StoredInv ==
  /\ PastType
  /\ chan.value.routes \in Listings
  /\ \A t \in Tasks : draft[t].routes \in Listings
  /\ \A d \in DataPlanes : Carried(d)

\* It says what the runs check.
LEMMA StoredInvSuffices == StoredInv => ServesWhatWasStored
BY DEF StoredInv, Carried, Servings, Serving, ServesWhatWasStored

\* The empty table is listed and served as an empty table.
LEMMA EmptyListed ==
  /\ CP!Wire(NoRoutes) = NoRoutes
  /\ Serving(NoRoutes) = NoRoutes
BY DEF CP!Wire, Serving, NoRoutes

\* There is one empty table, whatever module speaks of it.
LEMMA EmptyIsEmpty ==
  /\ CP!EmptySnapshot.routes = NoRoutes /\ Streams!EmptySnapshot.routes = NoRoutes
  /\ Streams!EmptyStore.value = Streams!EmptySnapshot
  /\ Streams!NoRoutes = NoRoutes /\ CP!NoRoutes = NoRoutes
BY DEF CP!EmptySnapshot, Streams!EmptySnapshot, Streams!EmptyStore,
       Streams!NewChannel, CP!NoRoutes, Streams!NoRoutes,
       NoRoutes

\* Members of past are listed and served.
LEMMA PastListed ==
  ASSUME PastType
  PROVE  /\ NoRoutes \in Listings /\ NoRoutes \in Servings
         /\ CP!Wire(routes) \in Listings
BY EmptyListed DEF PastType, Listings, Servings

\* What was stored stays so.
LEMMA PastGrows ==
  ASSUME past' = past \cup {routes'}
  PROVE  Listings \subseteq Listings' /\ Servings \subseteq Servings'
BY DEF Listings, Servings, CP!Wire, Serving

\* Everything is empty at first.
LEMMA InitStored == Init => StoredInv
<1> SUFFICES ASSUME Init PROVE StoredInv
  OBVIOUS
<1>1. /\ past = {NoRoutes} /\ routes = NoRoutes
      /\ chan.value = CP!EmptySnapshot
      /\ \A t \in Tasks : draft[t] = CP!EmptySnapshot
  BY EmptyIsEmpty DEF Init, CP!Init, CP!NewChannel
<1>2. PastType
  BY <1>1 DEF PastType, RouteTables, NoRoutes
<1>3. ASSUME NEW d \in DataPlanes
      PROVE  Carried(d)
  <2>1. /\ initial[d] = Streams!EmptyStore /\ wire[d] = << >>
        /\ applied[d] = NoRoutes
    BY SameStreams, EmptyIsEmpty DEF Init, Streams!StreamInit
  <2>2. \A i \in 1..Len(wire[d]) : wire[d][i].value.routes \in Listings
    BY <2>1
  <2> QED
    BY <1>2, <2>1, <2>2, EmptyIsEmpty, PastListed DEF Carried
<1> QED
  BY <1>1, <1>2, <1>3, EmptyIsEmpty, PastListed DEF StoredInv

\* Handlers list the table as it is.
LEMMA ProcessLists ==
  ASSUME CP!ProcessNext, Whole!TypeOK
  PROVE  /\ \A t \in Tasks :
              draft'[t].routes \in {draft[t].routes, NoRoutes, CP!Wire(routes)}
         /\ \/ chan'.value.routes \in {chan.value.routes, NoRoutes, CP!Wire(routes)}
            \/ \E t \in Tasks : chan'.value.routes = draft[t].routes
<1>1. /\ draft \in [Tasks -> Whole!Snapshots]
      /\ \A t \in Tasks : draft[t] \in Whole!Snapshots
  BY DEF Whole!TypeOK, Whole!HandlersType
<1>2. ASSUME NEW t \in Tasks, NEW answer, CP!Finish(t, answer)
      PROVE  \A u \in Tasks : draft'[u].routes \in {draft[u].routes, NoRoutes}
  BY <1>1, <1>2, EmptyIsEmpty DEF CP!Finish
<1>3. ASSUME NEW t \in Tasks, NEW r, CP!Receive(t, r) \/ CP!RejectPolicy(t, r)
      PROVE  /\ UNCHANGED chan
             /\ \A u \in Tasks : draft'[u].routes \in {draft[u].routes, NoRoutes}
  BY <1>2, <1>3 DEF CP!Receive, CP!RejectPolicy, CP!Arrives, CP!config
<1>4. ASSUME NEW t \in Tasks, NEW label, CP!Goto(t, label)
      PROVE  draft' = draft
  BY <1>4 DEF CP!Goto
<1>5. ASSUME NEW t \in Tasks,
             \/ CP!CheckPolicy(t) \/ CP!EndValidation(t) \/ CP!InsertPolicy(t)
             \/ CP!InsertRoute(t) \/ CP!UpdateRoute(t) \/ CP!DeleteRoute(t)
             \/ CP!RefuseConflict(t) \/ CP!RefuseMissing(t)
             \/ CP!DbError(t) \/ CP!Cancel(t)
      PROVE  /\ UNCHANGED chan
             /\ \A u \in Tasks : draft'[u].routes \in {draft[u].routes, NoRoutes}
  BY <1>2, <1>4, <1>5
  DEF CP!CheckPolicy, CP!EndValidation, CP!InsertPolicy, CP!InsertRoute,
      CP!UpdateRoute, CP!DeleteRoute, CP!AtWrite, CP!RefuseConflict,
      CP!RefuseMissing, CP!DbError, CP!Cancel, CP!GiveUp, CP!config
<1>6. ASSUME NEW t \in Tasks, CP!ListRoutes(t)
      PROVE  /\ UNCHANGED chan
             /\ \A u \in Tasks :
                  draft'[u].routes \in {draft[u].routes, CP!Wire(routes)}
  BY <1>1, <1>6 DEF CP!ListRoutes, CP!config
<1>7. ASSUME NEW t \in Tasks, CP!BuildSnapshot(t)
      PROVE  UNCHANGED chan /\ \A u \in Tasks : draft'[u].routes = draft[u].routes
  <2>1. UNCHANGED chan /\ draft' = [draft EXCEPT ![t].version = version + 1]
    BY <1>7 DEF CP!BuildSnapshot
  <2>2. \A s \in Whole!Snapshots :
          [s EXCEPT !.version = version + 1].routes = s.routes
    BY DEF Whole!Snapshots
  <2>3. draft' = [draft EXCEPT ![t] = [draft[t] EXCEPT !.version = version + 1]]
    BY <2>1
  <2>4. ASSUME NEW u \in Tasks
        PROVE  draft'[u].routes = draft[u].routes
    BY <1>1, <2>2, <2>3
  <2> QED
    BY <2>1, <2>4
<1>8. ASSUME NEW t \in Tasks, CP!SendSnapshot(t)
      PROVE  /\ chan' = chan \/ chan'.value = draft[t]
             /\ \A u \in Tasks : draft'[u].routes \in {draft[u].routes, NoRoutes}
  BY <1>2, <1>8 DEF CP!SendSnapshot, CP!Send
<1>9. ASSUME CP!Start
      PROVE  /\ UNCHANGED draft
             /\ chan'.value.routes \in {NoRoutes, CP!Wire(routes)}
  BY <1>9, EmptyIsEmpty DEF CP!Start, CP!Send, CP!NewChannel, CP!handlers
<1> QED
  BY <1>3, <1>5, <1>6, <1>7, <1>8, <1>9 DEF CP!ProcessNext, CP!Handle

\* A step that delivers nothing to d.
LEMMA CarriedOn ==
  ASSUME NEW d \in DataPlanes, Carried(d),
         Listings \subseteq Listings', Servings \subseteq Servings',
         initial'[d] = initial[d], wire'[d] = wire[d], applied'[d] = applied[d]
  PROVE  Carried(d)'
BY DEF Carried

\* The end of a stream, and a restart of its client.
LEMMA CarriedEmpty ==
  ASSUME NEW d \in DataPlanes, Carried(d), PastType, UNCHANGED past,
         initial'[d] = Streams!EmptyStore, wire'[d] = << >>,
         applied'[d] \in {applied[d], NoRoutes}
  PROVE  Carried(d)'
<1>1. Listings' = Listings /\ Servings' = Servings
  BY DEF Listings, Servings, CP!Wire, Serving
<1>2. \A i \in 1..Len(wire'[d]) : wire'[d][i].value.routes \in Listings'
  OBVIOUS
<1> QED
  BY <1>1, <1>2, EmptyIsEmpty, PastListed DEF Carried

\* A poll that yields puts a listing behind the others.
LEMMA EmitCarries ==
  ASSUME Streams!StreamInv, NEW d \in DataPlanes, NEW v \in Streams!Stores,
         Streams!Emit(d, v), v.value.routes \in Listings, UNCHANGED past,
         \A e \in DataPlanes : Carried(e),
         \A e \in DataPlanes : initial'[e].value.routes \in Listings,
         NEW e \in DataPlanes
  PROVE  Carried(e)'
<1>1. Listings' = Listings /\ Servings' = Servings
  BY DEF Listings, Servings, CP!Wire, Serving
<1>2. /\ wire'[d] = Append(wire[d], v) /\ wire[d] \in Seq(Streams!Stores)
      /\ \A u \in DataPlanes \ {d} : wire'[u] = wire[u]
  BY StreamsConstants, Streams!Emitted DEF Streams!StreamInv, Streams!Types
<1>3. UNCHANGED applied
  BY DEF Streams!Emit
<1>4. \A i \in 1..Len(Append(wire[d], v)) :
        Append(wire[d], v)[i].value.routes \in Listings
  <2>1. ASSUME NEW i \in 1..Len(Append(wire[d], v))
        PROVE  \/ i \in 1..Len(wire[d]) /\ Append(wire[d], v)[i] = wire[d][i]
               \/ Append(wire[d], v)[i] = v
    BY <1>2
  <2> QED
    BY <2>1 DEF Carried
<1>5. \A i \in 1..Len(wire'[e]) : wire'[e][i].value.routes \in Listings
  BY <1>2, <1>4 DEF Carried
<1> QED
  BY <1>1, <1>3, <1>5 DEF Carried

\* What the server clones and yields comes from the channel.
LEMMA ServerCarries ==
  ASSUME StoredInv, Streams!StreamInv, UNCHANGED past,
         NEW d \in DataPlanes, Streams!ServerStep(d), NEW e \in DataPlanes
  PROVE  Carried(e)'
<1>1. /\ Streams!Types /\ initial \in [DataPlanes -> Streams!Stores]
      /\ initial[d] \in Streams!Stores /\ chan \in Streams!Stores
  BY DEF Streams!StreamInv, Streams!Types
<1>2. /\ \A u \in DataPlanes : Carried(u) /\ initial[u].value.routes \in Listings
      /\ chan.value.routes \in Listings /\ NoRoutes \in Listings
  BY PastListed DEF StoredInv, Carried
<1>3. CASE Streams!CloneInitial(d)
  <2>1. /\ initial' = [initial EXCEPT ![d] = chan]
        /\ UNCHANGED <<wire, applied>>
    BY <1>3 DEF Streams!CloneInitial
  <2>2. initial'[e].value.routes \in Listings
    BY <1>1, <1>2, <2>1
  <2>3. Listings' = Listings /\ Servings' = Servings
    BY DEF Listings, Servings, CP!Wire, Serving
  <2> QED
    BY <1>2, <2>1, <2>2, <2>3 DEF Carried
<1>4. CASE Streams!YieldInitial(d)
  BY <1>1, <1>2, <1>4, EmitCarries DEF Streams!YieldInitial
<1>5. CASE Streams!YieldFirst(d)
  <2>1. Streams!Emit(d, chan)
        /\ initial' = [initial EXCEPT ![d] = Streams!EmptyStore]
    BY <1>5 DEF Streams!YieldFirst
  <2>2. \A u \in DataPlanes : initial'[u].value.routes \in Listings
    BY <1>1, <1>2, <2>1, EmptyIsEmpty
  <2> QED
    BY <1>1, <1>2, <2>1, <2>2, EmitCarries
<1>6. CASE Streams!YieldChange(d)
  BY <1>1, <1>2, <1>6, EmitCarries DEF Streams!YieldChange
<1> QED
  BY <1>3, <1>4, <1>5, <1>6 DEF Streams!ServerStep

\* What is applied was in flight.
LEMMA ApplyCarries ==
  ASSUME StoredInv, Streams!StreamInv, UNCHANGED past,
         NEW d \in DataPlanes, Streams!Apply(d), NEW e \in DataPlanes
  PROVE  Carried(e)'
<1>1. /\ Carried(d) /\ Carried(e) /\ Streams!Types
      /\ wire[d] \in Seq(Streams!Stores)
  BY DEF StoredInv, Streams!StreamInv, Streams!Types
<1>2. /\ UNCHANGED initial /\ wire[d] # << >>
      /\ applied' = [applied EXCEPT ![d] = Streams!Decode(Head(wire[d]).value)]
      /\ wire' = [wire EXCEPT ![d] = Tail(@)]
  BY DEF Streams!Apply
<1>3. Listings' = Listings /\ Servings' = Servings
  BY DEF Listings, Servings, CP!Wire, Serving
<1>4. CASE e # d
  BY <1>1, <1>2, <1>3, <1>4, CarriedOn DEF Streams!Types
<1>5. CASE e = d
  <2>1. /\ Head(wire[d]) = wire[d][1] /\ 1 \in 1..Len(wire[d])
        /\ \A i \in 1..Len(Tail(wire[d])) :
             i + 1 \in 1..Len(wire[d]) /\ Tail(wire[d])[i] = wire[d][i + 1]
    BY <1>1, <1>2
  <2>2. Streams!Decode(Head(wire[d]).value) \in Servings
    <3>1. PICK table \in past : Head(wire[d]).value.routes = CP!Wire(table)
      BY <1>1, <2>1 DEF Carried, Listings
    <3>2. table \in RouteTables
      BY DEF StoredInv, PastType
    <3>3. Streams!Decode(Head(wire[d]).value) = Serving(table)
      BY <3>1, <3>2, DecodeOfWire DEF Sync!Decode, Streams!Decode
    <3> QED
      BY <3>3 DEF Servings
  <2>3. wire'[d] = Tail(wire[d]) /\ applied'[d] = Streams!Decode(Head(wire[d]).value)
    BY <1>1, <1>2 DEF Streams!Types
  <2>4. \A i \in 1..Len(wire'[d]) : wire'[d][i].value.routes \in Listings
    BY <1>1, <2>1, <2>3 DEF Carried
  <2> QED
    BY <1>1, <1>2, <1>3, <1>5, <2>2, <2>3, <2>4 DEF Carried
<1> QED
  BY <1>4, <1>5

\* No step of the streams makes a listing.
LEMMA StreamCarries ==
  ASSUME StoredInv, Streams!StreamInv, UNCHANGED past, Streams!StreamNext,
         NEW e \in DataPlanes
  PROVE  Carried(e)'
<1>1. /\ Carried(e) /\ PastType
      /\ initial \in [DataPlanes -> Streams!Stores]
      /\ wire \in [DataPlanes -> Seq(Streams!Stores)]
      /\ applied \in [DataPlanes -> Streams!DpTables]
  BY DEF StoredInv, Streams!StreamInv, Streams!Types
<1>2. Listings' = Listings /\ Servings' = Servings
  BY DEF Listings, Servings, CP!Wire, Serving
<1>3. ASSUME NEW d \in DataPlanes,
             \/ Streams!Subscribe(d) \/ Streams!StreamEnds(d) \/ Streams!Wake(d)
             \/ Streams!NoticeGone(d) \/ Streams!ConnectFails(d)
             \/ Streams!RequestShutdown(d)
      PROVE  Carried(e)'
  <2>1. UNCHANGED <<initial, wire, applied>>
    BY <1>3 DEF Streams!Subscribe, Streams!StreamEnds, Streams!Wake,
                Streams!NoticeGone, Streams!ConnectFails,
                Streams!RequestShutdown, Streams!streamVars
  <2> QED
    BY <1>1, <1>2, <2>1, CarriedOn
<1>4. CASE Streams!AcceptFails
  BY <1>1, <1>2, <1>4, CarriedOn DEF Streams!AcceptFails
<1>5. ASSUME NEW d \in DataPlanes,
             \/ Streams!DecodeFails(d) \/ Streams!Stop(d) \/ Streams!Restart(d)
             \/ Streams!BreakLink(d) \/ Streams!LoseSilently(d)
      PROVE  Carried(e)'
  <2>1. /\ initial' = [initial EXCEPT ![d] = Streams!EmptyStore]
        /\ wire' = [wire EXCEPT ![d] = << >>]
        /\ applied' = applied \/ applied' = [applied EXCEPT ![d] = NoRoutes]
    BY <1>5, EmptyIsEmpty
    DEF Streams!DecodeFails, Streams!Stop, Streams!Restart, Streams!BreakLink,
        Streams!LoseSilently, Streams!Sever
  <2>2. CASE e = d
    BY <1>1, <2>1, <2>2, CarriedEmpty
  <2>3. CASE e # d
    BY <1>1, <1>2, <2>1, <2>3, CarriedOn
  <2> QED
    BY <2>2, <2>3
<1> QED
  BY <1>3, <1>4, <1>5, ServerCarries, ApplyCarries
  DEF Streams!StreamNext, Streams!ClientStep

\* Listings are made from the table, and only passed on from there.
LEMMA StepStored ==
  /\ StoredInv /\ Streams!StreamInv /\ Whole!TypeOK /\ Whole!TypeOK'
  /\ [Next]_vars
  => StoredInv'
<1> SUFFICES ASSUME StoredInv, Streams!StreamInv, Whole!TypeOK, Whole!TypeOK',
                    [Next]_vars
             PROVE  StoredInv'
  OBVIOUS
<1>1. /\ NoRoutes \in Listings /\ CP!Wire(routes) \in Listings
      /\ chan.value.routes \in Listings
      /\ \A t \in Tasks : draft[t].routes \in Listings
      /\ \A d \in DataPlanes : Carried(d)
      /\ PastType
  BY PastListed DEF StoredInv
<1>2. CASE CpStep
  <2>1. /\ CP!ProcessNext /\ UNCHANGED <<initial, wire, applied>>
        /\ past' = past \cup {routes'}
    BY <1>2 DEF CpStep, StreamsStay, streamVars
  <2>2. Listings \subseteq Listings' /\ Servings \subseteq Servings'
    BY <2>1, PastGrows
  <2>3. PastType'
    <3>1. routes' \in RouteTables
      BY DEF Whole!TypeOK, Whole!TablesType, Whole!RouteTables, RouteTables
    <3> QED
      BY <1>1, <2>1, <3>1 DEF PastType, NoRoutes, RouteTables
  <2>4. \A t \in Tasks : draft'[t].routes \in Listings
    BY <1>1, <2>1, ProcessLists
  <2>5. chan'.value.routes \in Listings
    BY <1>1, <2>1, ProcessLists
  <2>6. \A d \in DataPlanes : Carried(d)'
    BY <1>1, <2>1, <2>2, CarriedOn
  <2> QED
    BY <2>2, <2>3, <2>4, <2>5, <2>6 DEF StoredInv
<1>3. CASE StreamStep
  <2>1. /\ Streams!StreamNext /\ UNCHANGED <<past, routes, draft>>
    BY <1>3, SameStreams DEF StreamStep, CpStays, cpVars
  <2>2. UNCHANGED chan
    BY <1>3, StreamsLeave DEF StreamStep
  <2>3. Listings' = Listings /\ PastType'
    BY <1>1, <2>1 DEF Listings, CP!Wire, PastType, RouteTables, NoRoutes
  <2>4. \A d \in DataPlanes : Carried(d)'
    BY <2>1, StreamCarries
  <2> QED
    BY <1>1, <2>1, <2>2, <2>3, <2>4 DEF StoredInv
<1>4. CASE Crash
  <2>1. /\ UNCHANGED <<past, routes, applied>>
        /\ chan'.value = CP!EmptySnapshot
        /\ \A t \in Tasks : draft'[t] = CP!EmptySnapshot
        /\ \A d \in DataPlanes :
             initial'[d] = Streams!EmptyStore /\ wire'[d] = << >>
    BY <1>4, SameStreams DEF Crash, CP!Crash, CP!NewChannel, CP!tables,
       Streams!ServerDies
  <2>2. Listings' = Listings /\ PastType'
    BY <1>1, <2>1 DEF Listings, CP!Wire, PastType, RouteTables, NoRoutes
  <2>3. \A d \in DataPlanes : Carried(d)'
    BY <1>1, <2>1, CarriedEmpty
  <2> QED
    BY <1>1, <2>1, <2>2, <2>3, EmptyIsEmpty DEF StoredInv
<1>5. CASE UNCHANGED vars
  <2>1. UNCHANGED <<past, routes, chan, draft, initial, wire, applied>>
    BY <1>5 DEF vars, cpVars, streamVars
  <2>2. Listings' = Listings /\ Servings' = Servings /\ PastType'
    BY <1>1, <2>1 DEF Listings, Servings, CP!Wire, Serving, PastType, RouteTables,
       NoRoutes
  <2> QED
    BY <1>1, <2>1, <2>2, CarriedOn DEF StoredInv
<1> QED
  BY <1>2, <1>3, <1>4, <1>5 DEF Next

\* Whatever is overtaken, skipped, severed or lost on the way, what a data plane
\* serves is one table that the database has held, whole.
THEOREM ServesWhatWasStoredHolds == Spec => []ServesWhatWasStored
<1>1. Spec => [](Whole!TypeOK /\ Streams!StreamInv)
  BY WholeHolds, StreamsHold, PTL
<1> QED
  BY <1>1, InitStored, StepStored, StoredInvSuffices, PTL DEF Spec
=============================================================================
