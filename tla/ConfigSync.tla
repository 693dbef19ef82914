----------------------------- MODULE ConfigSync -----------------------------
(***************************************************************************)
(* The configuration streams: the server's half of ConfigService.Subscribe *)
(* in gateway-cp, the connection, and CpSync in each gateway-dp process.   *)
(*                                                                         *)
(* The watch channel, its receivers and the flag that says whether the     *)
(* control plane runs are shared with the module that publishes: see       *)
(* ConfigDelivery and Gateway.  A server stream whose client is gone keeps *)
(* its receiver until the server notices; such receivers of a data plane   *)
(* are counted as one, <<d, "lingering">>, because all that matters to a   *)
(* sender is whether there is a receiver at all.                           *)
(*                                                                         *)
(* A message is a snapshot.  It is modelled with the number of the store   *)
(* it came from, as [value, seq], which is what the channel holds; only    *)
(* properties read the number.  So does the history variable taken.        *)
(*                                                                         *)
(*   client   "connecting"  connect and subscribe calls in run_once        *)
(*            "streaming"   awaiting stream.message()                      *)
(*            "sleeping"    the second between two calls of run_once       *)
(*            "stopped"     the loop was left, the process is gone         *)
(*   link     the connection behind the stream: "none", "up", "broken"     *)
(*            (the client will see it end), "silent" (nobody tells it)     *)
(*   phase    the server's half: "none", "subscribed" (receiver made),     *)
(*            "initial" (value cloned), "first" (initial value yielded),   *)
(*            "watching" (WatchStream yielded once)                        *)
(***************************************************************************)
EXTENDS Sequences, FiniteSets, ConfigProto, WatchChannel

CONSTANTS
  DataPlanes,
  DpRoutes,      \* a data plane's route without its id
  FromProto,     \* wire body -> data plane route: snapshot_to_routes
  DecodeLimit,   \* how many routes fit a message that the client accepts
  Window,        \* bound: messages in flight on one stream
  LinkFaults,    \* which of "break", "silent", "refuse", "restart", "accept"
                 \* happen
  MaxFaults      \* bound: how many of them

ASSUME StreamConstants ==
  /\ FromProto \in [WireBodies -> DpRoutes]
  /\ NoRoute \notin DpRoutes
  /\ DecodeLimit \in Nat
  /\ Window \in Nat \ {0}
  /\ MaxFaults \in Nat

VARIABLES
  chan, receivers, up,    \* shared with the publisher
  listening, \* the gRPC server of the control plane accepts connections
  client,
  link,
  phase,
  seen,      \* number of the store the stream's receiver saw last
  initial,   \* the value that subscribe cloned
  wire,      \* messages in flight, the next one first
  applied,   \* the routes that the data plane serves
  taken,     \* history: the store that the data plane applied last, of those
             \* of this life of the control plane
  shutdown,  \* the data plane was asked to stop
  faults

shared == <<chan, receivers, up>>
streamVars == <<listening, client, link, phase, seen, initial, wire, applied,
                taken, shutdown, faults>>

Live(d) == <<d, "live">>
Lingering(d) == <<d, "lingering">>
StreamReceivers == DataPlanes \X {"live", "lingering"}

DpTables == [RouteIds -> DpRoutes \cup {NoRoute}]

\* snapshot_to_routes: version, balancing, weights and policies are dropped.
Decode(snapshot) ==
  [id \in RouteIds |-> IF snapshot.routes[id] = NoRoute
                         THEN NoRoute ELSE FromProto[snapshot.routes[id]]]

\* The message is within the default decoding limit of the client.
Fits(snapshot) ==
  Cardinality({id \in RouteIds : snapshot.routes[id] # NoRoute}) <= DecodeLimit

\* What a channel holds: a snapshot and the number of its store.
Stores == [value : Snapshots, seq : Nat]
EmptyStore == NewChannel(EmptySnapshot)

StreamInit ==
  /\ listening = TRUE
  /\ client = [d \in DataPlanes |-> "connecting"]
  /\ link = [d \in DataPlanes |-> "none"]
  /\ phase = [d \in DataPlanes |-> "none"]
  /\ seen = [d \in DataPlanes |-> 0]
  /\ initial = [d \in DataPlanes |-> EmptyStore]
  /\ wire = [d \in DataPlanes |-> << >>]
  /\ applied = [d \in DataPlanes |-> NoRoutes]
  /\ taken = [d \in DataPlanes |-> 0]
  /\ shutdown = [d \in DataPlanes |-> FALSE]
  /\ faults = 0

Fault(kind) ==
  /\ kind \in LinkFaults
  /\ faults < MaxFaults
  /\ faults' = faults + 1

\* Mutant of Sever: the receiver of the dead stream passes for a live one.
SeverKeepingReceiver(d, newLink) ==
  /\ link' = [link EXCEPT ![d] = newLink]
  /\ phase' = [phase EXCEPT ![d] = "none"]
  /\ seen' = [seen EXCEPT ![d] = 0]
  /\ initial' = [initial EXCEPT ![d] = EmptyStore]
  /\ wire' = [wire EXCEPT ![d] = << >>]
  /\ UNCHANGED <<shared, listening>>

\* The stream is over for the server: what was in flight is lost, and its
\* receiver stays until the server notices.
Sever(d, newLink) ==
  /\ link' = [link EXCEPT ![d] = newLink]
  /\ phase' = [phase EXCEPT ![d] = "none"]
  /\ seen' = [seen EXCEPT ![d] = 0]
  /\ initial' = [initial EXCEPT ![d] = EmptyStore]
  /\ wire' = [wire EXCEPT ![d] = << >>]
  /\ receivers' = IF Live(d) \in receivers
                    THEN (receivers \ {Live(d)}) \cup {Lingering(d)}
                    ELSE receivers
  /\ UNCHANGED <<chan, up, listening>>

-----------------------------------------------------------------------------
(* The server's half of a stream *)

\* Mutant of Subscribe: the gRPC server is started before the first
\* publication and not after it.
SubscribeEarly(d) ==
  /\ listening
  /\ client[d] = "connecting"
  /\ client' = [client EXCEPT ![d] = "streaming"]
  /\ link' = [link EXCEPT ![d] = "up"]
  /\ phase' = [phase EXCEPT ![d] = "subscribed"]
  /\ seen' = [seen EXCEPT ![d] = chan.seq]
  /\ receivers' = receivers \cup {Live(d)}
  /\ UNCHANGED <<chan, up, listening, initial, wire, applied, taken, shutdown,
                 faults>>

\* The first statement of the handler: a receiver that has seen the value
\* that the channel holds now.
Subscribe(d) ==
  /\ up /\ listening
  /\ client[d] = "connecting"
  /\ client' = [client EXCEPT ![d] = "streaming"]
  /\ link' = [link EXCEPT ![d] = "up"]
  /\ phase' = [phase EXCEPT ![d] = "subscribed"]
  /\ seen' = [seen EXCEPT ![d] = chan.seq]
  /\ receivers' = receivers \cup {Live(d)}
  /\ UNCHANGED <<chan, up, listening, initial, wire, applied, taken, shutdown,
                 faults>>

\* The second: the value is cloned, perhaps a later one.
CloneInitial(d) ==
  /\ phase[d] = "subscribed"
  /\ phase' = [phase EXCEPT ![d] = "initial"]
  /\ initial' = [initial EXCEPT ![d] = chan]
  /\ UNCHANGED <<shared, listening, client, link, seen, wire, applied, taken,
                 shutdown, faults>>

\* Flow control lets the server poll the stream for one more message.
Emit(d, message) ==
  /\ Len(wire[d]) < Window
  /\ wire' = [wire EXCEPT ![d] = Append(@, message)]
  /\ UNCHANGED <<shared, listening, client, link, applied, taken, shutdown,
                 faults>>

YieldInitial(d) ==
  /\ phase[d] = "initial"
  /\ Emit(d, initial[d])
  /\ phase' = [phase EXCEPT ![d] = "first"]
  /\ UNCHANGED <<seen, initial>>

\* Mutant of YieldFirst: the value counts as seen and is not yielded.
SkipFirst(d) ==
  /\ phase[d] = "first"
  /\ phase' = [phase EXCEPT ![d] = "watching"]
  /\ seen' = [seen EXCEPT ![d] = chan.seq]
  /\ initial' = [initial EXCEPT ![d] = EmptyStore]
  /\ UNCHANGED <<shared, listening, client, link, wire, applied, taken,
                 shutdown, faults>>

\* Mutant of YieldFirst: merge instead of chain, so that updates may come
\* before the initial value.
YieldMerged(d) ==
  /\ phase[d] \in {"initial", "first"}
  /\ Emit(d, chan)
  /\ seen' = [seen EXCEPT ![d] = chan.seq]
  /\ IF phase[d] = "initial"
       THEN UNCHANGED <<phase, initial>>
       ELSE /\ phase' = [phase EXCEPT ![d] = "watching"]
            /\ initial' = [initial EXCEPT ![d] = EmptyStore]

\* WatchStream yields the current value when it is first polled ...
YieldFirst(d) ==
  /\ phase[d] = "first"
  /\ Emit(d, chan)
  /\ phase' = [phase EXCEPT ![d] = "watching"]
  /\ seen' = [seen EXCEPT ![d] = chan.seq]
  /\ initial' = [initial EXCEPT ![d] = EmptyStore]

\* ... and then whenever it changed; what was stored in between is skipped.
YieldChange(d) ==
  /\ phase[d] = "watching"
  /\ HasChanged(chan, seen[d])
  /\ Emit(d, chan)
  /\ seen' = [seen EXCEPT ![d] = chan.seq]
  /\ UNCHANGED <<phase, initial>>

\* The server drops the stream of a client that is gone.
NoticeGone(d) ==
  /\ Lingering(d) \in receivers
  /\ receivers' = receivers \ {Lingering(d)}
  /\ UNCHANGED <<chan, up, streamVars>>

-----------------------------------------------------------------------------
(* CpSync *)

\* State::update: the table that lookups use is swapped as a whole.
Apply(d) ==
  /\ client[d] = "streaming"
  /\ wire[d] # << >>
  /\ Fits(Head(wire[d]).value)
  /\ applied' = [applied EXCEPT ![d] = Decode(Head(wire[d]).value)]
  /\ taken' = [taken EXCEPT ![d] = Head(wire[d]).seq]
  /\ wire' = [wire EXCEPT ![d] = Tail(@)]
  /\ UNCHANGED <<shared, listening, client, link, phase, seen, initial,
                 shutdown, faults>>

\* The message is too large: run_once returns the error.
DecodeFails(d) ==
  /\ client[d] = "streaming"
  /\ wire[d] # << >>
  /\ ~Fits(Head(wire[d]).value)
  /\ client' = [client EXCEPT ![d] = "sleeping"]
  /\ Sever(d, "none")
  /\ UNCHANGED <<applied, taken, shutdown, faults>>

\* Mutant of StreamEnds: run_once goes on waiting.
StreamEndsUnnoticed(d) ==
  /\ client[d] = "streaming"
  /\ link[d] = "broken"
  /\ link' = [link EXCEPT ![d] = "none"]
  /\ UNCHANGED <<shared, listening, client, phase, seen, initial, wire,
                 applied, taken, shutdown, faults>>

\* The stream ends or fails: run_once returns.
StreamEnds(d) ==
  /\ client[d] = "streaming"
  /\ link[d] = "broken"
  /\ client' = [client EXCEPT ![d] = "sleeping"]
  /\ link' = [link EXCEPT ![d] = "none"]
  /\ UNCHANGED <<shared, listening, phase, seen, initial, wire, applied,
                 taken, shutdown, faults>>

ConnectFails(d) ==
  /\ client[d] = "connecting"
  /\ IF up /\ listening THEN Fault("refuse") ELSE UNCHANGED faults
  /\ client' = [client EXCEPT ![d] = "sleeping"]
  /\ UNCHANGED <<shared, listening, link, phase, seen, initial, wire, applied,
                 taken, shutdown>>

\* The sleep of a second is over; it does not watch for shutdown.
Wake(d) ==
  /\ client[d] = "sleeping"
  /\ client' = [client EXCEPT ![d] = "connecting"]
  /\ UNCHANGED <<shared, listening, link, phase, seen, initial, wire, applied,
                 taken, shutdown, faults>>

RequestShutdown(d) ==
  /\ client[d] # "stopped"
  /\ ~shutdown[d]
  /\ shutdown' = [shutdown EXCEPT ![d] = TRUE]
  /\ Fault("restart")
  /\ UNCHANGED <<shared, listening, client, link, phase, seen, initial, wire,
                 applied, taken>>

\* Mutant of Stop: only the beginning of the loop looks at the request.
StopBetweenStreams(d) ==
  /\ shutdown[d]
  /\ client[d] = "connecting"
  /\ client' = [client EXCEPT ![d] = "stopped"]
  /\ Sever(d, "none")
  /\ UNCHANGED <<applied, taken, shutdown, faults>>

\* The select in start takes its shutdown branch and drops run_once.
Stop(d) ==
  /\ shutdown[d]
  /\ client[d] \in {"connecting", "streaming"}
  /\ client' = [client EXCEPT ![d] = "stopped"]
  /\ Sever(d, "none")
  /\ UNCHANGED <<applied, taken, shutdown, faults>>

\* The process is started again, after a stop or a crash, with no routes.
Restart(d) ==
  /\ IF client[d] = "stopped" THEN UNCHANGED faults ELSE Fault("restart")
  /\ client' = [client EXCEPT ![d] = "connecting"]
  /\ Sever(d, "none")
  /\ applied' = [applied EXCEPT ![d] = NoRoutes]
  /\ shutdown' = [shutdown EXCEPT ![d] = FALSE]
  /\ UNCHANGED taken

-----------------------------------------------------------------------------
(* The connection *)

BreakLink(d) ==
  /\ link[d] = "up"
  /\ Fault("break")
  /\ Sever(d, "broken")
  /\ UNCHANGED <<client, applied, taken, shutdown>>

\* The peer or the path vanishes without a word.  Neither side of the stream
\* has keep-alives or timeouts, and the client never sends.
LoseSilently(d) ==
  /\ link[d] = "up"
  /\ Fault("silent")
  /\ Sever(d, "silent")
  /\ UNCHANGED <<client, applied, taken, shutdown>>

\* accept fails, for want of file descriptors perhaps: the gRPC server ends
\* with the error.  run looks at its task only after axum's server, which does
\* not end, so that the process goes on, with the streams that it has.
AcceptFails ==
  /\ up
  /\ listening
  /\ Fault("accept")
  /\ listening' = FALSE
  /\ UNCHANGED <<shared, client, link, phase, seen, initial, wire, applied,
                 taken, shutdown>>

\* What the death of the control plane does to the streams; the publisher's
\* module says what it does to the shared state.
ServerDies ==
  /\ listening' = TRUE
  /\ link' = [d \in DataPlanes |-> IF link[d] = "up" THEN "broken" ELSE link[d]]
  /\ phase' = [d \in DataPlanes |-> "none"]
  /\ seen' = [d \in DataPlanes |-> 0]
  /\ initial' = [d \in DataPlanes |-> EmptyStore]
  /\ wire' = [d \in DataPlanes |-> << >>]
  /\ taken' = [d \in DataPlanes |-> 0]
  /\ UNCHANGED <<client, applied, shutdown, faults>>

-----------------------------------------------------------------------------

ServerStep(d) ==
  CloneInitial(d) \/ YieldInitial(d) \/ YieldFirst(d) \/ YieldChange(d)

ClientStep(d) ==
  \/ Subscribe(d) \/ Apply(d) \/ DecodeFails(d)
  \/ StreamEnds(d) \/ Wake(d)

StreamNext ==
  \/ AcceptFails
  \/ \E d \in DataPlanes :
       \/ ServerStep(d) \/ ClientStep(d) \/ Stop(d)
       \/ NoticeGone(d) \/ ConnectFails(d)
       \/ RequestShutdown(d) \/ Restart(d)
       \/ BreakLink(d) \/ LoseSilently(d)

-----------------------------------------------------------------------------
(* Properties *)

StreamTypeOK ==
  /\ listening \in BOOLEAN
  /\ ~up => listening
  /\ client \in [DataPlanes ->
                    {"connecting", "streaming", "sleeping", "stopped"}]
  /\ link \in [DataPlanes -> {"none", "up", "broken", "silent"}]
  /\ phase \in [DataPlanes ->
                   {"none", "subscribed", "initial", "first", "watching"}]
  /\ seen \in [DataPlanes -> Nat]
  /\ initial \in [DataPlanes -> Stores]
  /\ wire \in [DataPlanes -> Seq(Stores)]
  /\ applied \in [DataPlanes -> DpTables]
  /\ taken \in [DataPlanes -> Nat]
  /\ shutdown \in [DataPlanes -> BOOLEAN]
  /\ faults \in 0..MaxFaults
  /\ receivers \subseteq StreamReceivers
  /\ \A d \in DataPlanes :
       /\ link[d] = "up" <=> phase[d] # "none"
       /\ link[d] = "up" <=> Live(d) \in receivers
       /\ link[d] = "up" => up
       /\ link[d] # "none" => client[d] = "streaming"
       /\ Len(wire[d]) <= Window

\* A data plane whose stream has caught up with the channel and has nothing
\* in flight serves exactly what the channel holds: whatever was stored
\* between subscribe, clone and first poll, or skipped while the window was
\* full, the latest value is never the one that is missing.
DrainedIsCurrent ==
  \A d \in DataPlanes :
    phase[d] = "watching" /\ wire[d] = << >> /\ ~HasChanged(chan, seen[d])
      => applied[d] = Decode(chan.value)

\* What the stream of d yields next, as long as nothing more is stored.
Upcoming(d) == IF phase[d] = "initial" THEN initial[d] ELSE chan

\* In one life of the control plane a data plane never goes back to an earlier
\* store: neither within a stream, whose first value is cloned before the
\* WatchStream is polled, nor from one stream to the next.  The order is that
\* of the stores; versions may come in any order, because the handlers of the
\* control plane number their snapshots before they race to send them.
StreamInOrder ==
  \A d \in DataPlanes :
    LET sent == wire[d]
    IN  /\ taken[d] <= Upcoming(d).seq
        /\ \A i \in 1..Len(sent) :
             taken[d] <= sent[i].seq /\ sent[i].seq <= Upcoming(d).seq
        /\ \A i, j \in 1..Len(sent) : i < j => sent[i].seq <= sent[j].seq
=============================================================================
